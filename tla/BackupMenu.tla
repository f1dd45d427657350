----------------------------- MODULE BackupMenu -----------------------------
(***************************************************************************)
(* The backup menu of a title (appstates/BackupMenuState.cpp) and the      *)
(* tasks it starts on the thread pool (tasks/backup.cpp).  Menu and task   *)
(* share one DataStruct: the menu fills it when the user picks something,  *)
(* and a task reads it while it runs.  The menu takes no input until the   *)
(* task calls complete(), which is not always its last step.               *)
(*                                                                         *)
(* A backup is the version of the save data it holds.  What is remote is   *)
(* Storage::m_list below the title's directory, a vector: to append or to  *)
(* erase leaves every pointer into it stale, so a pointer carries the      *)
(* number of such changes it has seen (its age).                           *)
(***************************************************************************)
EXTENDS Naturals, Sequences, SequencesExt, FiniteSetsExt

CONSTANTS
    Worker,      \* threads of the pool
    Name,        \* names of backups, more than can be in use
    LocalBackups, RemoteBackups,   \* name -> version, those there at first
    MaxPicks,    \* bound: operations the user starts
    MaxFaults    \* bound: file or network operations that fail

ASSUME BoundAssumption == MaxPicks \in Nat /\ MaxFaults \in Nat
ASSUME NameAssumption == Name \subseteq Nat \ {0}
ASSUME BackupAssumption ==
    /\ DOMAIN LocalBackups \subseteq Name /\ \A n \in DOMAIN LocalBackups : LocalBackups[n] \in Nat \ {0}
    /\ DOMAIN RemoteBackups \subseteq Name /\ \A n \in DOMAIN RemoteBackups : RemoteBackups[n] \in Nat \ {0}
    /\ IsFiniteSet(DOMAIN RemoteBackups)

VARIABLES
    config,      \* AUTO_BACKUP_ON_RESTORE, AUTO_UPLOAD, KEEP_LOCAL_BACKUPS
    connected,   \* get_remote_storage returns a storage
    save,        \* the version of the save data, Empty or Torn
    local,       \* name -> version, Absent or Torn
    items,       \* m_list: sequence of [name, version]
    age,         \* how often items was appended to or erased from
    foreign,     \* another title's directory is still on the drive
    inTitle,     \* m_parent is the title's directory, not the root
    opened,      \* the menu is open
    menu,        \* what refresh read: [local, remote]
    hasData,     \* m_saveHasData
    data,        \* DataStruct: path, remoteItem, remoteName, killTask
    worker,      \* what each thread runs
    picks, faults

drives == <<save, local, items, age>>
vars == <<config, connected, drives, foreign, inTitle, opened, menu, hasData, data, worker, picks, faults>>

Absent == 0
Empty == 98
Torn == 99
TitleDirectory == 0
Null == [at |-> 0, age |-> 0]

\* Another title's directory on the drive.
Foreign == [at |-> 0, age |-> 1]

(***************************************************************************)
(* Pointers into m_list and the menu.                                      *)
(***************************************************************************)
Pointer(i) == [at |-> i, age |-> age]
Valid(pointer) == pointer.at # 0 /\ pointer.age = age

IndexOf(name) == {i \in DOMAIN items : items[i].name = name}
Held(versions) == {n \in DOMAIN versions : versions[n] # Absent}

\* refresh: the pointers of get_directory_listing, with the names shown,
\* and the names in the title's local directory.
ItemsShown == [i \in DOMAIN items |-> [name |-> items[i].name, item |-> Pointer(i)]]
RootShown == <<[name |-> TitleDirectory, item |-> Foreign]>>
MenuShows(inside) ==
    [local |-> Held(local),
     remote |-> IF ~connected THEN <<>> ELSE IF inside THEN ItemsShown ELSE RootShown]

SkipRefresh == UNCHANGED menu
Refresh == menu' = IF opened THEN MenuShows(inTitle) ELSE menu

(***************************************************************************)
(* The user picks something.                                               *)
(***************************************************************************)
Task(op, pc, name, item) ==
    [op |-> op, pc |-> pc, done |-> FALSE, name |-> name, item |-> item,
     path |-> TitleDirectory, zip |-> Absent, got |-> Absent, kill |-> FALSE]
Idle == [Task("idle", "end", TitleDirectory, Null) EXCEPT !.done = TRUE]

\* No TaskState or ProgressState is above the menu.
HasFocus == opened /\ \A w \in Worker : worker[w].done

\* create_push_fade pushes the task's state and its job.  name is what the
\* user agreed to, for the properties.
Starts(op, pc, name, item) ==
    /\ picks < MaxPicks /\ picks' = picks + 1
    /\ \E w \in Worker :
        /\ worker[w] = Idle
        /\ worker' = [worker EXCEPT ![w] = Task(op, pc, name, item)]

\* The confirmation is answered with no; data keeps what was put there.
Declined == UNCHANGED <<worker, picks>>

Picks == HasFocus /\ UNCHANGED <<config, connected, drives, foreign, inTitle, opened, menu, hasData, faults>>

\* A name made of user and date.
NewName == Min({n \in Name : local[n] = Absent /\ IndexOf(n) = {}})

\* name_and_create_backup: such a name, or one that is typed.
NewBackup ==
    /\ Picks /\ hasData
    /\ \E n \in {NewName} \cup Held(local) :
        /\ data' = [data EXCEPT !.path = n, !.remoteName = n, !.kill = TRUE]
        /\ Starts("new", IF config.autoUpload /\ connected THEN "zip remote" ELSE "zip", n, Null)

PickOverwrite ==
    /\ Picks /\ hasData
    /\ \/ \E n \in menu.local :
            /\ data' = [data EXCEPT !.path = n]
            /\ Starts("overwrite", "drop", n, Null) \/ Declined
       \/ \E i \in DOMAIN menu.remote :
            /\ data' = [data EXCEPT !.item = menu.remote[i].item]
            /\ Starts("overwrite remote", "zip temp", menu.remote[i].name, data'.item) \/ Declined

\* The menu looks into an archive before it asks: an empty one is refused.
PickRestore ==
    /\ Picks
    /\ \/ \E n \in menu.local :
            /\ local[n] # Absent
            /\ data' = [data EXCEPT !.path = n]
            /\ Starts("restore", "auto", n, Null) \/ Declined
       \/ \E i \in DOMAIN menu.remote :
            /\ data' = [data EXCEPT !.item = menu.remote[i].item, !.path = TitleDirectory]
            /\ Starts("restore remote", "download", menu.remote[i].name, data'.item) \/ Declined

PickDelete ==
    /\ Picks
    /\ \/ \E n \in menu.local :
            /\ data' = [data EXCEPT !.path = n]
            /\ Starts("delete", "remove", n, Null) \/ Declined
       \/ \E i \in DOMAIN menu.remote :
            /\ data' = [data EXCEPT !.item = menu.remote[i].item]
            /\ Starts("delete remote", "remove", menu.remote[i].name, data'.item) \/ Declined

\* A backup of that name is found on the drive but not put into data; the
\* task takes the item that is there.
PickUpload ==
    /\ Picks /\ connected
    /\ \E n \in menu.local :
        /\ data' = [data EXCEPT !.path = n]
        /\ IF inTitle /\ IndexOf(n) # {}
           THEN Starts("patch", "patch", n, data.item) \/ Declined
           ELSE Starts("upload", "send", n, Null)

\* deactivate_state, which returns to the root; another BackupMenuState has its own DataStruct, looks
\* for the title's directory on the drive and reads both listings.
CloseMenu ==
    /\ HasFocus
    /\ opened' = FALSE /\ inTitle' = FALSE
    /\ UNCHANGED <<config, connected, drives, foreign, menu, hasData, data, worker, picks, faults>>

NoData == [path |-> TitleDirectory, item |-> Null, remoteName |-> TitleDirectory, kill |-> FALSE]

\* The title's directory is found or created on the drive and entered; when
\* that fails the storage stays where it is, in the root.
EntersTitle ==
    \/ inTitle' = connected /\ UNCHANGED faults
    \/ connected /\ inTitle' = FALSE /\ faults < MaxFaults /\ faults' = faults + 1

SaveHasData == save # Empty

\* Bound: the tasks of an earlier menu are over.
OpenMenu ==
    /\ ~opened /\ \A w \in Worker : worker[w] = Idle
    /\ opened' = TRUE /\ data' = NoData
    /\ EntersTitle
    /\ menu' = MenuShows(inTitle') /\ hasData' = SaveHasData
    /\ UNCHANGED <<config, connected, drives, foreign, worker, picks>>

\* What is at data's path, which may be the title's directory itself: that
\* is no archive, and to delete it deletes every backup in it.
There == IF data.path \in Name THEN local[data.path] ELSE Absent
Written(version) == IF data.path \in Name THEN [local EXCEPT ![data.path] = version] ELSE local
Dropped == [n \in Name |-> IF data.path \in {n, TitleDirectory} THEN Absent ELSE local[n]]

(***************************************************************************)
(* The tasks.                                                              *)
(***************************************************************************)
Fails == faults < MaxFaults /\ faults' = faults + 1
Works == UNCHANGED faults

GoesTo(w, pc) == worker' = [worker EXCEPT ![w].pc = pc]

\* task->complete() and the end of the function.
Completes(w) == worker' = [worker EXCEPT ![w].pc = "end", ![w].done = TRUE]

Nested(w) == worker[w].op \in {"restore", "restore remote"}

\* TASK_FINISH_RETURN in a function that creates a backup: the task is
\* complete, and a restore that wanted an automatic backup goes on.
FinishesEarly(w) ==
    IF Nested(w) THEN worker' = [worker EXCEPT ![w].pc = "back", ![w].done = TRUE]
    ELSE Completes(w)

At(w, pc) == worker[w].pc = pc /\ ~(worker[w] = Idle) /\ UNCHANGED <<config, connected, inTitle, opened, picks>>

\* The archive of the save data, whatever failed once it was open.
Archives == {[zip |-> save, faults |-> faults]} \cup
            {[zip |-> Torn, faults |-> n] : n \in {faults + 1} \cap 1..MaxFaults}

\* create_new_backup_local: an archive or a directory at data's path; what
\* fails once it is there goes unnoticed.  killTask is read at the start.
CreateLocal(w) ==
    /\ At(w, "zip")
    /\ \/ /\ \E a \in Archives : faults' = a.faults /\ local' = Written(a.zip)
          /\ worker' = [worker EXCEPT ![w].pc = "refresh", ![w].kill = data.kill]
       \/ Fails /\ FinishesEarly(w) /\ UNCHANGED local
    /\ UNCHANGED <<foreign, save, items, age, menu, hasData, data>>

\* create_new_backup_remote: the archive is kept or temporary.
CreateForRemote(w) ==
    /\ At(w, "zip remote")
    /\ \/ \E a \in Archives :
            /\ faults' = a.faults
            /\ worker' = [worker EXCEPT ![w].pc = "send", ![w].zip = a.zip, ![w].kill = data.kill]
            /\ local' = IF config.keepLocal THEN Written(a.zip) ELSE local
       \/ Fails /\ FinishesEarly(w) /\ UNCHANGED local
    /\ UNCHANGED <<foreign, save, items, age, menu, hasData, data>>

\* upload_file, which a drive refuses for a name that is taken.  A backup
\* to upload is at data's path, a new one in the archive just made.
Sends(w) ==
    IF worker[w].op = "upload" THEN [name |-> data.path, version |-> There]
    ELSE [name |-> data.remoteName, version |-> worker[w].zip]
Accepts(entry) == inTitle /\ IndexOf(entry.name) = {} /\ entry.version # Absent

SendBackup(w) ==
    /\ At(w, "send") /\ GoesTo(w, "refresh")
    /\ \/ /\ Accepts(Sends(w)) /\ Works
          /\ items' = Append(items, Sends(w)) /\ age' = age + 1
       \/ Fails /\ UNCHANGED <<items, age>>
       \/ ~Accepts(Sends(w)) /\ Works /\ UNCHANGED <<items, age>>
    /\ UNCHANGED <<foreign, save, local, menu, hasData, data>>

\* spawningState->refresh(), then complete() if killTask is set.
ShowCreated(w) ==
    /\ At(w, "refresh") /\ Refresh
    /\ worker' = [worker EXCEPT ![w].pc = IF Nested(w) THEN "back" ELSE "end",
                                ![w].done = @ \/ worker[w].kill \/ worker[w].op = "upload"]
    /\ UNCHANGED <<foreign, drives, hasData, data, faults>>

\* overwrite_backup_local drops the old backup, or fails to, and makes sure
\* that the creation ends the task.
KillKept == data
MustKill == [data EXCEPT !.kill = TRUE]
DropOld(w) ==
    /\ At(w, "drop")
    /\ \/ Works /\ local' = Dropped
       \/ Fails /\ UNCHANGED local
    /\ data' = MustKill
    /\ GoesTo(w, "zip")
    /\ UNCHANGED <<foreign, save, items, age, menu, hasData>>

\* overwrite_backup_remote: the save data in a temporary archive.
ZipTemporary(w) ==
    /\ At(w, "zip temp")
    /\ \/ /\ connected /\ worker[w].item # Null
          /\ \E a \in Archives :
                faults' = a.faults /\ worker' = [worker EXCEPT ![w].pc = "patch", ![w].zip = a.zip]
       \/ Fails /\ Completes(w)
    /\ UNCHANGED <<foreign, drives, menu, hasData, data>>

\* patch_file through the item the task was given, if there is one; a
\* pointer that has gone stale hits any item.
Patching(w) == IF worker[w].op = "patch" THEN There ELSE worker[w].zip
Hit(pointer) == IF Valid(pointer) THEN {pointer.at} ELSE IF pointer.at = 0 THEN {} ELSE DOMAIN items

PatchItem(w) ==
    /\ At(w, "patch") /\ Completes(w)
    /\ \/ /\ Works /\ Patching(w) # Absent
          /\ \E i \in Hit(worker[w].item) : items' = [items EXCEPT ![i].version = Patching(w)]
       \/ Works /\ (Patching(w) = Absent \/ Hit(worker[w].item) = {}) /\ UNCHANGED items
       \/ Fails /\ UNCHANGED items
    /\ UNCHANGED <<foreign, save, local, age, menu, hasData, data>>

DownloadUnchecked(w) ==
    /\ At(w, "download") /\ (Works \/ Fails)
    /\ worker' = [worker EXCEPT ![w].pc = "auto",
                     ![w].got = IF faults' = faults /\ Valid(worker[w].item)
                                THEN items[worker[w].item.at].version ELSE Absent]
    /\ UNCHANGED <<foreign, drives, menu, hasData, data>>

\* restore_backup_remote: the archive is fetched and opened first.
Download(w) ==
    /\ At(w, "download")
    /\ \/ /\ Works /\ Valid(worker[w].item)
          /\ worker' = [worker EXCEPT ![w].pc = "auto", ![w].got = items[worker[w].item.at].version]
       \/ (Fails \/ (Works /\ worker[w].item = Foreign)) /\ Completes(w)
    /\ UNCHANGED <<foreign, drives, menu, hasData, data>>

\* auto_backup, unless there is nothing to save: data's path is put aside
\* and the creation is told not to end the task.
AutoBackup(w) ==
    /\ At(w, "auto") /\ Works
    /\ IF config.autoBackup /\ save # Empty
       THEN /\ data' = [data EXCEPT !.path = NewName, !.remoteName = NewName, !.kill = FALSE]
            /\ worker' = [worker EXCEPT ![w].path = data.path,
                             ![w].pc = IF config.autoUpload /\ connected THEN "zip remote" ELSE "zip"]
       ELSE GoesTo(w, "wipe") /\ UNCHANGED data
    /\ UNCHANGED <<foreign, drives, menu, hasData>>

PutPathBack(w) ==
    /\ At(w, "back") /\ Works
    /\ data' = [data EXCEPT !.path = worker[w].path]
    /\ GoesTo(w, "wipe")
    /\ UNCHANGED <<foreign, drives, menu, hasData>>

\* The save data is deleted; only a remote restore stops when that fails.
WipeSave(w) ==
    /\ At(w, "wipe")
    /\ \/ Works /\ save' = Empty /\ GoesTo(w, "open")
       \/ /\ Fails /\ save' = Torn
          /\ IF worker[w].op = "restore" THEN GoesTo(w, "open") ELSE Completes(w)
    /\ UNCHANGED <<foreign, local, items, age, menu, hasData, data>>

\* A local backup is opened only now, by data's path as it is now; when
\* that fails the save data stays wiped.
OpenBackup(w) ==
    /\ At(w, "open")
    /\ \/ Works /\ worker[w].got # Absent /\ GoesTo(w, "copy")
       \/ /\ Works /\ worker[w].got = Absent /\ There # Absent
          /\ worker' = [worker EXCEPT ![w].pc = "copy", ![w].got = There]
       \/ /\ worker[w].got = Absent /\ (Fails \/ (Works /\ There = Absent))
          /\ Completes(w)
    /\ UNCHANGED <<drives, foreign, menu, hasData, data>>

DataWritten == hasData' = (save' # Empty)

\* The archive's or directory's files; save_data_written.  A local restore
\* refreshes the menu.
CopyBack(w) ==
    /\ At(w, "copy")
    /\ (Works /\ save' = worker[w].got) \/ (Fails /\ save' = Torn)
    /\ DataWritten
    /\ IF worker[w].op = "restore" THEN GoesTo(w, "show") ELSE Completes(w)
    /\ UNCHANGED <<local, items, age, foreign, menu, data>>

\* delete_backup_local, to the trash or for good, and delete_backup_remote.
DeleteLocal(w) ==
    /\ At(w, "remove") /\ worker[w].op = "delete"
    /\ \/ Works /\ local' = Dropped
       \/ Fails /\ UNCHANGED local
    /\ GoesTo(w, "show")
    /\ UNCHANGED <<save, items, age, foreign, menu, hasData, data>>

DeleteRemote(w) ==
    /\ At(w, "remove") /\ worker[w].op = "delete remote" /\ GoesTo(w, "show")
    /\ \/ /\ Works /\ Valid(worker[w].item)
          /\ items' = RemoveAt(items, worker[w].item.at) /\ age' = age + 1 /\ UNCHANGED foreign
       \/ Works /\ worker[w].item = Foreign /\ foreign' = FALSE /\ UNCHANGED <<items, age>>
       \/ Fails /\ UNCHANGED <<items, age, foreign>>
    /\ UNCHANGED <<save, local, menu, hasData, data>>

\* refresh() and complete() at the end of a task.
ShowAndComplete(w) ==
    /\ At(w, "show") /\ Works /\ Refresh /\ Completes(w)
    /\ UNCHANGED <<drives, foreign, hasData, data>>

\* The job is over and the thread takes another one.
TaskEnds(w) ==
    /\ worker[w] # Idle /\ worker[w].pc = "end" /\ worker[w].done
    /\ worker' = [worker EXCEPT ![w] = Idle]
    /\ UNCHANGED <<config, connected, drives, foreign, inTitle, opened, menu, hasData, data, picks, faults>>

Pick == NewBackup \/ PickOverwrite \/ PickRestore \/ PickDelete \/ PickUpload

Step(w) ==
    \/ CreateLocal(w) \/ CreateForRemote(w) \/ SendBackup(w) \/ ShowCreated(w)
    \/ DropOld(w) \/ ZipTemporary(w) \/ PatchItem(w)
    \/ Download(w) \/ AutoBackup(w) \/ PutPathBack(w) \/ WipeSave(w)
    \/ OpenBackup(w) \/ CopyBack(w)
    \/ DeleteLocal(w) \/ DeleteRemote(w) \/ ShowAndComplete(w) \/ TaskEnds(w)

Next == Pick \/ CloseMenu \/ OpenMenu \/ \E w \in Worker : Step(w)

SomeBackups(versions) == [n \in Name |-> IF n \in DOMAIN versions THEN versions[n] ELSE Absent]

Init ==
    /\ config \in [autoBackup : BOOLEAN, autoUpload : BOOLEAN, keepLocal : BOOLEAN]
    /\ connected \in BOOLEAN
    /\ save = 1 /\ local = SomeBackups(LocalBackups)
    /\ items = SetToSeq({[name |-> n, version |-> RemoteBackups[n]] : n \in DOMAIN RemoteBackups})
    /\ age = 0 /\ foreign = TRUE
    /\ opened = FALSE /\ inTitle = FALSE
    /\ menu = [local |-> {}, remote |-> <<>>] /\ hasData = FALSE
    /\ data = NoData /\ worker = [w \in Worker |-> Idle]
    /\ picks = 0 /\ faults = 0

Spec == Init /\ [][Next]_vars

\* The threads of the pool run.  The user may stop at any time.
FairSpec == Spec /\ \A w \in Worker : WF_vars(Step(w))

\* While the menu takes input it shows what is there: every remote entry
\* still points to the item whose name it shows, and none is missing,
\* although uploads and deletions move the items in m_list.
MenuPointersGood ==
    HasFocus /\ inTitle =>
        /\ Len(menu.remote) = Len(items)
        /\ \A i \in DOMAIN menu.remote :
            /\ Valid(menu.remote[i].item)
            /\ items[menu.remote[i].item.at].name = menu.remote[i].name

\* A remote restore deletes the save data only with an archive in hand, it
\* is that of the backup the user agreed to, and nothing else is written.
RemoteRestoreIsSafe ==
    [][\A w \in Worker :
        worker[w].op = "restore remote" /\ worker'[w].pc # worker[w].pc =>
            /\ worker'[w].got \notin {worker[w].got, Absent} =>
                  [name |-> worker[w].name, version |-> worker'[w].got] \in ToSet(items)
            /\ save' # save =>
                  worker[w].got # Absent /\ save' \in {Empty, Torn, worker[w].got}]_vars

\* Whatever fails, the user gets the menu back: a task completes, also when
\* an earlier restore told the creation of a backup not to complete it.
ControlReturns == []<>(HasFocus \/ ~opened)

=============================================================================
