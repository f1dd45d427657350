----------------------------- MODULE BackupQueue -----------------------------
(***************************************************************************)
(* The persistent upload queue of the background sysmodule                 *)
(* (sysmodule/source/save.cpp, atomic_replace of common.cpp), file system  *)
(* operation by file system operation, with crashes between any two of     *)
(* them, failing writes and failing renames.                               *)
(*                                                                         *)
(* Every save (a queue_key) owns three files: the queued archive "zip",    *)
(* its description "meta" (the .json of the queue directory) and the       *)
(* signature "sig" of what was last uploaded (state directory).  Each is   *)
(* replaced through a .tmp file and put aside as .bak meanwhile.           *)
(*                                                                         *)
(* Contents are abstracted to versions: version v of a save is its v-th    *)
(* committed content, 0 being a save without files.  The commit id and     *)
(* timestamp of a signature are the version fill_meta read; its totals     *)
(* (bytes, newest mtime, file count) are Digest[v] of the version          *)
(* collect_signature walked, and may coincide for different contents.      *)
(*                                                                         *)
(* g_runningTitleId is read here but written by the monitor thread: every  *)
(* read of it is free to see either value.                                 *)
(***************************************************************************)
EXTENDS Naturals

CONSTANTS
    Key,          \* the saves the sysmodule may back up
    Legacy,       \* those that may have a queue entry left by v1.0-v1.1
    MaxVersion,   \* bound: how often a game commits one save
    Digest,       \* Digest[v]: the totals collect_signature sees in version v
    NoFile,       \* content of a file that does not exist
    Torn,         \* content of a file whose writing was cut short
    MaxCrashes,   \* bound: power losses and crashes
    MaxFaults     \* bound: failing writes and renames

Version == 0..MaxVersion
Signature == [commit : Version, files : Version]
Entry == [sig : Signature, legacy : BOOLEAN]

ASSUME KeyAssumption == Key # {} /\ Legacy \subseteq Key
ASSUME BoundsAssumption == MaxVersion \in Nat \ {0} /\ MaxCrashes \in Nat /\ MaxFaults \in Nat
ASSUME DigestAssumption == Digest \in [Version -> Nat]
ASSUME FilesAssumption ==
    /\ NoFile \notin Version \cup Signature \cup Entry
    /\ Torn \notin Version \cup Signature \cup Entry
    /\ NoFile # Torn

VARIABLES
    save,         \* [Key -> Version]: the save data on the console
    cloud,        \* [Key -> SUBSET Version]: versions stored on the drive
    target,       \* [kind, key -> content]: the files in place
    tmp,          \* their .tmp files
    bak,          \* their .bak files
    pc,           \* where the main thread is
    todo,         \* saves of the closed title prepare_one has not seen yet
    ok,           \* "success" of prepare_title_backups
    cur,          \* the save or queue item in hand
    now,          \* the signature prepare_one is collecting
    job,          \* the file replacement under way and where it returns to
    had,          \* hadTarget of atomic_replace
    toRead,       \* directory entries list_pending_backups still has to read
    batch,        \* the PendingBackup items it returned
    promised,     \* history: newest version reported BACKUP_QUEUED
    crashes, faults

disk == <<target, tmp, bak>>
locals == <<todo, ok, cur, now, job, had, toRead, batch>>
bounds == <<crashes, faults>>
vars == <<save, cloud, disk, pc, locals, promised, bounds>>

Kind == {"zip", "meta", "sig"}
File == Kind \X Key
Zip(k) == <<"zip", k>>
Meta(k) == <<"meta", k>>
Sig(k) == <<"sig", k>>

Exists(f) == target[f] # NoFile

\* Variant for mutation: the totals alone are compared.
SameTotals(a, b) == Digest[a.files] = Digest[b.files]

\* signatures_equal: the commit id and the totals agree.
SameSignature(a, b) == a.commit = b.commit /\ Digest[a.files] = Digest[b.files]

\* Variant for mutation: every save must be queued.
AllBackupsPending == \A k \in Key : Exists(Meta(k))

\* pending_backups_exist looks at the .json files alone.
PendingBackupsExist == \E k \in Key : Exists(Meta(k))

\* Program points: between titles and in prepare_one, in the queue, and in
\* a file replacement, which returns to one of the former.
PreparePC == {"off", "idle", "prepare", "mount", "compare", "empty", "skipped", "zip",
              "dropMeta", "saveMeta", "cleanup", "queued", "failed"}
QueuePC == {"list", "upload", "dropZip", "dropEntry"}
ReplacePC == {"write", "aside", "publish"}

NoSignature == [commit |-> 0, files |-> 0]
AnyKey == CHOOSE k \in Key : TRUE
NoJob == [file |-> Zip(AnyKey), data |-> 0, then |-> "idle", else |-> "idle"]

\* No operation is under way: the locals of the call stack are gone.
Unwound ==
    /\ todo' = {} /\ ok' = TRUE /\ cur' = AnyKey /\ now' = NoSignature
    /\ job' = NoJob /\ had' = FALSE /\ toRead' = {} /\ batch' = {}

Fault == faults < MaxFaults /\ faults' = faults + 1

(***************************************************************************)
(* A fresh card, or one whose queue holds entries written by release       *)
(* v1.0-v1.1, whose remote directory was named differently.                *)
(***************************************************************************)
LegacyEntry == [sig |-> [commit |-> 1, files |-> 1], legacy |-> TRUE]

Init ==
    \E legacy \in SUBSET Legacy :
    /\ save = [k \in Key |-> IF k \in legacy THEN 1 ELSE 0]
    /\ cloud = [k \in Key |-> {}]
    /\ target = [f \in File |->
           IF f[2] \notin legacy \/ f[1] = "sig" THEN NoFile
           ELSE IF f[1] = "zip" THEN 1 ELSE LegacyEntry]
    /\ tmp = [f \in File |-> NoFile]
    /\ bak = [f \in File |-> NoFile]
    /\ pc = "idle"
    /\ todo = {} /\ ok = TRUE /\ cur = AnyKey /\ now = NoSignature
    /\ job = NoJob /\ had = FALSE /\ toRead = {} /\ batch = {}
    /\ promised = [k \in Key |-> IF k \in legacy THEN 1 ELSE 0]
    /\ crashes = 0 /\ faults = 0

(***************************************************************************)
(* The environment.                                                        *)
(***************************************************************************)
\* Program points at which prepare_one keeps the save of cur mounted.
MountedPCs == {"compare", "zip", "dropMeta", "saveMeta", "cleanup", "skipped", "queued"}
Mounted(k) ==
    /\ cur = k
    /\ \/ pc \in MountedPCs
       \/ pc \in ReplacePC /\ job.then \in MountedPCs

\* A game commits its save; a mounted save cannot be opened by the game.
GameCommits(k) ==
    /\ save[k] < MaxVersion
    /\ ~Mounted(k)
    /\ save' = [save EXCEPT ![k] = @ + 1]
    /\ UNCHANGED <<cloud, disk, pc, locals, promised, bounds>>

\* Power loss or crash: memory is gone, the file being written is torn.
Crash ==
    /\ pc # "off"
    /\ crashes < MaxCrashes
    /\ crashes' = crashes + 1
    /\ pc' = "off"
    /\ Unwound
    /\ \/ tmp' = tmp
       \/ pc = "write" /\ tmp' = [tmp EXCEPT ![job.file] = Torn]
       \/ pc = "zip" /\ tmp' = [tmp EXCEPT ![Zip(cur)] = Torn]
    /\ UNCHANGED <<save, cloud, target, bak, promised, faults>>

Boot ==
    /\ pc = "off"
    /\ pc' = "idle"
    /\ UNCHANGED <<save, cloud, disk, locals, promised, bounds>>

(***************************************************************************)
(* Replacing a file: write_pending_metadata and write_stored_signature     *)
(* write the .tmp file and call atomic_replace.                            *)
(***************************************************************************)
\* fopen, fwrite, fflush of the .tmp file; a failed write removes it.
WriteTemp ==
    /\ pc = "write"
    /\ \/ /\ tmp' = [tmp EXCEPT ![job.file] = job.data]
          /\ pc' = "aside"
          /\ UNCHANGED faults
       \/ /\ Fault
          /\ tmp' = [tmp EXCEPT ![job.file] = NoFile]
          /\ pc' = job.else
    /\ UNCHANGED <<save, cloud, target, bak, locals, promised, crashes>>

\* atomic_replace up to the first rename: drop a stale .bak, put an
\* existing target aside.  The .bak has no reader in between.
PutAside ==
    /\ pc = "aside"
    /\ LET f == job.file IN
       \/ /\ had' = Exists(f)
          /\ bak' = [bak EXCEPT ![f] = target[f]]
          /\ target' = [target EXCEPT ![f] = NoFile]
          /\ pc' = "publish"
          /\ UNCHANGED faults
       \/ /\ Exists(f) /\ Fault
          /\ bak' = [bak EXCEPT ![f] = NoFile]
          /\ pc' = job.else
          /\ UNCHANGED <<target, had>>
    /\ UNCHANGED <<save, cloud, tmp, todo, ok, cur, now, job, toRead, batch, promised, crashes>>

\* atomic_replace's second rename; when it fails the old target is renamed
\* back, and the result of that rename is not looked at.
Publish ==
    /\ pc = "publish"
    /\ LET f == job.file IN
       \/ /\ target' = [target EXCEPT ![f] = tmp[f]]
          /\ tmp' = [tmp EXCEPT ![f] = NoFile]
          /\ bak' = [bak EXCEPT ![f] = NoFile]
          /\ pc' = job.then
          /\ UNCHANGED faults
       \/ /\ Fault
          /\ \/ had /\ target' = [target EXCEPT ![f] = bak[f]]
                        /\ bak' = [bak EXCEPT ![f] = NoFile]
             \/ UNCHANGED <<target, bak>>
          /\ pc' = job.else
          /\ UNCHANGED tmp
    /\ UNCHANGED <<save, cloud, locals, promised, crashes>>

Replace(f, data, then, else) ==
    [file |-> f, data |-> data, then |-> then, else |-> else]

(***************************************************************************)
(* prepare_title_backups and prepare_one.                                  *)
(***************************************************************************)
\* The main loop handles a closed title: ks are its supported saves.  That
\* an application runs by now makes the whole call return without effect.
StartTitle(ks) ==
    /\ pc = "idle"
    /\ pc' = "prepare" /\ todo' = ks /\ ok' = TRUE
    /\ UNCHANGED <<save, cloud, disk, had, cur, now, job, toRead, batch, promised, bounds>>

\* Variant for mutation: prepare_one goes on without fill_meta's answer.
FillMetaIgnored(k) ==
    /\ pc = "prepare" /\ k \in todo
    /\ cur' = k
    /\ pc' = "mount"
    /\ \/ now' = [commit |-> save[k], files |-> 0] /\ UNCHANGED faults
       \/ Fault /\ UNCHANGED now
    /\ UNCHANGED <<save, cloud, disk, had, todo, ok, job, toRead, batch, promised, crashes>>

\* prepare_one starts: fill_meta reads the commit id of the unmounted save.
FillMeta(k) ==
    /\ pc = "prepare" /\ k \in todo
    /\ cur' = k
    /\ \/ now' = [commit |-> save[k], files |-> 0] /\ pc' = "mount" /\ UNCHANGED faults
       \/ Fault /\ pc' = "failed" /\ UNCHANGED now
    /\ UNCHANGED <<save, cloud, disk, had, todo, ok, job, toRead, batch, promised, crashes>>

\* mount_save: gives up when an application runs or after ten attempts.
MountSave ==
    /\ pc = "mount"
    /\ pc' \in {"compare", "failed"}
    /\ UNCHANGED <<save, cloud, disk, locals, promised, bounds>>

\* collect_signature, then the two tests for SAVE_UNCHANGED.  Reading a
\* legacy .json rewrites it, whatever the comparison says.
Compare ==
    LET seen == [now EXCEPT !.files = save[cur]]
        entry == target[Meta(cur)]
        inCloud == Exists(Sig(cur)) /\ SameSignature(target[Sig(cur)], seen)
        inQueue == Exists(Meta(cur)) /\ Exists(Zip(cur)) /\ SameSignature(entry.sig, seen)
        next == IF inQueue THEN "skipped" ELSE "zip"
    IN
    /\ pc = "compare"
    /\ now' = seen
    /\ \/ seen.files = 0 /\ pc' = "empty" /\ UNCHANGED job
       \/ seen.files # 0 /\ inCloud /\ pc' = "skipped" /\ UNCHANGED job
       \/ /\ seen.files # 0 /\ ~inCloud
          /\ Exists(Meta(cur)) /\ entry.legacy
          /\ job' = Replace(Meta(cur), [entry EXCEPT !.legacy = FALSE], next, next)
          /\ pc' = "write"
       \/ /\ seen.files # 0 /\ ~inCloud
          /\ Exists(Meta(cur)) => ~entry.legacy
          /\ pc' = next
          /\ UNCHANGED job
    /\ UNCHANGED <<save, cloud, disk, had, todo, ok, cur, toRead, batch, promised, bounds>>

\* create_zip archives the mounted save; a failure removes the .tmp file.
CreateZip ==
    /\ pc = "zip"
    /\ \/ /\ tmp' = [tmp EXCEPT ![Zip(cur)] = save[cur]]
          /\ pc' = "dropMeta"
          /\ UNCHANGED faults
       \/ /\ Fault
          /\ tmp' = [tmp EXCEPT ![Zip(cur)] = NoFile]
          /\ pc' = "failed"
    /\ UNCHANGED <<save, cloud, target, bak, locals, promised, crashes>>

\* Variant for mutation: the old metadata stays until it is replaced.
KeepOldMetadata ==
    /\ pc = "dropMeta"
    /\ job' = Replace(Zip(cur), save[cur], "saveMeta", "cleanup")
    /\ pc' = "aside"
    /\ UNCHANGED <<save, cloud, disk, had, todo, ok, cur, now, toRead, batch, promised, bounds>>

\* "Never leave old metadata pointing at newly replaced ZIP contents."
\* remove_file's result is not looked at; the removal does not fail here.
DropOldMetadata ==
    /\ pc = "dropMeta"
    /\ target' = [target EXCEPT ![Meta(cur)] = NoFile]
    /\ job' = Replace(Zip(cur), save[cur], "saveMeta", "cleanup")
    /\ pc' = "aside"
    /\ UNCHANGED <<save, cloud, tmp, bak, had, todo, ok, cur, now, toRead, batch, promised, bounds>>

\* write_pending_metadata for the archive just put in place.
WritePendingMetadata ==
    /\ pc = "saveMeta"
    /\ job' = Replace(Meta(cur), [sig |-> now, legacy |-> FALSE], "queued", "cleanup")
    /\ pc' = "write"
    /\ UNCHANGED <<save, cloud, disk, had, todo, ok, cur, now, toRead, batch, promised, bounds>>

\* Any failure after the archive was written withdraws all three files.
Cleanup ==
    /\ pc = "cleanup"
    /\ tmp' = [tmp EXCEPT ![Zip(cur)] = NoFile]
    /\ target' = [target EXCEPT ![Zip(cur)] = NoFile, ![Meta(cur)] = NoFile]
    /\ pc' = "failed"
    /\ UNCHANGED <<save, cloud, bak, locals, promised, bounds>>

\* prepare_one returns and the save is unmounted.
PrepareReturns ==
    /\ pc \in {"empty", "skipped", "queued", "failed"}
    /\ ok' = (ok /\ pc # "failed")
    /\ todo' = todo \ {cur}
    /\ promised' = IF pc = "queued" THEN [promised EXCEPT ![cur] = now.files] ELSE promised
    /\ pc' = "prepare"
    /\ cur' = AnyKey /\ now' = NoSignature /\ job' = NoJob
    /\ UNCHANGED <<save, cloud, disk, had, toRead, batch, bounds>>

(***************************************************************************)
(* process_pending_backups.                                                *)
(***************************************************************************)
OpenQueue ==
    /\ toRead' = {k \in Key : Exists(Meta(k))}
    /\ batch' = {}
    /\ pc' = "list"

\* Every save of the title was visited: go on to the queue, unless one failed.
PrepareDone ==
    /\ pc = "prepare" /\ todo = {}
    /\ IF ok THEN OpenQueue /\ UNCHANGED <<todo, ok, cur, now, job, had>>
             ELSE Unwound /\ pc' = "idle"
    /\ UNCHANGED <<save, cloud, disk, promised, bounds>>

\* The main loop retries the queue when a .json file exists.
StartRetry ==
    /\ pc = "idle" /\ PendingBackupsExist
    /\ OpenQueue
    /\ UNCHANGED <<save, cloud, disk, had, todo, ok, cur, now, job, promised, bounds>>

\* read_pending_metadata for one directory entry; an entry without its
\* archive is left out of the list but stays in the directory.
ListEntry(k) ==
    /\ pc = "list" /\ k \in toRead
    /\ toRead' = toRead \ {k}
    /\ batch' = batch \cup
         {i \in {[key |-> k, sig |-> target[Meta(k)].sig]} : Exists(Zip(k))}
    /\ IF target[Meta(k)].legacy
       THEN /\ job' = Replace(Meta(k), [target[Meta(k)] EXCEPT !.legacy = FALSE], "list", "list")
            /\ pc' = "write"
       ELSE UNCHANGED <<job, pc>>
    /\ UNCHANGED <<save, cloud, disk, had, todo, ok, cur, now, promised, bounds>>

\* The list is complete; BaiduClient::initialize may refuse (signed out).
ListDone ==
    /\ pc = "list" /\ toRead = {}
    /\ \/ pc' = "idle" /\ Unwound
       \/ /\ batch # {} /\ pc' = "upload" /\ job' = NoJob
          /\ UNCHANGED <<todo, ok, cur, now, had, toRead, batch>>
    /\ UNCHANGED <<save, cloud, disk, promised, bounds>>

\* An application started: the rest of the queue waits.
UploadDeferred ==
    /\ pc = "upload" /\ batch # {}
    /\ pc' = "idle" /\ Unwound
    /\ UNCHANGED <<save, cloud, disk, promised, bounds>>

\* The last request of upload_file takes effect on the drive; its answer
\* may still get lost, and a repeated upload replaces the file by itself.
UploadArrives(k) ==
    /\ pc = "upload"
    /\ \E i \in batch : i.key = k
    /\ Exists(Zip(k))
    /\ cloud' = [cloud EXCEPT ![k] = @ \cup {target[Zip(k)]}]
    /\ UNCHANGED <<save, disk, pc, locals, promised, bounds>>

\* Variant for mutation: the answer of upload_file is not looked at.
UploadUnchecked(k) ==
    /\ pc = "upload"
    /\ Exists(Zip(k))
    /\ \E i \in batch :
        /\ i.key = k
        /\ job' = Replace(Sig(k), i.sig, "dropZip", "dropZip")
    /\ cur' = k
    /\ pc' = "write"
    /\ UNCHANGED <<save, cloud, disk, had, todo, ok, now, toRead, batch, promised, bounds>>

\* upload_file reports success; next the signature is stored, a failure of
\* which is only logged.
UploadOk(k) ==
    /\ pc = "upload"
    /\ Exists(Zip(k)) /\ target[Zip(k)] \in cloud[k]
    /\ \E i \in batch :
        /\ i.key = k
        /\ job' = Replace(Sig(k), i.sig, "dropZip", "dropZip")
    /\ cur' = k
    /\ pc' = "write"
    /\ UNCHANGED <<save, cloud, disk, had, todo, ok, now, toRead, batch, promised, bounds>>

\* upload_file reports failure and the loop goes on with the next item.
UploadFails(k) ==
    /\ pc = "upload"
    /\ \E i \in batch : i.key = k /\ batch' = batch \ {i}
    /\ UNCHANGED <<save, cloud, disk, pc, had, todo, ok, cur, now, job, toRead, promised, bounds>>

\* The archive leaves the queue: removed, or moved to the local copies.
\* keep_local_copy leaves it behind when it cannot make the directory.
DropZip ==
    /\ pc = "dropZip"
    /\ \/ target' = [target EXCEPT ![Zip(cur)] = NoFile] /\ UNCHANGED faults
       \/ Fault /\ UNCHANGED target
    /\ pc' = "dropEntry"
    /\ UNCHANGED <<save, cloud, tmp, bak, locals, promised, crashes>>

\* Variant for mutation: the .json stays.
KeepEntry ==
    /\ pc = "dropEntry"
    /\ pc' = "upload" /\ cur' = AnyKey /\ job' = NoJob
    /\ batch' = {i \in batch : i.key # cur}
    /\ UNCHANGED <<save, cloud, disk, had, todo, ok, now, toRead, promised, bounds>>

DropEntry ==
    /\ pc = "dropEntry"
    /\ target' = [target EXCEPT ![Meta(cur)] = NoFile]
    /\ pc' = "upload" /\ cur' = AnyKey /\ job' = NoJob
    /\ batch' = {i \in batch : i.key # cur}
    /\ UNCHANGED <<save, cloud, tmp, bak, had, todo, ok, now, toRead, promised, bounds>>

UploadDone ==
    /\ pc = "upload" /\ batch = {}
    /\ pc' = "idle" /\ Unwound
    /\ UNCHANGED <<save, cloud, disk, promised, bounds>>

-----------------------------------------------------------------------------
ReplaceStep == WriteTemp \/ PutAside \/ Publish

PrepareStep ==
    \/ \E k \in Key : FillMeta(k)
    \/ MountSave \/ Compare \/ CreateZip \/ DropOldMetadata
    \/ WritePendingMetadata \/ Cleanup \/ PrepareReturns \/ PrepareDone

QueueStep ==
    \/ \E k \in Key : ListEntry(k) \/ UploadArrives(k) \/ UploadOk(k) \/ UploadFails(k)
    \/ ListDone \/ UploadDeferred \/ DropZip \/ DropEntry \/ UploadDone

Next ==
    \/ \E k \in Key : GameCommits(k)
    \/ \E ks \in SUBSET Key : StartTitle(ks)
    \/ StartRetry \/ ReplaceStep \/ PrepareStep \/ QueueStep
    \/ Crash \/ Boot

Spec == Init /\ [][Next]_vars

(***************************************************************************)
(* The main thread keeps running, the main loop eventually comes round to  *)
(* a retry between titles, and an archive offered again and again is       *)
(* eventually accepted with no application in the way.                     *)
(***************************************************************************)
Fairness ==
    /\ WF_vars(ReplaceStep \/ PrepareStep \/ QueueStep \/ Boot)
    /\ SF_vars(StartRetry) /\ SF_vars(ListDone /\ pc' = "upload")
    /\ SF_vars(\E k \in Key : UploadArrives(k)) /\ SF_vars(\E k \in Key : UploadOk(k))

FairSpec == Spec /\ Fairness

-----------------------------------------------------------------------------
(***************************************************************************)
(* Properties.                                                             *)
(***************************************************************************)
\* What a file and its .tmp and .bak may hold.
Holds(f, content) ==
    /\ {target[f], bak[f]} \subseteq content \cup {NoFile}
    /\ tmp[f] \in content \cup {NoFile, Torn}

\* Every file in place is absent or complete, whatever was interrupted, and
\* every local has the shape the code gives it.
TypeOK ==
    /\ save \in [Key -> Version]
    /\ cloud \in [Key -> SUBSET Version]
    /\ DOMAIN target = File /\ DOMAIN tmp = File /\ DOMAIN bak = File
    /\ \A k \in Key : Holds(Zip(k), Version) /\ Holds(Meta(k), Entry) /\ Holds(Sig(k), Signature)
    /\ pc \in PreparePC \cup QueuePC \cup ReplacePC
    /\ todo \subseteq Key /\ toRead \subseteq Key
    /\ ok \in BOOLEAN /\ cur \in Key /\ now \in Signature
    /\ job.file \in File /\ had \in BOOLEAN
    /\ job.then \in PreparePC \cup QueuePC /\ job.else \in PreparePC \cup QueuePC
    /\ job.file[1] = "zip" => job.data \in Version
    /\ job.file[1] = "meta" => job.data \in Entry
    /\ job.file[1] = "sig" => job.data \in Signature
    /\ batch \subseteq [key : Key, sig : Signature]
    /\ promised \in [Key -> Version]
    /\ crashes \in Nat /\ faults \in Nat

\* A .json in place never describes another archive than the one beside it
\* (save.cpp:539), through crashes, failed writes and migrated entries.
MetadataDescribesZip ==
    \A k \in Key : Exists(Meta(k)) /\ Exists(Zip(k)) =>
        target[Meta(k)].sig.files = target[Zip(k)]

\* A stored signature is a promise that its content is on the drive: it is
\* only ever the signature of an uploaded archive, taken no later than it.
StoredSignatureIsUploaded ==
    \A k \in Key : Exists(Sig(k)) =>
        /\ target[Sig(k)].files \in cloud[k]
        /\ target[Sig(k)].commit <= target[Sig(k)].files

\* SAVE_UNCHANGED is only answered when the commit prepare_one saw is on
\* the drive or in the queued archive, even where totals of different
\* contents coincide and the game ran between fill_meta and mount_save.
SkippedSaveIsSafe ==
    pc = "skipped" => now.commit \in cloud[cur] \cup {target[Zip(cur)]}

\* Without crashes and failing file operations the drive catches up with
\* what was reported as queued, again and again: no backup waits for ever,
\* however often uploads fail or are put off by an application.
QueuedGetsUploaded == \A k \in Key : []<>(promised[k] \in cloud[k] \cup {0})

\* Without crashes and failing file operations the queue empties, again and
\* again: the loop does not come round for retries for ever.  (A crash in
\* dropEntry leaves a .json that no later batch lists or removes.)
QueueDrains == []<>(~PendingBackupsExist)

(***************************************************************************)
(* The inductive invariant behind the safety properties.                   *)
(***************************************************************************)
\* Where the main thread is, or returns to from a file replacement.
At(pcs) == pc \in pcs \/ (pc \in ReplacePC /\ job.then \in pcs)

\* Nothing known of the save's past is newer than version v of it.
NoNewerThan(k, v) ==
    /\ \A u \in cloud[k] : u <= v
    /\ Exists(Zip(k)) => target[Zip(k)] <= v

\* Signatures are taken no later than the archive they describe.
Ordered(sig) == sig.commit <= sig.files

\* A description of save k fits the archive, if that is still there.
Describes(sig, k) == Ordered(sig) /\ target[Zip(k)] \in {sig.files, NoFile}

\* A signature of save k that may be stored.
Received(sig, k) == Ordered(sig) /\ sig.files \in cloud[k]

FilesInv == \A k \in Key :
    /\ NoNewerThan(k, save[k])
    /\ Exists(Meta(k)) => Describes(target[Meta(k)].sig, k)
    /\ Exists(Sig(k)) => Received(target[Sig(k)], k)

\* What the file replacement under way carries and may have to restore.
JobInv == pc \in ReplacePC =>
    LET k == job.file[2]
        restores == pc = "publish" /\ had
    IN
    /\ pc # "write" => tmp[job.file] = job.data
    /\ job.file[1] = "zip" =>
         /\ k = cur /\ job.data = save[cur] /\ ~Exists(Meta(cur))
         /\ pc # "write" /\ job.then = "saveMeta" /\ job.else = "cleanup"
         /\ restores => bak[job.file] \in {v \in Version : v <= save[cur]}
    /\ job.file[1] = "meta" =>
         /\ Describes(job.data.sig, k)
         /\ restores => bak[job.file] \in Entry /\ Describes(bak[job.file].sig, k)
         /\ \/ job.then = "queued" /\ job.else = "cleanup" /\ k = cur
            \/ job.then \in {"skipped", "zip"} /\ job.else = job.then /\ k = cur
            \/ job.then = "list" /\ job.else = "list"
    /\ job.file[1] = "sig" =>
         /\ Received(job.data, k)
         /\ restores => bak[job.file] \in Signature /\ Received(bak[job.file], k)
         /\ job.then = "dropZip" /\ job.else = "dropZip"

\* What prepare_one knows of the save in hand.
PrepareInv ==
    /\ pc \in {"mount", "compare"} => now.commit <= save[cur] /\ NoNewerThan(cur, now.commit)
    /\ At({"zip", "dropMeta", "saveMeta", "queued"}) => Ordered(now) /\ now.files = save[cur]
    /\ pc = "dropMeta" => tmp[Zip(cur)] = save[cur]
    /\ pc = "saveMeta" => target[Zip(cur)] = save[cur] /\ ~Exists(Meta(cur))
    /\ At({"skipped"}) => now.commit \in cloud[cur] \cup {target[Zip(cur)]}

\* What process_pending_backups knows of the items it read.
BatchInv ==
    /\ batch # {} => At(QueuePC)
    /\ toRead # {} => At({"list"})
    /\ \A k \in toRead : Exists(Meta(k)) /\ (pc \in ReplacePC => job.file[2] # k)
    /\ \A i \in batch : Describes(i.sig, i.key)

\* No archive of a save without files is ever made, put in place or put back.
ArchiveInv ==
    /\ \A k \in Key : target[Zip(k)] # 0
    /\ At({"zip", "dropMeta", "saveMeta"}) => now.files # 0
    /\ pc = "publish" /\ had /\ job.file[1] = "zip" => bak[job.file] # 0

IInv == TypeOK /\ FilesInv /\ JobInv /\ PrepareInv /\ BatchInv

(***************************************************************************)
(* The queue implements the ledger: an archive is on offer when its .json  *)
(* is in place or the list read from the queue holds it, a signature is    *)
(* recorded when its file is.                                              *)
(***************************************************************************)
Offered == [k \in Key |->
    IF Exists(Meta(k)) \/ \E i \in batch : i.key = k THEN target[Zip(k)] ELSE NoFile]
Recorded == [k \in Key |-> target[Sig(k)]]

Ledger == INSTANCE BackupLedger WITH queued <- Offered, recorded <- Recorded

\* Whatever crashes or fails, the drive receives only offered archives, no
\* offered archive is exchanged in place, and signatures are recorded only
\* for what the drive received.
ImplementsLedger == Ledger!Spec
=============================================================================
