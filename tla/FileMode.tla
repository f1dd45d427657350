------------------------------ MODULE FileMode ------------------------------
(* The file mode of JKSV: two panes, each a directory of a mounted file      *)
(* system (pane A a save, a partition or the SD card; pane B the SD card),   *)
(* and the dialog that copies, deletes, renames and creates. A save keeps    *)
(* what was committed; the rest is lost when the mode closes its mounts.     *)
(* The panes show listings made earlier, so each operation must make the     *)
(* right pane list again. The row of each cursor is chosen when it is used:  *)
(* nothing else depends on it. File contents are the copy pipeline's.        *)
EXTENDS Naturals, FiniteSets, SequencesExt

CONSTANTS Name,         \* the names of files and directories
          Save,         \* the saves that can be mounted
          Partition,    \* the partitions of the console
          SdCard,
          MaxDepth,     \* bound: a path has at most this many names
          MaxPicks,     \* bound: options that change something
          MaxFaults     \* bound: file operations that fail

\* A directory has no entry of these names.
ASSUME NameAssumption == {".", ".."} \cap Name = {}

Pane == {"A", "B"}
FileSystem == Save \cup Partition \cup {SdCard}

VARIABLES tree,         \* the directories and files of each file system
          committed,    \* those of each save that were committed
          allow,        \* config::keys::ALLOW_WRITING_TO_SYSTEM
          session,      \* what the open file mode was constructed with
          target,       \* m_target
          path,         \* m_pathA, m_pathB
          menu,         \* the rows of m_dirMenuA, m_dirMenuB; is_open of m_dirA, m_dirB
          update,       \* m_updateSource, m_updateDest
          uncommitted,  \* history: this session's commits failed, or are not made
          picks, faults

panes == <<session, target, path, menu, update, uncommitted>>
fileVars == <<tree, committed, allow, panes, picks, faults>>

NoSession == [open |-> FALSE, dialog |-> FALSE, system |-> FALSE, journal |-> FALSE, a |-> SdCard]
AtRoots == [p \in Pane |-> <<>>]
NoMenus == [p \in Pane |-> [open |-> FALSE, rows |-> <<>>]]
EmptyTree == [dirs |-> {<<>>}, files |-> {}]

FilesInit(trees) ==
    /\ tree = trees
    /\ committed = [s \in Save |-> trees[s]]
    /\ allow \in BOOLEAN
    /\ session = NoSession
    /\ target = "A"
    /\ path = AtRoots
    /\ menu = NoMenus
    /\ update = {}
    /\ uncommitted = FALSE
    /\ picks = 0
    /\ faults = 0
-----------------------------------------------------------------------------
Exists(t, p) == p \in t.dirs \cup t.files
Below(t, p) == {q \in t.dirs \cup t.files : IsPrefix(p, q)}
Without(t, gone) == [dirs |-> t.dirs \ gone, files |-> t.files \ gone]

\* get_source_path, get_destination_path, ...: the pane of the target and the other.
Other == IF target = "A" THEN "B" ELSE "A"
Mount(p) == IF p = "A" THEN session.a ELSE SdCard

\* initialize_directory_menu: the rows of a directory, TRUE for a directory;
\* the menu keeps its rows when the directory cannot be opened.
Rows(t, p) == [n \in {m \in Name : Exists(t, Append(p, m))} |-> Append(p, n) \in t.dirs]
Listed(old, t, p) == IF p \in t.dirs THEN [open |-> TRUE, rows |-> Rows(t, p)]
                     ELSE [old EXCEPT !.open = FALSE]

\* FileModeState::FileModeState, called with the mount of pane A and whether the
\* size of its journal is known.
OpenFileMode(a, system, journal) ==
    /\ ~session.open
    /\ session' = [open |-> TRUE, dialog |-> FALSE, system |-> system, journal |-> journal, a |-> a]
    /\ target' = "A"
    /\ path' = AtRoots
    /\ menu' = [A |-> [open |-> TRUE, rows |-> Rows(tree[a], <<>>)],
                B |-> [open |-> TRUE, rows |-> Rows(tree[SdCard], <<>>)]]
    /\ update' = {}
    /\ uncommitted' = ~journal

Browsing == session.open /\ ~session.dialog
Show(pane, p) ==
    /\ path' = [path EXCEPT ![pane] = p]
    /\ menu' = [menu EXCEPT ![pane] = Listed(@, tree[Mount(pane)], p)]
    /\ UNCHANGED <<tree, committed, allow, session, target, update, uncommitted, picks, faults>>

\* enter_selected on a directory; its name was read when the pane was listed.
EnterDirectory(n) ==
    /\ Browsing /\ menu[target].open
    /\ n \in DOMAIN menu[target].rows /\ menu[target].rows[n]
    /\ Show(target, Append(path[target], n))

\* up_one_directory, for B and for the row "..".
UpOneDirectory ==
    /\ Browsing /\ path[target] # <<>>
    /\ Show(target, Front(path[target]))

ChangeTarget ==
    /\ Browsing
    /\ target' = Other
    /\ UNCHANGED <<tree, committed, allow, session, path, menu, update, uncommitted, picks, faults>>

OpenOptionMenu ==
    /\ Browsing
    /\ session' = [session EXCEPT !.dialog = TRUE]
    /\ UNCHANGED <<tree, committed, allow, target, path, menu, update, uncommitted, picks, faults>>

\* deactivate_state closes both mounts: what a save has not committed is lost.
CloseMounts ==
    /\ tree' = [f \in FileSystem |-> IF f \in Save THEN committed[f] ELSE tree[f]]
    /\ session' = NoSession
    /\ target' = "A"
    /\ path' = AtRoots
    /\ menu' = NoMenus
    /\ update' = {}
    /\ uncommitted' = FALSE
    /\ UNCHANGED <<committed, allow, picks, faults>>

CloseFileMode == Browsing /\ CloseMounts

\* Undefined behaviour: an entry of a directory that could not be opened is
\* read. Besides having no effect, it may end the program.
ReadPastDirectory ==
    /\ session.open /\ update = {}
    /\ \E p \in Pane : ~menu[p].open /\ menu[p].rows # <<>>
    /\ CloseMounts
-----------------------------------------------------------------------------
\* FileOptionState::update_handle_input: the panes are listed before the button
\* is looked at, the source before the destination.
RefreshPane ==
    /\ session.dialog /\ update # {}
    /\ LET which == IF "source" \in update THEN "source" ELSE "dest"
           pane == IF which = "source" THEN target ELSE Other
       IN  /\ menu' = [menu EXCEPT ![pane] = Listed(@, tree[Mount(pane)], path[pane])]
           /\ update' = update \ {which}
    /\ UNCHANGED <<tree, committed, allow, session, target, path, uncommitted, picks, faults>>

CloseDialog ==
    /\ session.dialog /\ update = {}
    /\ session' = [session EXCEPT !.dialog = FALSE]
    /\ UNCHANGED <<tree, committed, allow, target, path, menu, update, uncommitted, picks, faults>>

WriteCheckOfPaneA == target = "A" /\ session.system /\ ~allow
SystemWriteCheck == target = "B" /\ session.system /\ ~allow
SystemOperationCheck == target = "A" /\ session.system /\ ~allow

Pick == session.dialog /\ update = {} /\ picks < MaxPicks /\ picks' = picks + 1
Row(pane, n) == menu[pane].open /\ n \in DOMAIN menu[pane].rows
Faults(happened) ==
    /\ faults' = IF happened THEN faults + 1 ELSE faults
    /\ faults' <= MaxFaults

ChangedUncommitted(f, t, tried, refused) ==
    /\ tree' = [tree EXCEPT ![f] = t]
    /\ uncommitted' = (uncommitted \/ (tried /\ refused))
    /\ UNCHANGED committed

\* The file system f has become t, and a commit has been tried or not; without the
\* size of the journal none is.
Changed(f, t, tried, refused) ==
    /\ tree' = [tree EXCEPT ![f] = t]
    /\ committed' = IF tried /\ session.journal /\ ~refused /\ f \in Save THEN [committed EXCEPT ![f] = t]
                    ELSE committed
    /\ uncommitted' = (uncommitted \/ (tried /\ refused))

\* copy_target: the paths of the question.
CopySource(s) == path[target] \o (IF s = "." THEN <<>> ELSE <<s>>)
CopyDest(s, d) ==
    path[Other] \o (IF d \in {".", ".."} THEN <<>> ELSE <<d>>)
                \o (IF s = "." \/ d = ".." THEN <<>> ELSE <<s>>)

\* create_directories_recursively.
Leading(p) == {SubSeq(p, 1, i) : i \in 0..Len(p)}
CanMake(t, p) == Len(p) <= MaxDepth /\ Leading(p) \cap t.files = {}
Made(t, p) == [t EXCEPT !.dirs = @ \cup Leading(p)]

\* copy_directory and copy_file, with or without commits: what cannot be created
\* or opened is left out, a directory with all that is below it.
Onto(from, to, q) == to \o SubSeq(q, Len(from) + 1, Len(q))
CanCopy(src, dst, from, to, q) ==
    LET new == Onto(from, to, q)
    IN  /\ Len(new) <= MaxDepth
        /\ IF q \in src.dirs THEN new \notin dst.files ELSE new \notin dst.dirs
Copied(src, dst, from, to, bad) ==
    {q \in Below(src, from) : \A r \in Below(src, from) :
        IsPrefix(r, q) => r \notin bad /\ CanCopy(src, dst, from, to, r)}
WithCopies(src, dst, from, to, done) ==
    [dirs |-> dst.dirs \cup {Onto(from, to, q) : q \in done \cap src.dirs},
     files |-> dst.files \cup {Onto(from, to, q) : q \in done \ src.dirs}]

UpdateSource == update' = update \cup {"source"}
UpdateDestination == update' = update \cup {"dest"}

\* copy_source_to_destination, after the question of copy_target. The commits
\* follow each file and each directory below the first: an empty directory is
\* copied without one. A directory copied into itself, which would go on
\* until paths are too long, is left out.
CopyTarget(s, d) ==
    /\ Pick
    /\ ~SystemWriteCheck
    /\ s = "." \/ Row(target, s)
    /\ d \in {".", ".."} \/ (Row(Other, d) /\ menu[Other].rows[d])
    /\ LET src == tree[Mount(target)]
           dst == tree[Mount(Other)]
           from == CopySource(s)
           to == CopyDest(s, d)
           isDir == from \in src.dirs
           dir == IF isDir \/ to = <<>> THEN to ELSE Front(to)
       IN  /\ ~(Mount(target) = Mount(Other) /\ isDir /\ IsPrefix(from, to))
           /\ \/ /\ ~CanMake(dst, dir) \/ dir \notin dst.dirs
                 /\ Faults(CanMake(dst, dir))
                 /\ UNCHANGED <<tree, committed, update, uncommitted>>
              \/ /\ CanMake(dst, dir)
                 /\ \E bad \in SUBSET (Below(src, from) \ (IF isDir THEN {from} ELSE {})),
                       refused \in BOOLEAN :
                      LET made == Made(dst, dir)
                          done == Copied(src, made, from, to, bad)
                          tried == done \ (IF isDir THEN {from} ELSE {}) # {}
                      IN  /\ refused => tried
                          /\ Faults(bad # {} \/ refused)
                          /\ Changed(Mount(Other), WithCopies(src, made, from, to, done),
                                     tried, refused)
                 /\ UpdateDestination
    /\ UNCHANGED <<allow, session, target, path, menu>>

\* delete_target, asked and carried out; a failure may leave a part.
DeleteTarget(s) ==
    /\ Pick
    /\ ~SystemOperationCheck
    /\ Row(target, s)
    /\ LET t == tree[Mount(target)]
           all == Below(t, CopySource(s))
       IN  \E left \in SUBSET all, refused \in BOOLEAN :
             /\ \A q \in left, r \in all : IsPrefix(r, q) => r \in left
             /\ Faults(left # {} \/ refused)
             /\ Changed(Mount(target), Without(t, all \ left), TRUE, refused)
    /\ UpdateSource
    /\ UNCHANGED <<allow, session, target, path, menu>>

\* The pane of the target is listed again by rename_target and create_directory.
ListSource == menu' = [menu EXCEPT ![target] = Listed(@, tree'[Mount(target)], path[target])]

RenamedTree(t, old, new) ==
    LET moved == Below(t, old)
        Renamed(set) == (set \ moved) \cup {Onto(old, new, q) : q \in set \cap moved}
    IN  [dirs |-> Renamed(t.dirs), files |-> Renamed(t.files)]

RenameTarget(s, n) ==
    /\ Pick
    /\ ~SystemOperationCheck
    /\ Row(target, s)
    /\ LET t == tree[Mount(target)]
           old == CopySource(s)
           new == Append(path[target], n)
           can == Exists(t, old) /\ ~Exists(t, new)
       IN  \E renamed \in BOOLEAN, refused \in BOOLEAN :
             /\ renamed => can
             /\ Faults((can /\ ~renamed) \/ refused)
             /\ Changed(Mount(target), IF renamed THEN RenamedTree(t, old, new) ELSE t,
                        TRUE, refused)
    /\ ListSource
    /\ UNCHANGED <<allow, session, target, path, update>>

CreateDirectory(n) ==
    /\ Pick
    /\ ~SystemOperationCheck
    /\ LET t == tree[Mount(target)]
           new == Append(path[target], n)
           can == ~Exists(t, new) /\ path[target] \in t.dirs /\ Len(new) <= MaxDepth
       IN  \E created \in BOOLEAN, refused \in BOOLEAN :
             /\ created => can
             /\ refused => created
             /\ Faults((can /\ ~created) \/ refused)
             /\ Changed(Mount(target), IF created THEN Made(t, new) ELSE t, created, refused)
    /\ ListSource
    /\ UNCHANGED <<allow, session, target, path, update>>

FileModeNext ==
    \/ \E n \in Name : EnterDirectory(n)
    \/ UpOneDirectory
    \/ ChangeTarget
    \/ OpenOptionMenu
    \/ RefreshPane
    \/ CloseDialog
    \/ \E s \in Name \cup {"."}, d \in Name \cup {".", ".."} : CopyTarget(s, d)
    \/ \E s \in Name : DeleteTarget(s)
    \/ \E s \in Name, n \in Name : RenameTarget(s, n)
    \/ \E n \in Name : CreateDirectory(n)
-----------------------------------------------------------------------------
\* Without the dialog, or with it ready for a button, a pane whose device the
\* other pane does not show lists exactly what its directory holds, and that
\* directory exists: every operation made the pane it changed list again.
PanesFresh ==
    session.open /\ update = {} /\ session.a # SdCard =>
        \A p \in Pane : menu[p] = [open |-> TRUE, rows |-> Rows(tree[Mount(p)], path[p])]

\* Every file of the mounted save is committed, whatever the options did, unless
\* a commit was refused or the size of the journal is not known, so that nothing is
\* committed: closing the mode loses nothing but an empty directory.
ClosingLosesNothing ==
    session.open /\ session.a \in Save /\ ~uncommitted =>
        LET now == tree[session.a]  kept == committed[session.a]
        IN  /\ now.files = kept.files
            /\ kept.dirs \subseteq now.dirs
=============================================================================
