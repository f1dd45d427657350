---------------------------- MODULE LibraryProofs ----------------------------
(***************************************************************************)
(* The library of JKSV and the file mode its screens open.  For any users, *)
(* titles, saves, partitions, trees, paths and failures:                   *)
(*   - the panes list what their directories hold, and closing the mode    *)
(*     loses no file (FileInv);                                            *)
(*   - the lists hold what the system and the filters say, whatever was    *)
(*     created, deleted, imported, hidden or sorted, but for what two      *)
(*     operations are known to keep from a list (Tables);                  *)
(*   - the options of a title change no other save (OwnInv);               *)
(*   - with writing to the system off, nothing changes what is the         *)
(*     system's (GuardInv).                                                *)
(*                                                                         *)
(* FileInv says more than the two properties of the file mode do: a pane   *)
(* the last operation changed is marked to be listed again, and the        *)
(* directory it shows is there with all those above it (PaneInv), so that  *)
(* listing it, or going up, succeeds; and while the mode is closed a save  *)
(* is what is committed (ClosedInv).                                       *)
(*                                                                         *)
(* Tables ties what is spread over the screens: the memory of a list holds *)
(* saves of its user, each once as far as it counts (ListsInv); only the   *)
(* screen on top has a refresh to do (ScreensInv); the panel of a title    *)
(* points at the save it was opened for until an option closes it, and so  *)
(* does a file mode over it (LinkInv); every list but the one the panel on *)
(* top waits to load matches the system (MatchInv).                        *)
(*                                                                         *)
(* The library's theorems on sequences need the lists as functions, and    *)
(* facts about the recursion of ErasedAll come from the existence of its   *)
(* run (RunExists), with the least element of a set of numbers (Least).    *)
(***************************************************************************)
EXTENDS SaveLibrary, SequenceTheorems, FiniteSetTheorems, TLAPS

\* A tree, with its root.
Rooted(t) == t = [dirs |-> t.dirs, files |-> t.files] /\ <<>> \in t.dirs

\* Every file system is such a tree, and so is what is committed.
TreesInv ==
    /\ tree = [f \in FileSystem |-> tree[f]] /\ \A f \in FileSystem : Rooted(tree[f])
    /\ committed = [s \in Save |-> committed[s]] /\ \A s \in Save : Rooted(committed[s])
    /\ exists \subseteq Save

\* The fields of a session.
SessionFields == {"open", "dialog", "system", "journal", "a"}
\* The dialog is part of an open session, and only it leaves panes to be listed; a
\* session that may still keep everything knows the size of the journal.
SessionInv ==
    /\ session = [x \in SessionFields |-> session[x]]
    /\ session.open => session.a \in FileSystem /\ (uncommitted \/ session.journal)
    /\ update # {} => session.dialog
    /\ session.dialog => session.open
    /\ update \subseteq {"source", "dest"}
    /\ target \in Pane /\ path \in [Pane -> Seq(Name)] /\ menu = [p \in Pane |-> menu[p]]

\* While the file mode is closed nothing is left uncommitted.
ClosedInv == ~session.open => \A s \in Save : tree[s] = committed[s]

\* What a pane should list, and whether it waits to be listed again.
Fresh(p) == [open |-> TRUE, rows |-> Rows(tree[Mount(p)], path[p])]
Pending(p) == (IF p = target THEN "source" ELSE "dest") \in update
\* A pane that does not wait lists its directory, which is there with those above it.
PaneInv == session.open /\ session.a # SdCard =>
    \A p \in Pane : /\ Leading(path[p]) \subseteq tree[Mount(p)].dirs
                    /\ ~Pending(p) => menu[p] = Fresh(p)

FileInv == TreesInv /\ SessionInv /\ ClosedInv /\ PaneInv /\ ClosingLosesNothing

\* A path, the entries of its directory and the directory above it.
LEMMA Lead ==
  ASSUME NEW p \in Seq(Name)
  PROVE  /\ Len(p) \in Nat /\ p \in Leading(p) /\ <<>> \in Leading(p)
         /\ \A q \in Leading(p) : Len(q) \in Nat /\ Len(q) <= Len(p)
         /\ \A n \in Name : /\ Append(p, n) \in Seq(Name)
                           /\ Leading(Append(p, n)) = Leading(p) \cup {Append(p, n)}
         /\ p # <<>> => Front(p) \in Seq(Name) /\ Leading(Front(p)) \subseteq Leading(p)
<1>1. Len(p) \in Nat /\ p \in [1..Len(p) -> Name] /\ DOMAIN p = 1..Len(p)
  BY LenProperties
<1>2. \A i \in 0..Len(p) : /\ SubSeq(p, 1, i) = [j \in 1..i |-> p[j]]
                           /\ SubSeq(p, 1, i) \in Seq(Name) /\ Len(SubSeq(p, 1, i)) = i
  <2> SUFFICES ASSUME NEW i \in 0..Len(p)
               PROVE  /\ SubSeq(p, 1, i) = [j \in 1..i |-> p[j]]
                      /\ SubSeq(p, 1, i) \in Seq(Name) /\ Len(SubSeq(p, 1, i)) = i
    OBVIOUS
  <2> QED BY <1>1
<1>3. SubSeq(p, 1, Len(p)) = p /\ SubSeq(p, 1, 0) = <<>>
  BY <1>1, <1>2
<1>4. p \in Leading(p) /\ <<>> \in Leading(p)
  <2>1. 0 \in 0..Len(p) /\ Len(p) \in 0..Len(p)
    BY <1>1
  <2>2. SubSeq(p, 1, Len(p)) \in Leading(p) /\ SubSeq(p, 1, 0) \in Leading(p)
    BY <2>1 DEF Leading
  <2> QED BY <1>3, <2>2
<1>5. \A q \in Leading(p) : Len(q) \in Nat /\ Len(q) <= Len(p)
  BY <1>1, <1>2 DEF Leading
<1>6. ASSUME NEW n \in Name
      PROVE  Append(p, n) \in Seq(Name) /\ Leading(Append(p, n)) = Leading(p) \cup {Append(p, n)}
  <2> DEFINE a == Append(p, n)
  <2>1. a \in Seq(Name) /\ Len(a) = Len(p) + 1 /\ \A j \in 1..Len(p) : a[j] = p[j]
    BY <1>1, AppendProperties
  <2>2. SubSeq(a, 1, Len(p) + 1) = a
    BY <1>1, <2>1
  <2>3. \A i \in 0..Len(p) : SubSeq(a, 1, i) = SubSeq(p, 1, i)
    <3> SUFFICES ASSUME NEW i \in 0..Len(p) PROVE SubSeq(a, 1, i) = SubSeq(p, 1, i)
      OBVIOUS
    <3> HIDE DEF a
    <3>1. SubSeq(a, 1, i) = [j \in 1..i |-> a[j]]
      BY <1>1, <2>1
    <3> QED BY <3>1, <1>1, <1>2, <2>1
  <2>4. 0..(Len(p) + 1) = 0..Len(p) \cup {Len(p) + 1}
    BY <1>1
  <2> HIDE DEF a
  <2>5. Leading(a) = Leading(p) \cup {a}
    BY <2>1, <2>2, <2>3, <2>4 DEF Leading
  <2> QED BY <2>1, <2>5 DEF a
<1>7. ASSUME p # <<>> PROVE Front(p) \in Seq(Name) /\ Leading(Front(p)) \subseteq Leading(p)
  <2>1. Len(p) # 0
    BY <1>1, <1>3, <1>7
  <2>2. Front(p) = SubSeq(p, 1, Len(p) - 1) /\ Len(p) - 1 \in 0..Len(p)
    BY <1>1, <2>1 DEF Front
  <2> DEFINE f == Front(p)
  <2>3. f \in Seq(Name) /\ Len(f) = Len(p) - 1 /\ \A j \in 1..(Len(p) - 1) : f[j] = p[j]
    BY <1>1, <1>2, <2>1, <2>2
  <2>4. \A i \in 0..(Len(p) - 1) : SubSeq(f, 1, i) = SubSeq(p, 1, i)
    <3> SUFFICES ASSUME NEW i \in 0..(Len(p) - 1) PROVE SubSeq(f, 1, i) = SubSeq(p, 1, i)
      OBVIOUS
    <3> HIDE DEF f
    <3>1. SubSeq(f, 1, i) = [j \in 1..i |-> f[j]]
      BY <1>1, <2>1, <2>3
    <3> QED BY <3>1, <1>1, <1>2, <2>3
  <2> HIDE DEF f
  <2>5. Leading(f) \subseteq Leading(p)
    BY <1>1, <2>1, <2>3, <2>4 DEF Leading
  <2> QED BY <2>3, <2>5 DEF f
<1> QED BY <1>1, <1>4, <1>5, <1>6, <1>7

\* What is below an entry of a directory is not above that directory.
LEMMA NotAbove ==
  ASSUME NEW p \in Seq(Name), NEW n \in Name, NEW t
  PROVE  Leading(p) \cap Below(t, p \o <<n>>) = {}
<1>1. Len(p \o <<n>>) = Len(p) + 1 /\ Len(p) \in Nat
  OBVIOUS
<1>2. \A q \in Leading(p) : Len(q) \in Nat /\ Len(q) <= Len(p)
  BY Lead
<1> QED BY <1>1, <1>2 DEF Below, IsPrefix

\* The first state: nothing is open.
LEMMA InitFiles == Init => FileInv
<1> SUFFICES ASSUME Init PROVE FileInv
  OBVIOUS
<1>1. FilesInit(Trees) /\ exists \in AtFirst
  BY DEF Init
<1>2. \A f \in FileSystem : Rooted(Trees[f])
  BY TreesAssumption DEF Rooted
<1>3. TreesInv
  BY <1>1, <1>2, TreesAssumption, LibraryAssumption DEF TreesInv, FilesInit, FileSystem
<1>4. ~session.open /\ ~session.dialog /\ session = [x \in SessionFields |-> session[x]]
  BY <1>1 DEF FilesInit, NoSession, SessionFields
<1>5. path \in [Pane -> Seq(Name)] /\ menu = [p \in Pane |-> menu[p]] /\ target \in Pane /\ update = {}
  BY <1>1, EmptySeq DEF FilesInit, AtRoots, NoMenus, Pane
<1>6. \A s \in Save : tree[s] = committed[s]
  BY <1>1 DEF FilesInit
<1> QED BY <1>3, <1>4, <1>5, <1>6 DEF FileInv, SessionInv, ClosedInv, PaneInv, ClosingLosesNothing
-----------------------------------------------------------------------------
\* The mounts of the two panes.
LEMMA Mounts ==
  ASSUME SessionInv, session.open
  PROVE  /\ \A p \in Pane : Mount(p) \in FileSystem
         /\ Other \in Pane /\ Other # target /\ \A p \in Pane : p = target \/ p = Other
         /\ session.a # SdCard => Mount(target) # Mount(Other)
BY DEF SessionInv, Mount, FileSystem, Other, Pane

\* A file system becomes t, and is committed or not.
Becomes(f, t) ==
    /\ tree' = [tree EXCEPT ![f] = t]
    /\ committed' = committed \/ committed' = [committed EXCEPT ![f] = t]

\* The trees stay rooted when the new one is.
LEMMA BecomesRooted ==
  ASSUME TreesInv, NEW f \in FileSystem, NEW t, Rooted(t), Becomes(f, t), UNCHANGED exists
  PROVE  TreesInv'
<1>1. tree' = [g \in FileSystem |-> tree'[g]] /\ \A g \in FileSystem : Rooted(tree'[g])
  BY DEF TreesInv, Becomes
<1>2. committed' = [s \in Save |-> committed'[s]] /\ \A s \in Save : Rooted(committed'[s])
  BY DEF TreesInv, Becomes
<1> QED BY <1>1, <1>2 DEF TreesInv, Rooted

\* An option of the dialog keeps the session and where the panes are.
Stays == UNCHANGED <<exists, session, target, path>>

\* It changes what pane p shows, and lists the pane or leaves it to be listed.
Relists(p) ==
    \/ UNCHANGED menu /\ update' = update \cup {IF p = target THEN "source" ELSE "dest"}
    \/ menu' = [menu EXCEPT ![p] = Listed(@, tree'[Mount(p)], path[p])] /\ UNCHANGED update

\* The panes stay fresh when the one whose directory changed is listed or marked.
LEMMA BecomesListed ==
  ASSUME SessionInv, TreesInv, PaneInv, session.open, Stays, NEW p \in Pane, NEW t,
         Becomes(Mount(p), t), Relists(p),
         session.a # SdCard => Leading(path[p]) \subseteq t.dirs
  PROVE  PaneInv'
<1> SUFFICES ASSUME session.a # SdCard, NEW q \in Pane
             PROVE  /\ Leading(path[q]) \subseteq tree'[Mount(q)].dirs
                    /\ ~Pending(q)' => menu'[q] = Fresh(q)'
  <2>1. \A q \in Pane : Mount(q)' = Mount(q) /\ path'[q] = path[q] /\ session' = session
    BY DEF Stays, Mount
  <2> QED BY <2>1 DEF PaneInv
<1>1. \A r \in Pane : Mount(r) \in FileSystem
  BY Mounts
<1>2. tree'[Mount(p)] = t
  BY <1>1 DEF TreesInv, Becomes
<1>3. Fresh(q)' = [open |-> TRUE, rows |-> Rows(tree'[Mount(q)], path[q])]
  BY DEF Stays, Fresh, Mount, Rows, Exists
<1>4. CASE q = p
  <2>1. path[q] \in Leading(path[q])
    BY Lead DEF SessionInv
  <2>2. Listed(menu[p], tree'[Mount(p)], path[p]) = Fresh(q)'
    BY <1>2, <1>3, <1>4, <2>1 DEF Listed
  <2>3. CASE UNCHANGED menu /\ update' = update \cup {IF p = target THEN "source" ELSE "dest"}
    BY <1>2, <1>4, <2>3 DEF Pending, Stays
  <2>4. CASE menu' = [menu EXCEPT ![p] = Listed(@, tree'[Mount(p)], path[p])] /\ UNCHANGED update
    <3>1. menu'[p] = Listed(menu[p], tree'[Mount(p)], path[p])
      BY <2>4 DEF SessionInv
    <3> QED BY <1>2, <1>4, <2>2, <3>1
  <2> QED BY <2>3, <2>4 DEF Relists
<1>5. CASE q # p
  <2>1. Mount(q) # Mount(p) /\ Mount(q) \in FileSystem
    BY <1>1, <1>5, Mounts DEF SessionInv
  <2>2. tree'[Mount(q)] = tree[Mount(q)]
    BY <2>1 DEF Becomes, TreesInv
  <2>3. menu'[q] = menu[q] /\ update \subseteq update'
    BY <1>5 DEF Relists, SessionInv
  <2>4. Leading(path[q]) \subseteq tree[Mount(q)].dirs /\ (~Pending(q) => menu[q] = Fresh(q))
    BY DEF PaneInv
  <2>5. Fresh(q)' = Fresh(q)
    BY <1>3, <2>2 DEF Fresh
  <2>6. Pending(q) => Pending(q)'
    BY <2>3 DEF Pending, Stays
  <2> QED BY <2>2, <2>3, <2>4, <2>5, <2>6
<1> QED BY <1>4, <1>5

\* Without a commit only directories are added.
LEMMA ChangedKeeps ==
  ASSUME FileInv, session.open, Stays, NEW f \in FileSystem, NEW t, NEW tried, NEW refused,
         Changed(f, t, tried, refused), ~tried => t.files = tree[f].files /\ tree[f].dirs \subseteq t.dirs
  PROVE  Becomes(f, t) /\ ClosingLosesNothing'
<1>1. Becomes(f, t)
  BY DEF Changed, Becomes
<1>2. tree'[f] = t /\ \A g \in FileSystem : g # f => tree'[g] = tree[g]
  BY DEF Changed, FileInv, TreesInv
<1>3. \A s \in Save : s # f => committed'[s] = committed[s]
  BY DEF Changed, FileInv, TreesInv
<1>4. ~uncommitted' => ~uncommitted /\ (~tried \/ ~refused)
  BY DEF Changed
<1>5. ~tried => committed' = committed
  BY DEF Changed
<1>6. tried /\ ~refused /\ f \in Save /\ ~uncommitted' => committed'[f] = t
  BY <1>4 DEF Changed, FileInv, TreesInv, SessionInv
<1>7. ASSUME session.a \in Save, ~uncommitted'
      PROVE  /\ tree'[session.a].files = committed'[session.a].files
             /\ committed'[session.a].dirs \subseteq tree'[session.a].dirs
  <2>1. /\ tree[session.a].files = committed[session.a].files
        /\ committed[session.a].dirs \subseteq tree[session.a].dirs
    BY <1>4, <1>7 DEF FileInv, ClosingLosesNothing
  <2>2. CASE session.a # f
    BY <1>2, <1>3, <1>7, <2>1, <2>2 DEF FileSystem
  <2>3. CASE session.a = f /\ ~tried
    BY <1>2, <1>5, <2>1, <2>3
  <2>4. CASE session.a = f /\ tried /\ ~refused
    BY <1>2, <1>6, <1>7, <2>4
  <2> QED BY <1>4, <1>7, <2>2, <2>3, <2>4
<1> QED BY <1>1, <1>7 DEF ClosingLosesNothing, Stays

\* So does an option of the dialog, to the invariant.
LEMMA OptionKeeps ==
  ASSUME FileInv, session.dialog, update = {}, Stays, NEW p \in Pane, NEW t, NEW tried, NEW refused,
         Changed(Mount(p), t, tried, refused), Relists(p), Rooted(t),
         ~tried => t.files = tree[Mount(p)].files /\ tree[Mount(p)].dirs \subseteq t.dirs,
         session.a # SdCard => Leading(path[p]) \subseteq t.dirs
  PROVE  FileInv'
<1>1. SessionInv /\ TreesInv /\ PaneInv /\ session.open /\ Mount(p) \in FileSystem
  BY Mounts DEF FileInv, SessionInv
<1>2. Becomes(Mount(p), t) /\ ClosingLosesNothing'
  BY <1>1, ChangedKeeps
<1>3. TreesInv'
  BY <1>1, <1>2, BecomesRooted DEF Stays
<1>4. PaneInv'
  BY <1>1, <1>2, BecomesListed
<1>5. SessionInv'
  <2>1. uncommitted => uncommitted'
    BY DEF Changed
  <2> QED BY <1>1, <2>1 DEF SessionInv, Stays, Relists, Pane
<1>6. ClosedInv'
  BY <1>1 DEF ClosedInv, Stays
<1> QED BY <1>2, <1>3, <1>4, <1>5, <1>6 DEF FileInv
-----------------------------------------------------------------------------
\* A step that leaves the file mode alone keeps its invariant.
LEMMA Unchanged ==
  ASSUME FileInv, UNCHANGED <<exists, tree, committed, session, target, path, menu, update, uncommitted>>
  PROVE  FileInv'
<1>1. TreesInv' /\ SessionInv' /\ ClosedInv' /\ ClosingLosesNothing'
  BY DEF FileInv, TreesInv, SessionInv, ClosedInv, ClosingLosesNothing, Rooted
<1>2. PaneInv'
  BY DEF FileInv, PaneInv, Mount, Pending, Fresh, Rows, Exists
<1> QED BY <1>1, <1>2 DEF FileInv

\* Copies only add to a file system; without one no file is added.
LEMMA Copies ==
  ASSUME NEW t, Rooted(t), NEW dir, NEW src, NEW from, NEW to, NEW done
  PROVE  LET new == WithCopies(src, Made(t, dir), from, to, done)
         IN  /\ Rooted(new) /\ t.dirs \subseteq new.dirs
             /\ done \subseteq src.dirs => new.files = t.files
<1>1. Made(t, dir) = [dirs |-> t.dirs \cup Leading(dir), files |-> t.files]
  <2>1. PICK ds, fs : t = [dirs |-> ds, files |-> fs]
    BY DEF Rooted
  <2>2. t.dirs = ds /\ t.files = fs /\ Made(t, dir) = [dirs |-> ds \cup Leading(dir), files |-> fs]
    BY <2>1 DEF Made
  <2> QED BY <2>2
<1> DEFINE dirs == {Onto(from, to, q) : q \in done \cap src.dirs}
           files == {Onto(from, to, q) : q \in done \ src.dirs}
<1>2. WithCopies(src, Made(t, dir), from, to, done) =
        [dirs |-> t.dirs \cup Leading(dir) \cup dirs, files |-> t.files \cup files]
  BY <1>1 DEF WithCopies
<1>3. done \subseteq src.dirs => files = {}
  OBVIOUS
<1> HIDE DEF dirs, files
<1> QED BY <1>2, <1>3 DEF Rooted

\* copy_source_to_destination lists the destination again.
LEMMA CopyKeeps ==
  ASSUME FileInv, UNCHANGED exists, NEW s, NEW d, CopyTarget(s, d)
  PROVE  FileInv'
<1> DEFINE src == tree[Mount(target)]
           dst == tree[Mount(Other)]
           from == CopySource(s)
           to == CopyDest(s, d)
           isDir == from \in src.dirs
           dir == IF isDir \/ to = <<>> THEN to ELSE Front(to)
           first == IF isDir THEN {from} ELSE {}
           made == Made(dst, dir)
<1>1. session.dialog /\ update = {} /\ session.open /\ Other \in Pane /\ Other # target
  BY Mounts DEF CopyTarget, Pick, FileInv, SessionInv
<1>2. Stays
  BY DEF CopyTarget, Stays
<1>3. CASE UNCHANGED <<tree, committed, update, uncommitted>>
  <2>1. UNCHANGED <<exists, tree, committed, session, target, path, menu, update, uncommitted>>
    BY <1>2, <1>3 DEF CopyTarget, Stays
  <2> QED BY <2>1, Unchanged
<1>4. CASE \E bad \in SUBSET (Below(src, from) \ first), refused \in BOOLEAN :
             LET done == Copied(src, made, from, to, bad)
                 tried == done \ first # {}
             IN  /\ Changed(Mount(Other), WithCopies(src, made, from, to, done), tried, refused)
                 /\ UpdateDestination
  <2>1. PICK bad, refused :
          /\ Changed(Mount(Other), WithCopies(src, made, from, to, Copied(src, made, from, to, bad)),
                     Copied(src, made, from, to, bad) \ first # {}, refused)
          /\ UpdateDestination
    BY <1>4
  <2> DEFINE done == Copied(src, made, from, to, bad)
             new == WithCopies(src, made, from, to, done)
             tried == done \ first # {}
  <2>2. session.a # SdCard => Leading(path[Other]) \subseteq dst.dirs
    BY <1>1, Mounts DEF FileInv, TreesInv, PaneInv, SessionInv
  <2>3. Rooted(dst)
    BY <1>1, Mounts DEF FileInv, TreesInv, SessionInv
  <2>4. Rooted(new) /\ dst.dirs \subseteq new.dirs /\ (done \subseteq src.dirs => new.files = dst.files)
    <3> HIDE DEF src, dst, from, to, dir, done
    <3> QED BY <2>3, Copies
  <2>5. ~tried => done \subseteq src.dirs
    OBVIOUS
  <2>6. Changed(Mount(Other), new, tried, refused)
    BY <2>1
  <2>7. Relists(Other)
    BY <1>1, <2>1 DEF Relists, UpdateDestination, CopyTarget
  <2> HIDE DEF src, from, to, dir, first, made, done, new, tried
  <2> QED BY <1>1, <1>2, <2>2, <2>4, <2>5, <2>6, <2>7, OptionKeeps
<1>5. UpdateDestination \/ UNCHANGED <<tree, committed, update, uncommitted>>
  BY DEF CopyTarget
<1> QED BY <1>3, <1>4 DEF CopyTarget

\* The directory a pane shows is never below one of its entries.
LEMMA AboveEntry ==
  ASSUME FileInv, session.open, NEW s \in Name
  PROVE  /\ CopySource(s) = path[target] \o <<s>>
         /\ Leading(path[target]) \cap Below(tree[Mount(target)], path[target] \o <<s>>) = {}
         /\ <<>> \notin Below(tree[Mount(target)], path[target] \o <<s>>)
<1>1. path[target] \in Seq(Name)
  BY DEF FileInv, SessionInv
<1>2. s # "."
  BY NameAssumption
<1> QED BY <1>1, <1>2, Lead, NotAbove DEF CopySource

\* delete_target lists the source again.
LEMMA DeleteKeeps ==
  ASSUME FileInv, UNCHANGED exists, NEW s \in Name, DeleteTarget(s)
  PROVE  FileInv'
<1> DEFINE t == tree[Mount(target)]
           all == Below(t, CopySource(s))
<1>1. session.dialog /\ update = {} /\ session.open /\ target \in Pane
  BY DEF DeleteTarget, Pick, FileInv, SessionInv
<1>2. Stays /\ Relists(target)
  BY <1>1 DEF DeleteTarget, Stays, Relists, UpdateSource
<1>3. PICK left \in SUBSET all, refused \in BOOLEAN :
          Changed(Mount(target), Without(t, all \ left), TRUE, refused)
  BY DEF DeleteTarget
<1>4. Rooted(t) /\ (session.a # SdCard => Leading(path[target]) \subseteq t.dirs)
  BY <1>1, Mounts DEF FileInv, TreesInv, PaneInv, SessionInv
<1> DEFINE new == Without(t, all \ left)
<1>5. Rooted(new) /\ (session.a # SdCard => Leading(path[target]) \subseteq new.dirs)
  BY <1>1, <1>4, AboveEntry DEF Without, Rooted
<1>6. Changed(Mount(target), new, TRUE, refused)
  BY <1>3
<1> HIDE DEF new
<1> QED BY <1>1, <1>2, <1>5, <1>6, OptionKeeps

\* rename_target, which lists the source itself.
LEMMA RenameKeeps ==
  ASSUME FileInv, UNCHANGED exists, NEW s \in Name, NEW n \in Name, RenameTarget(s, n)
  PROVE  FileInv'
<1> DEFINE t == tree[Mount(target)]
           old == CopySource(s)
           name == Append(path[target], n)
           moved == RenamedTree(t, old, name)
<1>1. session.dialog /\ update = {} /\ session.open /\ target \in Pane
  BY DEF RenameTarget, Pick, FileInv, SessionInv
<1>2. Stays /\ Relists(target)
  BY <1>1 DEF RenameTarget, Stays, Relists, ListSource
<1>3. PICK renamed \in BOOLEAN, refused \in BOOLEAN :
        Changed(Mount(target), IF renamed THEN moved ELSE t, TRUE, refused)
  BY DEF RenameTarget
<1>4. Rooted(t) /\ (session.a # SdCard => Leading(path[target]) \subseteq t.dirs)
  BY <1>1, Mounts DEF FileInv, TreesInv, PaneInv, SessionInv
<1>5. Rooted(moved) /\ (session.a # SdCard => Leading(path[target]) \subseteq moved.dirs)
  BY <1>1, <1>4, AboveEntry DEF RenamedTree, Rooted
<1> DEFINE new == IF renamed THEN moved ELSE t
<1>6. Changed(Mount(target), new, TRUE, refused)
  BY <1>3
<1>7. Rooted(new) /\ (session.a # SdCard => Leading(path[target]) \subseteq new.dirs)
  BY <1>4, <1>5
<1> HIDE DEF new
<1> QED BY <1>1, <1>2, <1>6, <1>7, OptionKeeps

\* create_directory likewise; it commits only what it has created.
LEMMA CreateKeeps ==
  ASSUME FileInv, UNCHANGED exists, NEW n \in Name, CreateDirectory(n)
  PROVE  FileInv'
<1> DEFINE t == tree[Mount(target)]
           dir == Append(path[target], n)
<1>1. session.dialog /\ update = {} /\ session.open /\ target \in Pane
  BY DEF CreateDirectory, Pick, FileInv, SessionInv
<1>2. Stays /\ Relists(target)
  BY <1>1 DEF CreateDirectory, Stays, Relists, ListSource
<1>3. PICK created \in BOOLEAN, refused \in BOOLEAN :
        Changed(Mount(target), IF created THEN Made(t, dir) ELSE t, created, refused)
  BY DEF CreateDirectory
<1>4. Rooted(t) /\ (session.a # SdCard => Leading(path[target]) \subseteq t.dirs)
  BY <1>1, Mounts DEF FileInv, TreesInv, PaneInv, SessionInv
<1>5. Rooted(Made(t, dir)) /\ t.dirs \subseteq Made(t, dir).dirs
  <2>1. Made(t, dir) = [dirs |-> t.dirs \cup Leading(dir), files |-> t.files]
    <3> HIDE DEF t, dir
    <3>1. PICK ds, fs : t = [dirs |-> ds, files |-> fs]
      BY <1>4 DEF Rooted
    <3> QED BY <3>1 DEF Made
  <2> QED BY <1>4, <2>1 DEF Rooted
<1> DEFINE new == IF created THEN Made(t, dir) ELSE t
<1>6. Changed(Mount(target), new, created, refused)
  BY <1>3
<1>7. Rooted(new) /\ (session.a # SdCard => Leading(path[target]) \subseteq new.dirs)
  BY <1>4, <1>5
<1>8. ~created => new.files = t.files /\ t.dirs \subseteq new.dirs
  OBVIOUS
<1> HIDE DEF new
<1> QED BY <1>1, <1>2, <1>6, <1>7, <1>8, OptionKeeps

-----------------------------------------------------------------------------
\* Another directory in the pane of the target, which is there when the
\* listing said so.
LEMMA ShowKeeps ==
  ASSUME FileInv, UNCHANGED exists, Browsing, NEW p \in Seq(Name), Show(target, p),
         session.a # SdCard => Leading(p) \subseteq tree[Mount(target)].dirs
  PROVE  FileInv'
<1>1. session.open /\ update = {} /\ target \in Pane
  BY DEF Browsing, FileInv, SessionInv
<1>2. UNCHANGED <<exists, tree, committed, session, target, update, uncommitted>>
  BY DEF Show
<1>3. /\ path' = [path EXCEPT ![target] = p]
      /\ menu' = [menu EXCEPT ![target] = Listed(@, tree[Mount(target)], p)]
  BY DEF Show
<1>4. TreesInv' /\ ClosedInv' /\ ClosingLosesNothing'
  BY <1>2 DEF FileInv, TreesInv, ClosedInv, ClosingLosesNothing, Rooted
<1>5. SessionInv'
  BY <1>1, <1>2, <1>3 DEF FileInv, SessionInv
<1>6. PaneInv'
  <2> SUFFICES ASSUME session.a # SdCard, NEW q \in Pane
               PROVE  Leading(path'[q]) \subseteq tree[Mount(q)].dirs /\ menu'[q] = Fresh(q)'
    BY <1>2 DEF PaneInv, Mount
  <2>1. Fresh(q)' = [open |-> TRUE, rows |-> Rows(tree[Mount(q)], path'[q])]
    BY <1>2 DEF Fresh, Mount, Rows, Exists
  <2>2. CASE q = target
    <3>1. path'[q] = p /\ menu'[q] = Listed(menu[q], tree[Mount(q)], p)
      BY <1>1, <1>3, <2>2 DEF FileInv, SessionInv
    <3>2. p \in tree[Mount(q)].dirs
      BY <2>2, Lead
    <3> QED BY <2>1, <2>2, <3>1, <3>2 DEF Listed
  <2>3. CASE q # target
    <3>1. path'[q] = path[q] /\ menu'[q] = menu[q]
      BY <1>3, <2>3 DEF FileInv, SessionInv
    <3>2. Leading(path[q]) \subseteq tree[Mount(q)].dirs /\ menu[q] = Fresh(q)
      BY <1>1 DEF FileInv, PaneInv, Pending
    <3> QED BY <2>1, <3>1, <3>2 DEF Fresh
  <2> QED BY <2>2, <2>3
<1> QED BY <1>4, <1>5, <1>6 DEF FileInv

\* What the options and the buttons of the file mode do.
LEMMA FileModeKeeps ==
  ASSUME FileInv, UNCHANGED exists, FileModeNext
  PROVE  FileInv'
<1>a. ASSUME NEW n \in Name, EnterDirectory(n) PROVE FileInv'
  <2>1. Browsing /\ session.open /\ update = {} /\ target \in Pane /\ path[target] \in Seq(Name)
    BY <1>a DEF EnterDirectory, Browsing, FileInv, SessionInv
  <2> DEFINE p == path[target]  t == tree[Mount(target)]
  <2>2. Append(p, n) \in Seq(Name) /\ Leading(Append(p, n)) = Leading(p) \cup {Append(p, n)}
    BY <2>1, Lead
  <2>3. session.a # SdCard => /\ Leading(p) \subseteq t.dirs
                              /\ menu[target] = [open |-> TRUE, rows |-> Rows(t, p)]
    BY <2>1 DEF FileInv, PaneInv, Pending, Fresh
  <2>4. session.a # SdCard => Append(p, n) \in t.dirs
    <3> SUFFICES ASSUME session.a # SdCard PROVE Append(p, n) \in t.dirs
      OBVIOUS
    <3>1. n \in DOMAIN Rows(t, p) /\ Rows(t, p)[n]
      BY <1>a, <2>3 DEF EnterDirectory
    <3>2. Rows(t, p)[n] = (Append(p, n) \in t.dirs)
      BY <3>1, Zenon DEF Rows
    <3> QED BY <3>1, <3>2
  <2> QED BY <1>a, <2>1, <2>2, <2>3, <2>4, ShowKeeps DEF EnterDirectory
<1>b. CASE UpOneDirectory
  <2>1. Browsing /\ session.open /\ target \in Pane /\ path[target] \in Seq(Name) /\ path[target] # <<>>
    BY <1>b DEF UpOneDirectory, Browsing, FileInv, SessionInv
  <2>2. Front(path[target]) \in Seq(Name) /\ Leading(Front(path[target])) \subseteq Leading(path[target])
    BY <2>1, Lead
  <2>3. session.a # SdCard => Leading(path[target]) \subseteq tree[Mount(target)].dirs
    BY <2>1 DEF FileInv, PaneInv
  <2> QED BY <1>b, <2>1, <2>2, <2>3, ShowKeeps DEF UpOneDirectory
<1>c. CASE ChangeTarget
  <2>1. UNCHANGED <<exists, tree, committed, session, path, menu, update, uncommitted>> /\ target' = Other
    BY <1>c DEF ChangeTarget
  <2>2. update = {} /\ session.open /\ Other \in Pane
    BY <1>c, Mounts DEF ChangeTarget, Browsing, FileInv, SessionInv
  <2>3. TreesInv' /\ SessionInv' /\ ClosedInv' /\ ClosingLosesNothing'
    BY <2>1, <2>2 DEF FileInv, TreesInv, SessionInv, ClosedInv, ClosingLosesNothing, Rooted
  <2>4. PaneInv'
    BY <2>1, <2>2 DEF FileInv, PaneInv, Mount, Pending, Fresh, Rows, Exists
  <2> QED BY <2>3, <2>4 DEF FileInv
<1>d. CASE OpenOptionMenu \/ CloseDialog
  <2>1. UNCHANGED <<exists, tree, committed, target, path, menu, update, uncommitted>> /\ update = {}
    BY <1>d DEF OpenOptionMenu, CloseDialog, Browsing, FileInv, SessionInv
  <2>2. /\ session' = [x \in SessionFields |-> session'[x]]
        /\ session'.open = session.open /\ session'.a = session.a /\ session.open
        /\ session'.journal = session.journal
    BY <1>d DEF OpenOptionMenu, CloseDialog, Browsing, FileInv, SessionInv, SessionFields
  <2>3. TreesInv' /\ SessionInv' /\ ClosedInv' /\ ClosingLosesNothing'
    BY <2>1, <2>2 DEF FileInv, TreesInv, SessionInv, ClosedInv, ClosingLosesNothing, Rooted
  <2>4. PaneInv'
    BY <2>1, <2>2 DEF FileInv, PaneInv, Mount, Pending, Fresh, Rows, Exists
  <2> QED BY <2>3, <2>4 DEF FileInv
<1>e. CASE RefreshPane
  <2> DEFINE which == IF "source" \in update THEN "source" ELSE "dest"
             pane == IF which = "source" THEN target ELSE Other
  <2>1. /\ menu' = [menu EXCEPT ![pane] = Listed(@, tree[Mount(pane)], path[pane])]
        /\ update' = update \ {which}
        /\ UNCHANGED <<exists, tree, committed, session, target, path, uncommitted>>
        /\ session.dialog /\ session.open
    BY <1>e DEF RefreshPane, FileInv, SessionInv
  <2>2. pane \in Pane /\ which = (IF pane = target THEN "source" ELSE "dest")
    BY <2>1, Mounts DEF FileInv, SessionInv
  <2> HIDE DEF which, pane
  <2>3. TreesInv' /\ SessionInv' /\ ClosedInv' /\ ClosingLosesNothing'
    BY <2>1, <2>2 DEF FileInv, TreesInv, SessionInv, ClosedInv, ClosingLosesNothing, Rooted
  <2>4. PaneInv'
    <3> SUFFICES ASSUME session.a # SdCard, NEW q \in Pane
                 PROVE  /\ Leading(path[q]) \subseteq tree[Mount(q)].dirs
                        /\ ~Pending(q)' => menu'[q] = Fresh(q)
      BY <2>1 DEF PaneInv, Mount, Fresh, Rows, Exists
    <3>1. Leading(path[q]) \subseteq tree[Mount(q)].dirs /\ (~Pending(q) => menu[q] = Fresh(q))
      BY <2>1 DEF FileInv, PaneInv
    <3>2. CASE q = pane
      <4>1. path[q] \in tree[Mount(q)].dirs
        BY <3>1, Lead DEF FileInv, SessionInv
      <4>2. menu'[q] = Listed(menu[q], tree[Mount(q)], path[q])
        BY <2>1, <3>2 DEF FileInv, SessionInv
      <4> QED BY <3>1, <4>1, <4>2 DEF Listed, Fresh
    <3>3. CASE q # pane
      <4>1. menu'[q] = menu[q]
        BY <2>1, <3>3 DEF FileInv, SessionInv
      <4>2. Pending(q) => Pending(q)'
        BY <2>1, <2>2, <3>3, Mounts DEF Pending, FileInv, SessionInv
      <4> QED BY <3>1, <4>1, <4>2
    <3> QED BY <3>2, <3>3
  <2> QED BY <2>3, <2>4 DEF FileInv
<1> QED
  BY <1>a, <1>b, <1>c, <1>d, <1>e, CopyKeeps, DeleteKeeps, RenameKeeps, CreateKeeps DEF
     FileModeNext

-----------------------------------------------------------------------------
\* To close the mode, or the program, leaves what is committed.
LEMMA CloseKeeps ==
  ASSUME FileInv, UNCHANGED exists, CloseMounts
  PROVE  FileInv'
<1>1. /\ tree' = [f \in FileSystem |-> IF f \in Save THEN committed[f] ELSE tree[f]]
      /\ session' = NoSession /\ target' = "A" /\ path' = AtRoots /\ menu' = NoMenus /\ update' = {}
      /\ UNCHANGED committed
  BY DEF CloseMounts
<1>2. ~session'.open /\ ~session'.dialog /\ session' = [x \in SessionFields |-> session'[x]]
  BY <1>1 DEF NoSession, SessionFields
<1>3. path' \in [Pane -> Seq(Name)] /\ menu' = [p \in Pane |-> menu'[p]] /\ target' \in Pane
  BY <1>1, EmptySeq DEF AtRoots, NoMenus, Pane
<1>4. TreesInv'
  BY <1>1 DEF FileInv, TreesInv, Rooted
<1>5. ClosedInv'
  BY <1>1 DEF ClosedInv, FileSystem
<1> QED BY <1>1, <1>2, <1>3, <1>4, <1>5 DEF FileInv, SessionInv, PaneInv, ClosingLosesNothing

\* FileModeState's constructor shows both roots.
LEMMA OpenKeeps ==
  ASSUME FileInv, UNCHANGED <<exists, tree, committed>>, NEW a \in FileSystem, NEW system, NEW journal \in BOOLEAN,
         OpenFileMode(a, system, journal)
  PROVE  FileInv'
<1>1. /\ session' = [open |-> TRUE, dialog |-> FALSE, system |-> system, journal |-> journal, a |-> a]
      /\ target' = "A" /\ path' = AtRoots /\ update' = {}
      /\ menu' = [A |-> [open |-> TRUE, rows |-> Rows(tree[a], <<>>)],
                  B |-> [open |-> TRUE, rows |-> Rows(tree[SdCard], <<>>)]]
      /\ ~session.open /\ uncommitted' = ~journal
  BY DEF OpenFileMode
<1>2. /\ session' = [x \in SessionFields |-> session'[x]] /\ session'.open /\ ~session'.dialog
      /\ session'.a = a /\ (uncommitted' \/ session'.journal)
  BY <1>1 DEF SessionFields
<1>3. path' \in [Pane -> Seq(Name)] /\ menu' = [p \in Pane |-> menu'[p]] /\ target' \in Pane
  BY <1>1, EmptySeq DEF AtRoots, Pane
<1>4. \A f \in FileSystem : <<>> \in tree[f].dirs
  BY DEF FileInv, TreesInv, Rooted
<1>5. Leading(<<>>) = {<<>>}
  <2>1. <<>> \in Seq(Name) /\ Len(<<>>) = 0
    BY EmptySeq
  <2>2. 0..Len(<<>>) = {0} /\ SubSeq(<<>>, 1, 0) = <<>>
    BY <2>1
  <2>3. Leading(<<>>) = {SubSeq(<<>>, 1, i) : i \in {0}}
    BY <2>2, Zenon DEF Leading
  <2>4. \A q \in Leading(<<>>) : q = <<>>
    BY <2>2, <2>3
  <2>5. <<>> \in Leading(<<>>)
    BY <2>1, Lead
  <2> QED BY <2>4, <2>5
<1>6. PaneInv'
  <2>1. SdCard \in FileSystem
    BY DEF FileSystem
  <2>2. \A p \in Pane : Mount(p)' \in FileSystem /\ path'[p] = <<>>
                        /\ menu'[p] = [open |-> TRUE, rows |-> Rows(tree[Mount(p)'], <<>>)]
    <3>1. Mount("A")' = a /\ Mount("B")' = SdCard
      BY <1>2 DEF Mount
    <3>2. path'["A"] = <<>> /\ path'["B"] = <<>>
      BY <1>1 DEF AtRoots, Pane
    <3>3. menu'["A"] = [open |-> TRUE, rows |-> Rows(tree[a], <<>>)]
          /\ menu'["B"] = [open |-> TRUE, rows |-> Rows(tree[SdCard], <<>>)]
      BY <1>1
    <3> QED BY <2>1, <3>1, <3>2, <3>3 DEF Pane
  <2>3. \A p \in Pane : Fresh(p)' = [open |-> TRUE, rows |-> Rows(tree[Mount(p)'], path'[p])]
    BY DEF Fresh, Rows, Exists
  <2> QED BY <1>4, <1>5, <2>2, <2>3 DEF PaneInv
<1>7. TreesInv' /\ ClosingLosesNothing'
  BY <1>1, <1>2 DEF FileInv, TreesInv, Rooted, ClosedInv, ClosingLosesNothing
<1> QED BY <1>1, <1>2, <1>3, <1>6, <1>7 DEF FileInv, SessionInv, ClosedInv

\* A task over a closed file mode commits what it writes.
Committed ==
    /\ ~session.open /\ UNCHANGED panes /\ exists' \subseteq Save
    /\ tree' = [f \in FileSystem |-> tree'[f]] /\ \A f \in FileSystem : Rooted(tree'[f])
    /\ committed' = [s \in Save |-> committed'[s]] /\ \A s \in Save : committed'[s] = tree'[s]

\* Such a task keeps the invariant.
LEMMA CommittedKeeps == ASSUME FileInv, Committed PROVE FileInv'
<1>1. TreesInv'
  BY DEF FileInv, Committed, TreesInv, FileSystem
<1>2. SessionInv' /\ ~session'.open
  BY DEF FileInv, SessionInv, Committed, panes
<1> QED BY <1>1, <1>2 DEF FileInv, Committed, ClosedInv, PaneInv, ClosingLosesNothing

\* The saves come and go while the file mode is closed, or stay.
LEMMA SavesChange ==
  ASSUME FileInv, exists' \subseteq Save, UNCHANGED <<tree, committed, panes>>
  PROVE  FileInv'
<1>1. TreesInv'
  BY DEF FileInv, TreesInv, Rooted
<1>2. SessionInv' /\ ClosedInv' /\ ClosingLosesNothing'
  BY DEF FileInv, SessionInv, ClosedInv, ClosingLosesNothing, panes
<1>3. PaneInv'
  BY DEF FileInv, PaneInv, Mount, Pending, Fresh, Rows, Exists, panes
<1> QED BY <1>1, <1>2, <1>3 DEF FileInv

\* A task that changes one save.
LEMMA SaveBecomes ==
  ASSUME FileInv, ~session.open, UNCHANGED panes, exists' \subseteq Save, NEW s \in Save, NEW t, Rooted(t),
         tree' = [tree EXCEPT ![s] = t], committed' = [committed EXCEPT ![s] = t]
  PROVE  FileInv'
<1>1. tree' = [f \in FileSystem |-> tree'[f]] /\ \A f \in FileSystem : Rooted(tree'[f])
  BY DEF FileInv, TreesInv
<1>2. committed' = [r \in Save |-> committed'[r]]
  BY DEF FileInv, TreesInv
<1>3. \A r \in Save : committed'[r] = tree'[r]
  BY DEF FileInv, TreesInv, ClosedInv, FileSystem
<1> QED BY <1>1, <1>2, <1>3, CommittedKeeps DEF Committed

-----------------------------------------------------------------------------
\* The lists of saves.

\* The saves of one user, in the order of its list.
OfUser(u) == {s \in Save : s.user = u}

\* The order of a list is total on the saves of a user.
LEMMA BeforeOrders ==
  ASSUME NEW u, NEW favs
  PROVE  /\ \A x \in OfUser(u) : ~Before(favs, x, x)
         /\ \A x, y \in OfUser(u) : x # y => Before(favs, x, y) \/ Before(favs, y, x)
         /\ \A x, y, z \in OfUser(u) : Before(favs, x, y) /\ Before(favs, y, z) => Before(favs, x, z)
<1> USE LibraryAssumption, RankAssumption DEF OfUser
<1>1. \A x \in OfUser(u) : x \in Save /\ Rank[x] \in Int
  OBVIOUS
<1>2. \A x, y \in OfUser(u) : x # y => Rank[x] # Rank[y]
  BY <1>1
<1> DEFINE fav(x) == x.title \in favs
           low(x, y) == Rank[x] < Rank[y]
<1>3. \A x, y : Before(favs, x, y) <=> (fav(x) /\ ~fav(y)) \/ ((fav(x) <=> fav(y)) /\ low(x, y))
  <2> SUFFICES ASSUME NEW x, NEW y
               PROVE  Before(favs, x, y) <=> (fav(x) /\ ~fav(y)) \/ ((fav(x) <=> fav(y)) /\ low(x, y))
    BY Zenon
  <2>1. CASE fav(x) /\ fav(y)
    BY <2>1 DEF Before
  <2>2. CASE ~fav(x) /\ ~fav(y)
    BY <2>2 DEF Before
  <2>3. CASE fav(x) /\ ~fav(y)
    BY <2>3 DEF Before
  <2>4. CASE ~fav(x) /\ fav(y)
    BY <2>4 DEF Before
  <2> QED BY <2>1, <2>2, <2>3, <2>4, Zenon
<1>4. /\ \A x \in OfUser(u) : ~low(x, x)
      /\ \A x, y \in OfUser(u) : x # y => low(x, y) \/ low(y, x)
      /\ \A x, y, z \in OfUser(u) : low(x, y) /\ low(y, z) => low(x, z)
  BY <1>1, <1>2
<1> HIDE DEF low, fav
<1> QED BY <1>3, <1>4, Zenon

\* sort_user_data gives each of the saves its place.
LEMMA SortedList ==
  ASSUME NEW u, NEW favs, NEW S \in SUBSET OfUser(u), IsFiniteSet(S)
  PROVE  /\ Cardinality(S) \in Nat
         /\ Sorted(S, favs) \in [1..Cardinality(S) -> S]
         /\ \A s \in S : \E i \in 1..Cardinality(S) : Sorted(S, favs)[i] = s
         /\ \A i, j \in 1..Cardinality(S) : Sorted(S, favs)[i] = Sorted(S, favs)[j] => i = j
<1> DEFINE n == Cardinality(S)
           B(x, y) == Before(favs, x, y)
           low(x) == {y \in S : B(y, x) \/ y = x}
           pos == [x \in S |-> Cardinality(low(x))]
           Ordered(q) == \A i, j \in 1..n : i < j => B(q[i], q[j])
<1>1. /\ \A x \in S : ~B(x, x)
      /\ \A x, y \in S : x # y => B(x, y) \/ B(y, x)
      /\ \A x, y, z \in S : B(x, y) /\ B(y, z) => B(x, z)
  BY BeforeOrders, Zenon
<1>2. n \in Nat /\ IsFiniteSet(1..n) /\ Cardinality(1..n) = n
  BY FS_CardinalityType, FS_Interval
<1> HIDE DEF B
<1>3. \A x \in S : low(x) \in SUBSET S /\ IsFiniteSet(low(x)) /\ Cardinality(low(x)) \in 1..n
  <2> SUFFICES ASSUME NEW x \in S
               PROVE  /\ low(x) \in SUBSET S /\ IsFiniteSet(low(x))
                      /\ Cardinality(low(x)) \in 1..n
    OBVIOUS
  <2>1. low(x) \in SUBSET S /\ x \in low(x)
    OBVIOUS
  <2> HIDE DEF low
  <2>2. IsFiniteSet(low(x)) /\ Cardinality(low(x)) <= n
    BY <2>1, FS_Subset, Zenon
  <2>3. Cardinality(low(x)) \in Nat /\ Cardinality(low(x)) # 0
    BY <2>1, <2>2, FS_CardinalityType, FS_EmptySet
  <2> QED BY <1>2, <2>1, <2>2, <2>3
<1>4. ASSUME NEW x \in S, NEW y \in S, B(x, y) PROVE pos[x] < pos[y]
  <2>1. low(x) \in SUBSET low(y) /\ y \in low(y) /\ y \notin low(x)
    BY <1>1, <1>4
  <2>2. /\ IsFiniteSet(low(y)) /\ IsFiniteSet(low(x))
        /\ Cardinality(low(x)) \in Nat /\ Cardinality(low(y)) \in Nat
    BY <1>2, <1>3, FS_CardinalityType, Zenon
  <2> HIDE DEF low
  <2>3. Cardinality(low(x)) <= Cardinality(low(y)) /\ Cardinality(low(x)) # Cardinality(low(y))
    BY <2>1, <2>2, FS_Subset, Zenon
  <2> QED BY <2>2, <2>3
<1>5. pos \in [S -> 1..n]
  BY <1>3
<1> HIDE DEF pos
<1>6. \A x, y \in S : pos[x] = pos[y] => x = y
  BY <1>1, <1>2, <1>4, <1>5
<1>7. pos \in Injection(S, 1..n)
  BY <1>5, <1>6 DEF Injection, IsInjective
<1>8. pos \in Surjection(S, 1..n)
  BY <1>2, <1>7, FS_Injection
<1>9. \A k \in 1..n : \E x \in S : pos[x] = k
  BY <1>8 DEF Surjection
<1> DEFINE q0 == [k \in 1..n |-> CHOOSE x \in S : pos[x] = k]
<1>10. q0 \in [1..n -> S] /\ \A k \in 1..n : pos[q0[k]] = k
  BY <1>9
<1> HIDE DEF q0
<1>11. Ordered(q0)
  <2> SUFFICES ASSUME NEW i \in 1..n, NEW j \in 1..n, i < j PROVE B(q0[i], q0[j])
    OBVIOUS
  <2>1. q0[i] \in S /\ q0[j] \in S /\ pos[q0[i]] = i /\ pos[q0[j]] = j
    BY <1>10
  <2>2. q0[i] # q0[j] /\ ~B(q0[j], q0[i])
    BY <1>2, <1>4, <2>1
  <2> QED BY <1>1, <2>1, <2>2, Zenon
<1> DEFINE q == Sorted(S, favs)
<1>12. q \in [1..n -> S] /\ Ordered(q)
  BY <1>10, <1>11, Zenon DEF Sorted, B
<1> HIDE DEF q
<1>13. \A i, j \in 1..n : q[i] = q[j] => i = j
  <2> SUFFICES ASSUME NEW i \in 1..n, NEW j \in 1..n, q[i] = q[j], i < j PROVE FALSE
    BY <1>2
  <2>1. q[i] \in S /\ q[j] \in S /\ B(q[i], q[j])
    BY <1>12
  <2> QED BY <1>1, <2>1
<1>14. q \in Injection(1..n, S)
  BY <1>12, <1>13 DEF Injection, IsInjective
<1>15. q \in Surjection(1..n, S)
  BY <1>2, <1>14, FS_Injection
<1>16. \A s \in S : \E i \in 1..n : q[i] = s
  BY <1>15 DEF Surjection
<1> QED BY <1>2, <1>12, <1>13, <1>16 DEF q

\* The entries of a list are saves of its user; those in use are distinct.
Ours(u) == {s \in Save : s.user = u /\ (s.system /\ u \notin SystemUser => AccountSystemSaves)}
\* A memory whose first n entries, all different, are a list of the user.
Holds(m, n, u) ==
    /\ m \in Seq(Ours(u)) /\ n \in 0..Len(m)
    /\ \A i, j \in 1..n : m[i] = m[j] => i = j
\* The entries that are in the list.
Live(m, n) == {m[i] : i \in 1..n}

\* Sorting a set of saves gives a list of exactly them.
LEMMA SortedHolds ==
  ASSUME NEW u, NEW favs, NEW S \in SUBSET Ours(u)
  PROVE  LET q == Sorted(S, favs)
         IN  Holds(q, Len(q), u) /\ Live(q, Len(q)) = S
<1>1. IsFiniteSet(S) /\ S \in SUBSET OfUser(u)
  BY LibraryAssumption, FS_Subset DEF Ours, OfUser
<1> DEFINE q == Sorted(S, favs)
           n == Cardinality(S)
<1>2. /\ n \in Nat /\ q \in [1..n -> S]
      /\ \A s \in S : \E i \in 1..n : q[i] = s
      /\ \A i, j \in 1..n : q[i] = q[j] => i = j
  BY <1>1, SortedList
<1> HIDE DEF q, n
<1>3. q \in Seq(Ours(u)) /\ Len(q) = n
  BY <1>2
<1> QED BY <1>2, <1>3 DEF Holds, Live, q

\* vector::erase takes one entry out of those in use.
LEMMA ErasedHolds ==
  ASSUME NEW u, NEW m, NEW n, Holds(m, n, u), NEW slot \in 1..n
  PROVE  /\ Holds(Erased(m, n, slot), n - 1, u)
         /\ Len(Erased(m, n, slot)) = Len(m)
         /\ Live(Erased(m, n, slot), n - 1) = Live(m, n) \ {m[slot]}
<1> DEFINE e == Erased(m, n, slot)
<1>1. /\ Len(m) \in Nat /\ DOMAIN m = 1..Len(m) /\ n \in 0..Len(m) /\ n \in Nat
      /\ \A i \in 1..Len(m) : m[i] \in Ours(u)
  BY DEF Holds
<1>2. e = [i \in 1..Len(m) |-> IF i \in slot..(n - 1) THEN m[i + 1] ELSE m[i]]
  BY <1>1 DEF Erased
<1>3. \A i \in 1..Len(m) : /\ i \in 1..(slot - 1) => e[i] = m[i] /\ i \in 1..n
                           /\ i \in slot..(n - 1) => e[i] = m[i + 1] /\ i + 1 \in 1..n
                           /\ i \notin slot..(n - 1) => e[i] = m[i]
  BY <1>1, <1>2
<1> HIDE DEF e
<1>4. \A i \in 1..Len(m) : e[i] \in Ours(u)
  <2> SUFFICES ASSUME NEW i \in 1..Len(m) PROVE e[i] \in Ours(u)
    OBVIOUS
  <2>1. CASE i \in slot..(n - 1)
    BY <1>1, <1>3, <2>1
  <2>2. CASE i \notin slot..(n - 1)
    BY <1>1, <1>3, <2>2
  <2> QED BY <2>1, <2>2
<1>5. e \in Seq(Ours(u)) /\ Len(e) = Len(m)
  BY <1>1, <1>2, <1>4
<1>6. \A i, j \in 1..n : m[i] = m[j] => i = j
  BY DEF Holds
<1>7. \A i, j \in 1..(n - 1) : e[i] = e[j] => i = j
  BY <1>1, <1>3, <1>6
<1>8. Holds(e, n - 1, u)
  BY <1>1, <1>5, <1>7 DEF Holds
<1>9. Live(e, n - 1) \subseteq Live(m, n) \ {m[slot]}
  <2> SUFFICES ASSUME NEW i \in 1..(n - 1) PROVE e[i] \in Live(m, n) /\ e[i] # m[slot]
    BY DEF Live
  <2>1. CASE i < slot
    BY <1>1, <1>3, <1>6, <2>1 DEF Live
  <2>2. CASE i >= slot
    <3>1. i + 1 \in 1..n /\ e[i] = m[i + 1] /\ i + 1 # slot
      BY <1>1, <1>3, <2>2
    <3> QED BY <3>1, <1>6 DEF Live
  <2> QED BY <1>1, <2>1, <2>2
<1>10. Live(m, n) \ {m[slot]} \subseteq Live(e, n - 1)
  <2> SUFFICES ASSUME NEW i \in 1..n, m[i] # m[slot] PROVE m[i] \in Live(e, n - 1)
    BY DEF Live
  <2>1. CASE i < slot
    <3>1. i \in 1..(n - 1) /\ e[i] = m[i]
      BY <1>1, <1>3, <2>1
    <3> QED BY <3>1 DEF Live
  <2>2. CASE i > slot
    <3>1. i - 1 \in 1..(n - 1) /\ i - 1 \in slot..(n - 1) /\ i - 1 \in 1..Len(m)
      BY <1>1, <2>2
    <3>2. e[i - 1] = m[(i - 1) + 1] /\ (i - 1) + 1 = i
      BY <1>1, <1>3, <3>1
    <3> QED BY <3>1, <3>2 DEF Live
  <2> QED BY <1>1, <2>1, <2>2
<1> QED BY <1>5, <1>8, <1>9, <1>10 DEF e

\* A set of numbers that is not empty has a least one.
LEMMA Least ==
  ASSUME NEW T \in SUBSET Nat, T # {}
  PROVE  \E k \in T : \A i \in T : ~(i < k)
<1>1. \A x, y \in Nat : x < y => <<x, y>> \in OpToRel(<, Nat)
  BY DEF OpToRel
<1>2. \E k \in T : \A i \in T : <<i, k>> \notin OpToRel(<, Nat)
  BY NatLessThanWellFounded, WFMin, Zenon
<1> QED BY <1>1, <1>2

\* The pointers, one after the other.
After(a, gone, i) ==
    IF i \in gone /\ i <= a[2] THEN <<Erased(a[1], a[2], i), a[2] - 1>> ELSE a
\* f is a run of the deletion over the slots up to k.
IsRun(f, k, m, n, gone) ==
    f = [i \in 0..k |-> IF i = 0 THEN <<m, n>> ELSE After(f[i - 1], gone, i)]

\* Such a run exists for every k, and leaves a list.
LEMMA RunExists ==
  ASSUME NEW m, NEW n, NEW gone, NEW k \in Nat
  PROVE  \E f : IsRun(f, k, m, n, gone)
<1> DEFINE T == {j \in Nat : ~ \E f : IsRun(f, j, m, n, gone)}
<1> SUFFICES ASSUME T # {} PROVE FALSE
  OBVIOUS
<1>1. PICK j \in T : \A i \in T : ~(i < j)
  BY Least, Zenon
<1>2. j # 0
  <2>1. IsRun([i \in 0..0 |-> <<m, n>>], 0, m, n, gone)
    BY DEF IsRun
  <2> QED BY <2>1
<1>3. j \in Nat /\ j - 1 \in Nat /\ j - 1 < j
  BY <1>2
<1>4. PICK f : IsRun(f, j - 1, m, n, gone)
  BY <1>1, <1>3
<1> DEFINE g == [i \in 0..j |-> IF i = j THEN After(f[j - 1], gone, j) ELSE f[i]]
<1>5. \A i \in 0..(j - 1) : f[i] = IF i = 0 THEN <<m, n>> ELSE After(f[i - 1], gone, i)
  BY <1>4 DEF IsRun
<1>6. ASSUME NEW i \in 0..j PROVE g[i] = IF i = 0 THEN <<m, n>> ELSE After(g[i - 1], gone, i)
  <2>1. CASE i = j
    BY <1>2, <1>3, <2>1
  <2>2. CASE i # j
    BY <1>3, <1>5, <2>2
  <2> QED BY <2>1, <2>2
<1>7. g = [i \in 0..j |-> g[i]]
  OBVIOUS
<1> HIDE DEF g
<1>8. IsRun(g, j, m, n, gone)
  BY <1>6, <1>7 DEF IsRun
<1> QED BY <1>8

\* delete_all_save_data_for_user leaves a list of the user's saves.
LEMMA ErasedAllHolds ==
  ASSUME NEW u, NEW m, NEW n, Holds(m, n, u), NEW gone
  PROVE  LET after == ErasedAll(m, n, gone)
         IN  Holds(after[1], after[2], u) /\ Len(after[1]) = Len(m)
<1>1. n \in Nat
  BY DEF Holds
<1>2. PICK f : IsRun(f, n, m, n, gone)
  BY <1>1, RunExists
<1> DEFINE r == CHOOSE g : g = [i \in 0..n |->
                    IF i = 0 THEN <<m, n>>
                    ELSE IF i \in gone /\ i <= g[i - 1][2]
                    THEN <<Erased(g[i - 1][1], g[i - 1][2], i), g[i - 1][2] - 1>>
                    ELSE g[i - 1]]
<1>3. ErasedAll(m, n, gone) = r[n]
  BY Zenon DEF ErasedAll
<1>4. IsRun(r, n, m, n, gone)
  BY <1>2, Zenon DEF IsRun, After
<1> HIDE DEF r
<1>5. r[0] = <<m, n>> /\ \A i \in 1..n : r[i] = After(r[i - 1], gone, i)
  BY <1>1, <1>4 DEF IsRun
<1> DEFINE Ok(a) == Holds(a[1], a[2], u) /\ Len(a[1]) = Len(m)
           T == {i \in 0..n : ~Ok(r[i])}
<1>6. Ok(r[0])
  BY <1>5
<1>7. ASSUME NEW i \in 1..n, Ok(r[i - 1]) PROVE Ok(r[i])
  <2> DEFINE a == r[i - 1]
  <2>1. r[i] = After(a, gone, i) /\ Ok(a)
    BY <1>5, <1>7
  <2> HIDE DEF a
  <2>2. CASE i \in gone /\ i <= a[2]
    <3>1. r[i] = <<Erased(a[1], a[2], i), a[2] - 1>>
      BY <2>1, <2>2 DEF After
    <3>2. a[2] \in Nat /\ i \in 1..a[2]
      BY <2>1, <2>2 DEF Holds
    <3>3. Holds(Erased(a[1], a[2], i), a[2] - 1, u) /\ Len(Erased(a[1], a[2], i)) = Len(m)
      BY <2>1, <3>2, ErasedHolds
    <3> QED BY <3>1, <3>3
  <2>3. CASE ~(i \in gone /\ i <= a[2])
    BY <2>1, <2>3 DEF After
  <2> QED BY <2>2, <2>3
<1> HIDE DEF Ok
<1>8. T = {}
  <2> SUFFICES ASSUME T # {} PROVE FALSE
    OBVIOUS
  <2>1. PICK j \in T : \A i \in T : ~(i < j)
    <3>1. T \in SUBSET Nat
      BY <1>1
    <3> QED BY <3>1, Least, Zenon
  <2>2. j \in 1..n /\ j - 1 \in 0..n /\ j - 1 < j /\ ~Ok(r[j])
    BY <1>1, <1>6, <2>1
  <2>3. Ok(r[j - 1])
    BY <2>1, <2>2
  <2> QED BY <1>7, <2>2, <2>3
<1>9. n \in 0..n
  BY <1>1
<1>10. Ok(r[n])
  BY <1>8, <1>9
<1> QED BY <1>3, <1>10 DEF Ok

-----------------------------------------------------------------------------
\* The screens.

\* The fields of a screen.
ScreenFields == {"at", "user", "panel", "refresh", "exit", "slot", "save", "black"}
\* A screen has those fields.
IsScreen(s) == s = [x \in ScreenFields |-> s[x]]
\* The main menu is below all others, nothing but a stuck task is over the panel of
\* a title, and only the panel on top waits for a refresh.
ScreensInv ==
    /\ Len(screens) \in Nat \ {0} /\ screens = [i \in 1..Len(screens) |-> screens[i]]
    /\ screens[1].at = "main"
    /\ \A i \in 1..Len(screens) :
        /\ IsScreen(screens[i])
        /\ screens[i].user \in User
        /\ screens[i].at = "title" /\ i # Len(screens) => screens[i + 1].at = "stuck"
        /\ screens[i].refresh => i = Len(screens) /\ screens[i].at \in {"title", "user", "create"}

\* A sequence, as the function it is.
LEMMA AsFunction ==
  ASSUME NEW q, Len(q) \in Nat, q = [i \in 1..Len(q) |-> q[i]]
  PROVE  /\ \A s : /\ Append(q, s) = [i \in 1..(Len(q) + 1) |-> IF i = Len(q) + 1 THEN s ELSE q[i]]
                   /\ Len(Append(q, s)) = Len(q) + 1
         /\ \A s : /\ [q EXCEPT ![Len(q)] = s] = [i \in 1..Len(q) |-> IF i = Len(q) THEN s ELSE q[i]]
                   /\ Len([q EXCEPT ![Len(q)] = s]) = Len(q)
         /\ Len(q) # 0 => /\ Front(q) = [i \in 1..(Len(q) - 1) |-> q[i]]
                          /\ Len(Front(q)) = Len(q) - 1
<1> DEFINE n == Len(q)
<1>1. q \in Seq({q[i] : i \in 1..n}) /\ DOMAIN q = 1..n
  OBVIOUS
<1>2. ASSUME NEW s
      PROVE  /\ Append(q, s) = [i \in 1..(n + 1) |-> IF i = n + 1 THEN s ELSE q[i]]
             /\ Len(Append(q, s)) = n + 1
  <2> DEFINE X == {q[i] : i \in 1..n} \cup {s}
  <2>1. q \in Seq(X) /\ s \in X
    BY <1>1
  <2> HIDE DEF X
  <2>2. /\ Append(q, s) \in Seq(X) /\ Len(Append(q, s)) = n + 1
        /\ \A i \in 1..n : Append(q, s)[i] = q[i]
        /\ Append(q, s)[n + 1] = s
    BY <2>1, AppendProperties
  <2>3. Append(q, s) = [i \in 1..(n + 1) |-> Append(q, s)[i]]
    <3> DEFINE a == Append(q, s)
    <3>1. a \in Seq(X) /\ Len(a) = n + 1
      BY <2>2
    <3> HIDE DEF a
    <3>2. a = [i \in 1..(n + 1) |-> a[i]]
      BY <3>1
    <3> QED BY <3>2 DEF a
  <2> QED BY <2>2, <2>3
<1>3. ASSUME NEW s
      PROVE  /\ [q EXCEPT ![n] = s] = [i \in 1..n |-> IF i = n THEN s ELSE q[i]]
             /\ Len([q EXCEPT ![n] = s]) = n
  <2>1. [q EXCEPT ![n] = s] = [i \in 1..n |-> IF i = n THEN s ELSE q[i]]
    BY <1>1
  <2>2. Len([i \in 1..n |-> IF i = n THEN s ELSE q[i]]) = n
    OBVIOUS
  <2> QED BY <2>1, <2>2
<1>4. ASSUME n # 0
      PROVE  Front(q) = [i \in 1..(n - 1) |-> q[i]] /\ Len(Front(q)) = n - 1
  <2>1. SubSeq(q, 1, n - 1) = [i \in 1..(n - 1) |-> q[i]]
    BY <1>1, <1>4
  <2>2. Len([i \in 1..(n - 1) |-> q[i]]) = n - 1
    BY <1>4
  <2> QED BY <2>1, <2>2 DEF Front
<1> QED BY <1>2, <1>3, <1>4

\* The screen on top is one of them.
LEMMA TopIs ==
  ASSUME ScreensInv
  PROVE  /\ IsScreen(Top) /\ Top.user \in User
         /\ Top.refresh => Top.at \in {"title", "user", "create"}
BY DEF ScreensInv, Top, Last

\* A screen is pushed.
LEMMA Pushes ==
  ASSUME ScreensInv, ~Top.refresh, NEW s, IsScreen(s), s.user \in User, ~s.refresh,
         Top.at = "title" => s.at = "stuck", Push(s)
  PROVE  ScreensInv' /\ Top' = s
<1> DEFINE n == Len(screens)
<1>1. n \in Nat \ {0} /\ screens = [i \in 1..n |-> screens[i]] /\ Top = screens[n]
  BY DEF ScreensInv, Top, Last
<1>2. /\ screens' = [i \in 1..(n + 1) |-> IF i = n + 1 THEN s ELSE screens[i]]
      /\ Len(screens') = n + 1
  BY <1>1, AsFunction DEF Push
<1>3. Top' = s
  BY <1>1, <1>2 DEF Top, Last
<1>4. \A i \in 1..n : screens'[i] = screens[i] /\ i # n + 1
  BY <1>1, <1>2
<1>5. screens'[n + 1] = s
  BY <1>1, <1>2
<1> HIDE DEF n
<1>6. \A i \in 1..n :
        /\ IsScreen(screens[i])
        /\ screens[i].user \in User
        /\ screens[i].at = "title" /\ i # n => screens[i + 1].at = "stuck"
        /\ screens[i].refresh => i = n
  BY DEF ScreensInv, n
<1>7. ASSUME NEW i \in 1..(n + 1)
      PROVE  /\ IsScreen(screens'[i])
             /\ screens'[i].user \in User
             /\ screens'[i].at = "title" /\ i # n + 1 => screens'[i + 1].at = "stuck"
             /\ screens'[i].refresh => i = n + 1 /\ screens'[i].at \in {"title", "user", "create"}
  <2>1. CASE i = n + 1
    BY <2>1, <1>5
  <2>2. CASE i = n
    BY <1>1, <1>4, <1>5, <1>6, <2>2
  <2>3. CASE i \in 1..(n - 1)
    <3>1. i \in 1..n /\ i + 1 \in 1..n /\ i # n
      BY <1>1, <2>3
    <3> QED BY <1>1, <1>4, <1>6, <3>1
  <2> QED BY <1>1, <2>1, <2>2, <2>3
<1>8. screens'[1].at = "main" /\ screens' = [i \in 1..(n + 1) |-> screens'[i]]
  BY <1>1, <1>2, <1>4 DEF ScreensInv
<1> QED BY <1>1, <1>2, <1>3, <1>7, <1>8 DEF ScreensInv, n

\* The screen on top leaves.
LEMMA Pops ==
  ASSUME ScreensInv, Top.at \notin {"main", "stuck"}, Pop
  PROVE  ScreensInv' /\ ~Top'.refresh /\ Top'.at # "title"
<1> DEFINE n == Len(screens)
<1>1. n \in Nat \ {0} /\ screens = [i \in 1..n |-> screens[i]] /\ Top = screens[n]
  BY DEF ScreensInv, Top, Last
<1>2. n # 1
  BY <1>1 DEF ScreensInv
<1>3. screens' = [i \in 1..(n - 1) |-> screens[i]] /\ Len(screens') = n - 1
  BY <1>1, <1>2, AsFunction DEF Pop
<1>4. Top' = screens[n - 1] /\ n - 1 \in 1..n
  BY <1>1, <1>2, <1>3 DEF Top, Last
<1> HIDE DEF n
<1>6. \A i \in 1..n :
        /\ IsScreen(screens[i])
        /\ screens[i].user \in User
        /\ screens[i].at = "title" /\ i # n => screens[i + 1].at = "stuck"
        /\ screens[i].refresh => i = n
  BY DEF ScreensInv, n
<1>7. \A i \in 1..(n - 1) : /\ screens'[i] = screens[i] /\ i # n /\ i \in 1..n
                            /\ i # n - 1 => i + 1 \in 1..(n - 1)
  BY <1>1, <1>2, <1>3
<1>8. ~Top'.refresh /\ Top'.at # "title"
  <2>1. n - 1 # n /\ (n - 1) + 1 = n
    BY <1>1
  <2> QED BY <1>1, <1>4, <1>6, <2>1
<1>9. screens'[1].at = "main" /\ screens' = [i \in 1..(n - 1) |-> screens'[i]]
  BY <1>1, <1>2, <1>3 DEF ScreensInv
<1>10. \A i \in 1..(n - 1) :
             /\ IsScreen(screens'[i])
             /\ screens'[i].user \in User
             /\ screens'[i].at = "title" /\ i # n - 1 => screens'[i + 1].at = "stuck"
             /\ screens'[i].refresh => i = n - 1 /\ screens'[i].at \in {"title", "user", "create"}
  BY <1>6, <1>7
<1>11. Len(screens') \in Nat \ {0} /\ Len(screens') = n - 1
  BY <1>1, <1>2, <1>3
<1> QED BY <1>8, <1>9, <1>10, <1>11 DEF ScreensInv

\* The screen on top changes its own state.
LEMMA SetsTop ==
  ASSUME ScreensInv, NEW s, IsScreen(s), s.user = Top.user, s.at = Top.at,
         s.refresh => s.at \in {"title", "user", "create"}, SetTop(s)
  PROVE  ScreensInv' /\ Top' = s
<1> DEFINE n == Len(screens)
<1>1. n \in Nat \ {0} /\ screens = [i \in 1..n |-> screens[i]] /\ Top = screens[n]
  BY DEF ScreensInv, Top, Last
<1>2. screens' = [i \in 1..n |-> IF i = n THEN s ELSE screens[i]] /\ Len(screens') = n
  BY <1>1, AsFunction DEF SetTop
<1>3. Top' = s
  BY <1>1, <1>2 DEF Top, Last
<1> HIDE DEF n
<1>4. \A i \in 1..n :
        /\ IsScreen(screens[i])
        /\ screens[i].user \in User
        /\ screens[i].at = "title" /\ i # n => screens[i + 1].at = "stuck"
        /\ screens[i].refresh => i = n
  BY DEF ScreensInv, n
<1>5. screens'[n] = s /\ \A i \in 1..n : i # n => screens'[i] = screens[i]
  BY <1>1, <1>2
<1>6. \A i \in 1..n : screens'[i].at = screens[i].at /\ screens'[i].user = screens[i].user
  BY <1>1, <1>5
<1>7. ASSUME NEW i \in 1..n
      PROVE  /\ IsScreen(screens'[i])
             /\ screens'[i].user \in User
             /\ screens'[i].at = "title" /\ i # n => screens'[i + 1].at = "stuck"
             /\ screens'[i].refresh => i = n /\ screens'[i].at \in {"title", "user", "create"}
  <2>1. CASE i = n
    BY <1>1, <1>4, <1>5, <2>1
  <2>2. CASE i # n
    <3>1. i + 1 \in 1..n
      BY <1>1, <2>2
    <3> QED BY <1>4, <1>5, <1>6, <2>2, <3>1
  <2> QED BY <2>1, <2>2
<1>8. screens'[1].at = "main" /\ screens' = [i \in 1..n |-> screens'[i]]
  BY <1>1, <1>2, <1>6 DEF ScreensInv
<1>9. Len(screens') \in Nat \ {0} /\ Len(screens') = n
  BY <1>1, <1>2
<1> QED BY <1>3, <1>7, <1>8, <1>9 DEF ScreensInv

-----------------------------------------------------------------------------
\* The file systems.

\* Writing to the system is off, and no list shows an account its system saves.
Guarded == ~allow /\ ~AccountSystemSaves
\* What the switch protects.
Protected == Partition \cup {s \in Save : s.system}
\* Only the save under the file mode may differ from what it has committed.
OthersInv == \A s \in Save : ~(session.open /\ s = session.a) => tree[s] = committed[s]
\* While guarded, the session over a protected file system knows it is one, and the
\* system saves have nothing uncommitted to lose.
GuardInv == Guarded =>
    /\ session.open /\ session.a \in Protected => session.system
    /\ \A s \in Save : s.system => tree[s] = committed[s]

\* What a step writes and commits.
Writes(F) ==
    /\ \A g \in FileSystem : g \notin F => tree'[g] = tree[g]
    /\ \A s \in Save : s \notin F => committed'[s] = committed[s]

\* A file system the file mode changes.
Changes(f) ==
    \E t, tried, refused : Changed(f, t, tried, refused)

\* Such a change writes to that file system alone.
LEMMA ChangesWrites ==
  ASSUME TreesInv, NEW f \in FileSystem, Changes(f)
  PROVE  Writes({f})
BY DEF TreesInv, Changes, Changed, Writes

\* An option writes to the SD card, or to pane A when the check lets it.
LEMMA FileModeWrites ==
  ASSUME SessionInv, TreesInv, FileModeNext
  PROVE  /\ session.open /\ UNCHANGED allow
         /\ session'.open /\ session'.a = session.a /\ session'.system = session.system
         /\ \/ UNCHANGED <<tree, committed>>
            \/ Writes({SdCard})
            \/ Writes({session.a}) /\ ~(session.system /\ ~allow)
<1>1. target \in Pane /\ \A p \in Pane : p = "A" \/ p = "B"
  BY DEF SessionInv, Pane
<1>2. Mount("A") = session.a /\ Mount("B") = SdCard /\ SdCard \in FileSystem
  BY DEF Mount, FileSystem
<1>3. session = [x \in SessionFields |-> session[x]] /\ (session.open => session.a \in FileSystem)
  BY DEF SessionInv
<1>4. ASSUME session.dialog, Changes(Mount(target)), ~SystemOperationCheck
      PROVE  Writes({SdCard}) \/ (Writes({session.a}) /\ ~(session.system /\ ~allow))
  BY <1>1, <1>2, <1>3, <1>4, ChangesWrites DEF SessionInv, SystemOperationCheck
<1>5. ASSUME session.dialog, Changes(Mount(Other)), ~SystemWriteCheck
      PROVE  Writes({SdCard}) \/ (Writes({session.a}) /\ ~(session.system /\ ~allow))
  BY <1>1, <1>2, <1>3, <1>5, ChangesWrites DEF SessionInv, SystemWriteCheck, Other
<1>a. ASSUME NEW n \in Name, EnterDirectory(n)
      PROVE  session.open /\ UNCHANGED <<tree, committed, allow, session>>
  BY <1>a DEF EnterDirectory, Browsing, Show
<1>b. ASSUME UpOneDirectory \/ ChangeTarget \/ RefreshPane
      PROVE  session.open /\ UNCHANGED <<tree, committed, allow, session>>
  BY <1>b DEF UpOneDirectory, ChangeTarget, RefreshPane, Browsing, Show, SessionInv
<1>c. ASSUME OpenOptionMenu \/ CloseDialog
      PROVE  /\ session.open /\ UNCHANGED <<tree, committed, allow>>
             /\ session'.open /\ session'.a = session.a /\ session'.system = session.system
  BY <1>c, <1>3 DEF OpenOptionMenu, CloseDialog, Browsing, SessionInv, SessionFields
<1>d. ASSUME NEW s \in Name \cup {"."}, NEW d \in Name \cup {".", ".."}, CopyTarget(s, d)
      PROVE  /\ session.dialog /\ UNCHANGED <<allow, session>>
             /\ UNCHANGED <<tree, committed>> \/ (Changes(Mount(Other)) /\ ~SystemWriteCheck)
  BY <1>d DEF CopyTarget, Pick, Changes
<1>e. ASSUME NEW s \in Name, DeleteTarget(s)
      PROVE  /\ session.dialog /\ UNCHANGED <<allow, session>>
             /\ Changes(Mount(target)) /\ ~SystemOperationCheck
  BY <1>e DEF DeleteTarget, Pick, Changes
<1>f. ASSUME NEW s \in Name, NEW n \in Name, RenameTarget(s, n)
      PROVE  /\ session.dialog /\ UNCHANGED <<allow, session>>
             /\ Changes(Mount(target)) /\ ~SystemOperationCheck
  BY <1>f DEF RenameTarget, Pick, Changes
<1>g. ASSUME NEW n \in Name, CreateDirectory(n)
      PROVE  /\ session.dialog /\ UNCHANGED <<allow, session>>
             /\ Changes(Mount(target)) /\ ~SystemOperationCheck
  BY <1>g DEF CreateDirectory, Pick, Changes
<1>h. session.dialog => session.open
  BY DEF SessionInv
<1> HIDE DEF SystemOperationCheck, SystemWriteCheck
<1> QED
  BY <1>4, <1>5, <1>a, <1>b, <1>c, <1>d, <1>e, <1>f, <1>g, <1>h DEF FileModeNext

-----------------------------------------------------------------------------
\* The lists, the screens and what they show.

\* Each list holds saves of its user, each once.
ListsInv ==
    /\ memory = [u \in User |-> memory[u]] /\ count = [u \in User |-> count[u]]
    /\ view = [u \in User |-> view[u]]
    /\ exists \subseteq Save
    /\ \A u \in User : Holds(memory[u], count[u], u)
\* The panel of a title points into the memory of its list, until an option closes it
\* to the save it was opened for, and so does the file mode over it.
LinkInv == Top.at = "title" =>
    /\ Top.save \in Save /\ Top.slot \in 1..Len(memory[Top.user])
    /\ Top.panel = "open" /\ ~Top.exit =>
          Top.slot <= count[Top.user] /\ SaveInfo = Top.save
    /\ session.open /\ ~late => session.a = Top.save
\* The panel on top waits to load the list of user u.
Awaited(u) == Top.refresh /\ Top.at # "title" /\ u = Top.user
\* The list of user u holds no save that is gone, and what the system and the filters
\* say unless something was kept from it.
Matches(u) ==
    /\ Live(memory[u], count[u]) \subseteq exists
    /\ u \notin astray => Live(memory[u], count[u]) = Loadable(u, exists, blacklist)
\* Unless an option came late, every list that no panel waits to load matches, and
\* every title selection shows its list, or will when the panel on top refreshes it.
MatchInv == ~late => \A u \in User : ~Awaited(u) =>
    /\ Matches(u)
    /\ ~(Top.refresh /\ Top.at = "title") => view[u] = List(u)
\* The lists, the screens, the pointer between them and what they show.
Tables == ListsInv /\ ScreensInv /\ LinkInv /\ MatchInv

\* What is loaded are saves of the user.
LEMMA LoadableOurs == \A u, on, black : on \subseteq Save => Loadable(u, on, black) \in SUBSET Ours(u)
BY DEF Loadable, Ours

\* A list, as a sequence, has the live entries.
LEMMA ListLive ==
  ASSUME NEW m, NEW n, NEW u, Holds(m, n, u)
  PROVE  ToSet(SubSeq(m, 1, n)) = Live(m, n) /\ Live(m, n) \in SUBSET Ours(u)
<1>1. n \in 0..Len(m) /\ Len(m) \in Nat /\ \A i \in 1..Len(m) : m[i] \in Ours(u)
  BY DEF Holds
<1>2. SubSeq(m, 1, n) = [i \in 1..n |-> m[i]]
  BY <1>1 DEF Holds
<1>3. DOMAIN SubSeq(m, 1, n) = 1..n /\ \A i \in 1..n : SubSeq(m, 1, n)[i] = m[i]
  BY <1>1, <1>2
<1> DEFINE q == SubSeq(m, 1, n)
<1>4. ToSet(q) = {q[i] : i \in 1..n}
  BY <1>3, Zenon DEF ToSet
<1> HIDE DEF q
<1>5. \A i \in 1..n : q[i] = m[i]
  BY <1>3 DEF q
<1>6. ToSet(q) = Live(m, n)
  BY <1>4, <1>5 DEF Live
<1>7. Live(m, n) \in SUBSET Ours(u)
  BY <1>1 DEF Live
<1> QED BY <1>6, <1>7 DEF q

\* The lists of some users are replaced.
LEMMA Replaces ==
  ASSUME ListsInv, NEW us, NEW new, Replace(us, new),
         \A u \in User : u \in us => Holds(new[u], Len(new[u]), u)
  PROVE  /\ memory' = [u \in User |-> memory'[u]] /\ count' = [u \in User |-> count'[u]]
         /\ \A u \in User : /\ Holds(memory'[u], count'[u], u)
                            /\ u \in us => memory'[u] = new[u] /\ count'[u] = Len(new[u])
                            /\ u \notin us => memory'[u] = memory[u] /\ count'[u] = count[u]
BY DEF Replace, ListsInv

\* The lists of some users are loaded.
LEMMA LoadsLists ==
  ASSUME ListsInv, NEW us, NEW on \in SUBSET Save, NEW black, NEW favs, LoadUserData(us, on, black, favs)
  PROVE  /\ memory' = [u \in User |-> memory'[u]] /\ count' = [u \in User |-> count'[u]]
         /\ \A u \in User :
              /\ Holds(memory'[u], count'[u], u)
              /\ u \in us => Live(memory'[u], count'[u]) = Loadable(u, on, black)
              /\ u \notin us => memory'[u] = memory[u] /\ count'[u] = count[u]
<1> DEFINE new == [u \in us |-> LoadedList(u, on, black, favs)]
<1>1. Replace(us, new)
  BY DEF LoadUserData
<1>2. \A u \in us : /\ Holds(new[u], Len(new[u]), u)
                    /\ Live(new[u], Len(new[u])) = Loadable(u, on, black)
  <2> SUFFICES ASSUME NEW u \in us
               PROVE  /\ Holds(new[u], Len(new[u]), u)
                      /\ Live(new[u], Len(new[u])) = Loadable(u, on, black)
    OBVIOUS
  <2>1. new[u] = Sorted(Loadable(u, on, black), favs)
    BY DEF LoadedList
  <2>2. Loadable(u, on, black) \in SUBSET Ours(u)
    BY LoadableOurs
  <2> QED BY <2>1, <2>2, SortedHolds
<1> HIDE DEF new
<1>3. \A u \in User : u \in us => Holds(new[u], Len(new[u]), u)
  BY <1>2
<1>4. /\ memory' = [u \in User |-> memory'[u]] /\ count' = [u \in User |-> count'[u]]
      /\ \A u \in User : /\ Holds(memory'[u], count'[u], u)
                         /\ u \in us => memory'[u] = new[u] /\ count'[u] = Len(new[u])
                         /\ u \notin us => memory'[u] = memory[u] /\ count'[u] = count[u]
  BY <1>1, <1>3, Replaces
<1> QED BY <1>2, <1>4

\* A screen refreshes what it shows.
LEMMA Refreshes ==
  ASSUME ListsInv, NEW us, RefreshViews(us)
  PROVE  /\ view' = [u \in User |-> view'[u]]
         /\ \A u \in User : IF u \in us THEN view'[u] = List(u)' ELSE view'[u] = view[u]
BY DEF RefreshViews, ListsInv, List

\* The screens change while no panel waits to load a list.
LEMMA Navigates ==
  ASSUME Tables, UNCHANGED <<exists, lists, blacklist, astray>>, late => late',
         ~Top.refresh, ~Top'.refresh, ScreensInv', LinkInv'
  PROVE  Tables'
<1>1. ListsInv'
  BY DEF Tables, ListsInv, lists
<1>2. UNCHANGED <<memory, count, view, exists, blacklist, astray>>
  BY DEF lists
<1>3. MatchInv'
  BY <1>2 DEF Tables, MatchInv, Awaited, Matches, List
<1> QED BY <1>1, <1>3 DEF Tables

\* A new screen has no work left.
LEMMA NewScreen ==
  ASSUME NEW at, NEW u
  PROVE  /\ IsScreen(Screen(at, u)) /\ Screen(at, u).user = u /\ Screen(at, u).at = at
         /\ ~Screen(at, u).refresh /\ ~Screen(at, u).exit
BY DEF Screen, IsScreen, ScreenFields

\* Nothing changes but the file mode.
LEMMA ScreensStay ==
  ASSUME Tables, UNCHANGED <<exists, lists, blacklist, astray, screens>>, late => late',
         Top.at = "title" /\ session'.open /\ ~late' => session'.a = Top.save
  PROVE  Tables'
<1>1. UNCHANGED <<memory, count, view, exists, blacklist, astray, screens>> /\ Top' = Top
  BY DEF lists, Top
<1>2. ListsInv'
  BY <1>1 DEF Tables, ListsInv
<1>3. MatchInv'
  BY <1>1 DEF Tables, MatchInv, Awaited, Matches, List
<1>4. ScreensInv'
  BY <1>1 DEF Tables, ScreensInv
<1>5. LinkInv'
  BY <1>1 DEF Tables, LinkInv, SaveInfo
<1> QED BY <1>2, <1>3, <1>4, <1>5 DEF Tables

\* A screen is opened over one that waits for nothing.
LEMMA Opens ==
  ASSUME Tables, UNCHANGED <<exists, lists, blacklist, astray>>, late => late', ~Top.refresh,
         NEW s, IsScreen(s), s.user \in User, ~s.refresh, s.at # "title",
         Top.at = "title" => s.at = "stuck", Push(s)
  PROVE  Tables'
<1>1. ScreensInv' /\ Top' = s
  BY Pushes DEF Tables
<1>2. LinkInv'
  BY <1>1 DEF LinkInv
<1> QED BY <1>1, <1>2, Navigates

\* A screen leaves.
LEMMA ScreenLeaves ==
  ASSUME Tables, UNCHANGED <<library, fileVars>>, ~Top.refresh, Top.at \notin {"main", "stuck"}, Pop
  PROVE  Tables'
<1>1. ScreensInv' /\ ~Top'.refresh /\ Top'.at # "title"
  BY Pops DEF Tables
<1>2. LinkInv'
  BY <1>1 DEF LinkInv
<1>3. UNCHANGED <<exists, lists, blacklist, late, astray>>
  BY DEF library, history
<1> QED BY <1>1, <1>2, <1>3, Navigates

\* A panel slides, and forgets to close.
LEMMA PanelMoves ==
  ASSUME Tables, UNCHANGED <<library, fileVars>>, Panel, NEW p, p # "open",
         SetTop([Top EXCEPT !.panel = p]) \/ SetTop([Top EXCEPT !.panel = p, !.exit = FALSE])
  PROVE  Tables'
<1>1. IsScreen(Top) /\ ~Top.refresh /\ ~session.open
  BY TopIs DEF Tables, Panel
<1>2. PICK s : /\ SetTop(s)
               /\ s = [Top EXCEPT !.panel = p] \/ s = [Top EXCEPT !.panel = p, !.exit = FALSE]
  OBVIOUS
<1>3. /\ IsScreen(s) /\ s.user = Top.user /\ s.at = Top.at /\ s.refresh = Top.refresh
      /\ s.panel = p /\ s.slot = Top.slot /\ s.save = Top.save
  BY <1>1, <1>2 DEF IsScreen, ScreenFields
<1>4. ScreensInv' /\ Top' = s
  BY <1>1, <1>2, <1>3, SetsTop DEF Tables
<1>5. UNCHANGED <<exists, lists, blacklist, late, astray, memory, count, session>>
  BY DEF library, history, lists, fileVars, panes
<1>6. LinkInv'
  BY <1>1, <1>3, <1>4, <1>5 DEF Tables, LinkInv
<1> QED BY <1>1, <1>3, <1>4, <1>5, <1>6, Navigates

\* Screens come and go, panels open and close.
LEMMA NavigationKeeps ==
  ASSUME Tables,
         \/ \E u \in User : OpenTitles(u) \/ OpenUserOptions(u)
         \/ OpenBlacklist \/ LeaveTitles
         \/ \E i \in 1..Cardinality(Save) : OpenTitleOptions(i)
         \/ DeleteSaveFails \/ OpenCreate \/ OpenImport
         \/ ClosePanel \/ PanelSlides \/ LeavePanel
  PROVE  Tables'
<1>1. IsScreen(Top) /\ Top.user \in User /\ (Top.refresh => Top.at \in {"title", "user", "create"})
  BY TopIs DEF Tables
<1>2. UNCHANGED <<library, fileVars>> => UNCHANGED <<exists, lists, blacklist, late, astray>>
  BY DEF library, history
<1>a. ASSUME NEW u \in User, OpenTitles(u) PROVE Tables'
  <2>1. Push(Screen("titles", u)) /\ UNCHANGED <<library, fileVars>> /\ Top.at = "main"
    BY <1>a DEF OpenTitles, At
  <2> DEFINE s == Screen("titles", u)
  <2>2. IsScreen(s) /\ s.user = u /\ s.at = "titles" /\ ~s.refresh
    BY NewScreen
  <2> HIDE DEF s
  <2>3. Push(s)
    BY <2>1 DEF s
  <2> QED BY <1>1, <1>2, <2>1, <2>2, <2>3, Opens
<1>b. ASSUME NEW u \in User, OpenUserOptions(u) PROVE Tables'
  <2>1. Push(Screen("user", u)) /\ UNCHANGED <<library, fileVars>> /\ Top.at = "main"
    BY <1>b DEF OpenUserOptions, At
  <2> DEFINE s == Screen("user", u)
  <2>2. IsScreen(s) /\ s.user = u /\ s.at = "user" /\ ~s.refresh
    BY NewScreen
  <2> HIDE DEF s
  <2>3. Push(s)
    BY <2>1 DEF s
  <2> QED BY <1>1, <1>2, <2>1, <2>2, <2>3, Opens
<1>c. CASE OpenBlacklist
  <2> DEFINE m == Screen("blacklist", MainMenu.user)
             s == [m EXCEPT !.black = SetToSeq(blacklist)]
  <2>1. Push(s) /\ UNCHANGED <<library, fileVars>> /\ Top.at = "main"
    BY <1>c DEF OpenBlacklist, At
  <2>2. MainMenu.user \in User
    <3>1. (CHOOSE u \in User : TRUE) \in User
      BY <1>1
    <3> QED BY <3>1, NewScreen DEF MainMenu
  <2>3. IsScreen(m) /\ m.user \in User /\ m.at = "blacklist" /\ ~m.refresh
    BY <2>2, NewScreen
  <2> HIDE DEF m
  <2>4. IsScreen(s) /\ s.user \in User /\ s.at = "blacklist" /\ ~s.refresh
    BY <2>3 DEF IsScreen, ScreenFields
  <2> HIDE DEF s
  <2> QED BY <1>1, <1>2, <2>1, <2>4, Opens
<1>d. CASE LeaveTitles
  <2>1. Pop /\ UNCHANGED <<library, fileVars>> /\ Top.at = "titles"
    BY <1>d DEF LeaveTitles, At
  <2> QED BY <1>1, <2>1, ScreenLeaves
<1>e. ASSUME NEW i \in 1..Cardinality(Save), OpenTitleOptions(i) PROVE Tables'
  <2> DEFINE u == Top.user
             m == Screen("title", u)
             s == [m EXCEPT !.slot = i, !.save = memory[u][i]]
  <2>1. Push(s) /\ UNCHANGED <<library, fileVars>> /\ Top.at = "titles" /\ i <= count[u] /\ ~session.open
    BY <1>e DEF OpenTitleOptions, At
  <2>2. IsScreen(m) /\ m.user = u /\ m.at = "title" /\ ~m.refresh /\ ~m.exit
    BY NewScreen
  <2> HIDE DEF m
  <2>3. /\ IsScreen(s) /\ s.user = u /\ s.at = "title" /\ ~s.refresh
        /\ s.slot = i /\ s.save = memory[u][i]
    BY <2>2 DEF IsScreen, ScreenFields
  <2> HIDE DEF s
  <2>4. ScreensInv' /\ Top' = s
    BY <1>1, <2>1, <2>3, Pushes DEF Tables
  <2>5. UNCHANGED <<memory, count, session>>
    BY <2>1 DEF library, lists, fileVars, panes
  <2>6. Cardinality(Save) \in Nat
    BY LibraryAssumption, FS_CardinalityType
  <2>7. i \in 1..Len(memory[u]) /\ memory[u][i] \in Save
    <3>1. Holds(memory[u], count[u], u)
      BY <1>1 DEF Tables, ListsInv
    <3>2. i \in 1..Len(memory[u])
      BY <2>1, <2>6, <3>1 DEF Holds
    <3> QED BY <3>1, <3>2 DEF Holds, Ours
  <2>8. LinkInv'
    BY <2>1, <2>3, <2>4, <2>5, <2>7 DEF LinkInv, SaveInfo
  <2> QED BY <1>1, <1>2, <2>1, <2>3, <2>4, <2>8, Navigates
<1>f. CASE DeleteSaveFails
  <2> DEFINE s == Screen("stuck", Top.user)
  <2>1. Push(s) /\ UNCHANGED <<exists, lists, blacklist, astray>> /\ ~Top.refresh /\ (late => late')
    BY <1>f DEF DeleteSaveFails, TitleOption
  <2>2. IsScreen(s) /\ s.user = Top.user /\ s.at = "stuck" /\ ~s.refresh
    BY NewScreen
  <2> HIDE DEF s
  <2> QED BY <1>1, <2>1, <2>2, Opens
<1>g. CASE OpenCreate
  <2> DEFINE s == Screen("create", Top.user)
  <2>1. Push(s) /\ UNCHANGED <<library, fileVars>> /\ Top.at = "user" /\ ~Top.refresh
    BY <1>g DEF OpenCreate, UserOption, At
  <2>2. IsScreen(s) /\ s.user = Top.user /\ s.at = "create" /\ ~s.refresh
    BY NewScreen
  <2> HIDE DEF s
  <2> QED BY <1>1, <1>2, <2>1, <2>2, Opens
<1>h. CASE OpenImport
  <2> DEFINE s == Screen("import", Top.user)
  <2>1. Push(s) /\ UNCHANGED <<library, fileVars>> /\ Top.at = "user" /\ ~Top.refresh
    BY <1>h DEF OpenImport, At
  <2>2. IsScreen(s) /\ s.user = Top.user /\ s.at = "import" /\ ~s.refresh
    BY NewScreen
  <2> HIDE DEF s
  <2> QED BY <1>1, <1>2, <2>1, <2>2, Opens
<1>i. CASE ClosePanel
  BY <1>i, PanelMoves DEF ClosePanel
<1>j. CASE PanelSlides
  BY <1>j, PanelMoves DEF PanelSlides
<1>k. CASE LeavePanel
  <2>1. Pop /\ UNCHANGED <<library, fileVars>> /\ Top.at \in PanelScreens /\ ~Top.refresh
    BY <1>k DEF LeavePanel, Panel
  <2> QED BY <2>1, ScreenLeaves DEF PanelScreens
<1> QED BY <1>a, <1>b, <1>c, <1>d, <1>e, <1>f, <1>g, <1>h, <1>i, <1>j, <1>k

\* The file mode leaves the lists alone.
LEMMA FilesKeepTables ==
  ASSUME Tables, SessionInv, TreesInv,
         \/ PushFileMode \/ ResetSaveData \/ FileModeStep \/ UNCHANGED vars
         \/ \E f \in Partition \cup {SdCard} : BrowsePartition(f)
  PROVE  Tables'
<1>a. CASE PushFileMode
  <2>1. /\ UNCHANGED <<exists, lists, blacklist, astray, screens>> /\ (late => late')
        /\ session'.a = SaveInfo /\ Top.panel = "open" /\ (~late' => ~Top.exit)
    <3>1. PICK journal \in BOOLEAN : OpenFileMode(SaveInfo, Top.user \in SystemUser, journal)
      BY <1>a DEF PushFileMode
    <3> QED BY <1>a, <3>1 DEF PushFileMode, TitleOption, OpenFileMode
  <2> QED BY <2>1, ScreensStay DEF Tables, LinkInv
<1>b. CASE ResetSaveData
  <2>1. /\ UNCHANGED <<exists, lists, blacklist, astray, screens, session>> /\ (late => late')
        /\ ~session.open
    BY <1>b DEF ResetSaveData, TitleOption, At, panes
  <2> QED BY <2>1, ScreensStay
<1>c. CASE FileModeStep
  <2>1. UNCHANGED <<exists, lists, blacklist, screens, late, astray>>
    BY <1>c DEF FileModeStep, library, history
  <2>2. session'.open => session.open /\ session'.a = session.a
    BY <1>c, FileModeWrites DEF FileModeStep, CloseFileMode, CloseMounts, NoSession
  <2> QED BY <2>1, <2>2, ScreensStay DEF Tables, LinkInv
<1>d. CASE UNCHANGED vars
  <2>1. UNCHANGED <<exists, lists, blacklist, screens, late, astray, session>>
    BY <1>d DEF vars, library, history, fileVars, panes
  <2> QED BY <2>1, ScreensStay DEF Tables, LinkInv
<1>e. ASSUME NEW f, BrowsePartition(f) PROVE Tables'
  <2>1. UNCHANGED <<exists, lists, blacklist, screens, late, astray>> /\ Top.at = "main"
    BY <1>e DEF BrowsePartition, library, history, At
  <2> QED BY <2>1, ScreensStay
<1> QED BY <1>a, <1>b, <1>c, <1>d, <1>e

\* After a step that leaves no panel waiting, every list matches.
LEMMA AllMatch ==
  ASSUME ListsInv', ScreensInv', LinkInv',
         ~late' => \A u \in User : Matches(u)' /\ view'[u] = List(u)'
  PROVE  Tables'
BY DEF Tables, MatchInv

\* The panel of a title makes every title selection list again.
LEMMA RefreshAllKeeps ==
  ASSUME Tables, RefreshAllViews
  PROVE  Tables'
<1>1. IsScreen(Top) /\ Top.user \in User
  BY TopIs DEF Tables
<1> DEFINE s == [Top EXCEPT !.refresh = FALSE]
<1>2. /\ IsScreen(s) /\ s.user = Top.user /\ s.at = Top.at /\ ~s.refresh
      /\ s.panel = Top.panel /\ s.slot = Top.slot /\ s.save = Top.save /\ s.exit = Top.exit
  BY <1>1 DEF IsScreen, ScreenFields
<1>3. /\ UNCHANGED <<memory, count, exists, blacklist, late, astray, session>> /\ RefreshViews(User)
      /\ SetTop(s) /\ Top.at = "title"
  BY DEF RefreshAllViews, At, history, fileVars, panes
<1> HIDE DEF s
<1>4. ScreensInv' /\ Top' = s
  BY <1>1, <1>2, <1>3, SetsTop DEF Tables
<1>5. view' = [u \in User |-> view'[u]] /\ \A u \in User : view'[u] = List(u)'
  BY <1>3, Refreshes DEF Tables
<1>6. ListsInv'
  BY <1>3, <1>5 DEF Tables, ListsInv
<1>7. LinkInv'
  BY <1>2, <1>3, <1>4 DEF Tables, LinkInv, SaveInfo
<1>8. ~late' => \A u \in User : Matches(u)'
  BY <1>3 DEF Tables, MatchInv, Awaited, Matches
<1> QED BY <1>4, <1>5, <1>6, <1>7, <1>8, AllMatch

\* Sorting keeps what a list holds.
LEMMA FavoriteKeeps ==
  ASSUME Tables, NEW i, AddRemoveFavorite(i)
  PROVE  Tables'
<1> DEFINE new == [u \in User |-> Sorted(ToSet(List(u)), favorites')]
<1>1. /\ UNCHANGED <<exists, blacklist, late, astray, screens>> /\ RefreshViews(User)
      /\ Replace(User, new) /\ Top.at = "titles"
  BY DEF AddRemoveFavorite, At, history
<1>2. \A u \in User : /\ Holds(new[u], Len(new[u]), u)
                      /\ Live(new[u], Len(new[u])) = Live(memory[u], count[u])
  <2> SUFFICES ASSUME NEW u \in User
               PROVE  /\ Holds(new[u], Len(new[u]), u)
                      /\ Live(new[u], Len(new[u])) = Live(memory[u], count[u])
    OBVIOUS
  <2>1. ToSet(List(u)) = Live(memory[u], count[u]) /\ Live(memory[u], count[u]) \in SUBSET Ours(u)
    BY ListLive DEF Tables, ListsInv, List
  <2>2. new[u] = Sorted(Live(memory[u], count[u]), favorites')
    BY <2>1
  <2> QED BY <2>1, <2>2, SortedHolds
<1> HIDE DEF new
<1>3. /\ memory' = [u \in User |-> memory'[u]] /\ count' = [u \in User |-> count'[u]]
      /\ \A u \in User : Holds(memory'[u], count'[u], u)
      /\ \A u \in User : memory'[u] = new[u] /\ count'[u] = Len(new[u])
  BY <1>1, <1>2, Replaces DEF Tables
<1>4. view' = [u \in User |-> view'[u]] /\ \A u \in User : view'[u] = List(u)'
  BY <1>1, Refreshes DEF Tables
<1>5. ~Top.refresh /\ Top' = Top /\ ScreensInv' /\ LinkInv'
  BY <1>1, TopIs DEF Tables, Top, ScreensInv, LinkInv
<1>6. ListsInv'
  BY <1>1, <1>3, <1>4 DEF Tables, ListsInv
<1>7. ~late' => \A u \in User : Matches(u)'
  <2> SUFFICES ASSUME ~late', NEW u \in User PROVE Matches(u)'
    OBVIOUS
  <2>1. Matches(u)
    BY <1>1, <1>5 DEF Tables, MatchInv, Awaited
  <2>2. Live(memory'[u], count'[u]) = Live(memory[u], count[u])
    BY <1>2, <1>3
  <2> QED BY <1>1, <2>1, <2>2 DEF Matches
<1> QED BY <1>4, <1>5, <1>6, <1>7, AllMatch

\* A panel loads the list it waits for.
LEMMA LoadKeeps ==
  ASSUME Tables, LoadAndRefresh
  PROVE  Tables'
<1>1. IsScreen(Top) /\ Top.user \in User
  BY TopIs DEF Tables
<1> DEFINE s == [Top EXCEPT !.refresh = FALSE]
<1>2. IsScreen(s) /\ s.user = Top.user /\ s.at = Top.at /\ ~s.refresh
  BY <1>1 DEF IsScreen, ScreenFields
<1>3. /\ UNCHANGED <<exists, blacklist, late>> /\ RefreshViews({Top.user})
      /\ astray' = astray \ {Top.user}
      /\ LoadUserData({Top.user}, exists, blacklist, favorites)
      /\ SetTop(s) /\ Top.at \in {"user", "create"} /\ Top.refresh
  BY DEF LoadAndRefresh, Reconciled
<1> HIDE DEF s
<1>4. ScreensInv' /\ Top' = s /\ LinkInv'
  BY <1>1, <1>2, <1>3, SetsTop DEF Tables, LinkInv
<1>5. /\ memory' = [u \in User |-> memory'[u]] /\ count' = [u \in User |-> count'[u]]
      /\ \A u \in User :
           /\ Holds(memory'[u], count'[u], u)
           /\ u = Top.user => Live(memory'[u], count'[u]) = Loadable(u, exists, blacklist)
           /\ u # Top.user => memory'[u] = memory[u] /\ count'[u] = count[u]
  <2> DEFINE us == {Top.user}
  <2>1. ListsInv /\ exists \in SUBSET Save /\ LoadUserData(us, exists, blacklist, favorites)
    BY <1>3 DEF Tables, ListsInv
  <2>2. \A u : u \in us <=> u = Top.user
    OBVIOUS
  <2> HIDE DEF us
  <2>3. /\ memory' = [u \in User |-> memory'[u]] /\ count' = [u \in User |-> count'[u]]
        /\ \A u \in User :
             /\ Holds(memory'[u], count'[u], u)
             /\ u \in us => Live(memory'[u], count'[u]) = Loadable(u, exists, blacklist)
             /\ u \notin us => memory'[u] = memory[u] /\ count'[u] = count[u]
    BY <2>1, LoadsLists
  <2> QED BY <2>2, <2>3
<1>6. /\ view' = [u \in User |-> view'[u]]
      /\ \A u \in User : /\ u = Top.user => view'[u] = List(u)'
                         /\ u # Top.user => view'[u] = view[u]
  BY <1>3, Refreshes DEF Tables
<1>7. ListsInv'
  BY <1>3, <1>5, <1>6 DEF Tables, ListsInv
<1>8. ASSUME ~late', NEW u \in User PROVE Matches(u)' /\ view'[u] = List(u)'
  <2>1. CASE u = Top.user
    BY <1>3, <1>5, <1>6, <2>1 DEF Matches, Loadable
  <2>2. CASE u # Top.user
    <3>1. Matches(u) /\ view[u] = List(u)
      BY <1>3, <1>8, <2>2 DEF Tables, MatchInv, Awaited
    <3> QED BY <1>3, <1>5, <1>6, <2>2, <3>1 DEF Matches, List
  <2> QED BY <2>1, <2>2
<1> QED BY <1>4, <1>7, <1>8, AllMatch

\* The blacklist panel loads every list.
LEMMA BlacklistEditKeeps ==
  ASSUME Tables, NEW i, RemoveFromBlacklist(i)
  PROVE  Tables'
<1>1. IsScreen(Top) /\ Top.user \in User /\ Top.at = "blacklist" /\ ~Top.refresh
  BY TopIs DEF Tables, RemoveFromBlacklist, At
<1>2. PICK b : SetTop([Top EXCEPT !.black = b])
  BY DEF RemoveFromBlacklist
<1> DEFINE s == [Top EXCEPT !.black = b]
<1>3. IsScreen(s) /\ s.user = Top.user /\ s.at = Top.at /\ ~s.refresh
  BY <1>1 DEF IsScreen, ScreenFields
<1> HIDE DEF s
<1>4. ScreensInv' /\ Top' = s /\ LinkInv'
  BY <1>1, <1>2, <1>3, SetsTop DEF Tables, LinkInv, s
<1>5. /\ UNCHANGED exists /\ RefreshViews(User) /\ LoadUserData(User, exists, blacklist', favorites)
  BY DEF RemoveFromBlacklist
<1>6. /\ memory' = [u \in User |-> memory'[u]] /\ count' = [u \in User |-> count'[u]]
      /\ \A u \in User :
           /\ Holds(memory'[u], count'[u], u)
           /\ Live(memory'[u], count'[u]) = Loadable(u, exists, blacklist')
  BY <1>5, LoadsLists DEF Tables, ListsInv
<1>7. view' = [u \in User |-> view'[u]] /\ \A u \in User : view'[u] = List(u)'
  BY <1>5, Refreshes DEF Tables
<1>8. ListsInv'
  BY <1>5, <1>6, <1>7 DEF Tables, ListsInv
<1>9. \A u \in User : Matches(u)'
  BY <1>5, <1>6 DEF Matches, Loadable
<1> QED BY <1>4, <1>7, <1>8, <1>9, AllMatch

\* An import that creates a save loads the list of the panel's user; the list of the
\* save's own user may be another.
LEMMA ImportKeeps ==
  ASSUME Tables, NEW s \in Save, ImportSaveBackup(s)
  PROVE  Tables'
<1> DEFINE v == Top.user
<1>1. ~Top.refresh /\ Top.at = "import" /\ Top' = Top /\ UNCHANGED <<blacklist, late, screens>>
  BY TopIs DEF Tables, ImportSaveBackup, At, Top
<1>2. ScreensInv' /\ LinkInv'
  BY <1>1 DEF Tables, ScreensInv, LinkInv
<1>3. CASE UNCHANGED <<exists, memory, count, view, astray>>
  <2>1. UNCHANGED <<exists, lists, blacklist, astray>>
    BY <1>1, <1>3 DEF lists
  <2> QED BY <1>1, <1>2, <2>1, Navigates
<1>4. CASE CreateSaveFromMeta(s)
  <2>1. /\ exists' = exists \cup {s} /\ exists' \in SUBSET Save /\ RefreshViews(User)
        /\ LoadUserData({v}, exists', blacklist, favorites)
        /\ astray' = (astray \cup {s.user}) \ {v}
    BY <1>4 DEF CreateSaveFromMeta, Tables, ListsInv
  <2> HIDE DEF v
  <2>2. /\ memory' = [u \in User |-> memory'[u]] /\ count' = [u \in User |-> count'[u]]
        /\ \A u \in User :
             /\ Holds(memory'[u], count'[u], u)
             /\ u = v => Live(memory'[u], count'[u]) = Loadable(u, exists', blacklist)
             /\ u # v => memory'[u] = memory[u] /\ count'[u] = count[u]
    <3> DEFINE us == {v}
    <3>1. \A u : u \in us <=> u = v
      OBVIOUS
    <3>2. ListsInv /\ LoadUserData(us, exists', blacklist, favorites)
      BY <2>1 DEF Tables
    <3> HIDE DEF us
    <3>3. /\ memory' = [u \in User |-> memory'[u]] /\ count' = [u \in User |-> count'[u]]
          /\ \A u \in User :
               /\ Holds(memory'[u], count'[u], u)
               /\ u \in us => Live(memory'[u], count'[u]) = Loadable(u, exists', blacklist)
               /\ u \notin us => memory'[u] = memory[u] /\ count'[u] = count[u]
      BY <2>1, <3>2, LoadsLists
    <3> QED BY <3>1, <3>3
  <2>3. view' = [u \in User |-> view'[u]] /\ \A u \in User : view'[u] = List(u)'
    BY <2>1, Refreshes DEF Tables
  <2>4. ListsInv'
    BY <2>1, <2>2, <2>3 DEF ListsInv
  <2>5. ASSUME ~late', NEW u \in User PROVE Matches(u)'
    <3>1. CASE u = v
      BY <1>1, <2>2, <3>1 DEF Matches, Loadable
    <3>2. CASE u # v
      <4>1. Matches(u)
        BY <1>1, <2>5 DEF Tables, MatchInv, Awaited
      <4>2. Live(memory'[u], count'[u]) \subseteq exists'
        BY <2>1, <2>2, <3>2, <4>1 DEF Matches
      <4>3. u \notin astray' => u \notin astray /\ u # s.user
        BY <2>1, <3>2
      <4>4. u # s.user => Loadable(u, exists', blacklist) = Loadable(u, exists, blacklist)
        <5>1. \A r \in {s} : r.user = s.user
          OBVIOUS
        <5>2. u # s.user => Loadable(u, exists \cup {s}, blacklist) = Loadable(u, exists, blacklist)
          BY <5>1 DEF Loadable
        <5> QED BY <2>1, <5>2
      <4> QED BY <1>1, <2>2, <3>2, <4>1, <4>2, <4>3, <4>4 DEF Matches
    <3> QED BY <3>1, <3>2
  <2> QED BY <1>2, <2>3, <2>4, <2>5, AllMatch
<1> QED BY <1>3, <1>4 DEF ImportSaveBackup

\* Only the main menu is left.
LEMMA MenuScreen ==
  ASSUME User # {}, screens' = <<MainMenu>>
  PROVE  ScreensInv' /\ Top'.at = "main" /\ ~Top'.refresh
<1>1. IsScreen(MainMenu) /\ MainMenu.user \in User /\ MainMenu.at = "main" /\ ~MainMenu.refresh
  <2>1. (CHOOSE u \in User : TRUE) \in User
    OBVIOUS
  <2> QED BY <2>1, NewScreen DEF MainMenu
<1> DEFINE m == MainMenu
<1> HIDE DEF m
<1>2. screens' = [i \in 1..1 |-> m] /\ Len(screens') = 1 /\ screens'[1] = m
  BY DEF m
<1>3. Top' = m
  BY <1>2 DEF Top, Last
<1> QED BY <1>1, <1>2, <1>3 DEF ScreensInv, m

\* A start loads every list.
LEMMA RestartKeeps ==
  ASSUME Tables, Restart \/ Crash
  PROVE  Tables'
<1>1. /\ UNCHANGED <<exists, blacklist, late>> /\ RefreshViews(User)
      /\ LoadUserData(User, exists, blacklist, favorites) /\ screens' = <<MainMenu>>
  BY DEF Restart, Crash
<1>2. User # {}
  BY TopIs DEF Tables
<1>3. ScreensInv' /\ LinkInv'
  BY <1>1, <1>2, MenuScreen DEF LinkInv
<1>4. /\ memory' = [u \in User |-> memory'[u]] /\ count' = [u \in User |-> count'[u]]
      /\ \A u \in User :
           /\ Holds(memory'[u], count'[u], u)
           /\ Live(memory'[u], count'[u]) = Loadable(u, exists, blacklist)
  BY <1>1, LoadsLists DEF Tables, ListsInv
<1>5. view' = [u \in User |-> view'[u]] /\ \A u \in User : view'[u] = List(u)'
  BY <1>1, Refreshes DEF Tables
<1>6. ListsInv'
  BY <1>1, <1>4, <1>5 DEF Tables, ListsInv
<1>7. \A u \in User : Matches(u)'
  BY <1>1, <1>4 DEF Matches, Loadable
<1> QED BY <1>3, <1>5, <1>6, <1>7, AllMatch

\* The slot of a title is its first in the list.
LEMMA SlotFound ==
  ASSUME ListsInv, NEW u \in User, NEW t
  PROVE  \/ SlotOf(u, t) = 0 /\ \A s \in Live(memory[u], count[u]) : s.title # t
         \/ /\ SlotOf(u, t) \in 1..count[u] /\ SlotOf(u, t) # 0
            /\ memory[u][SlotOf(u, t)].title = t
<1> DEFINE slots == {i \in 1..count[u] : memory[u][i].title = t}
<1>1. count[u] \in Nat
  BY DEF ListsInv, Holds
<1>2. CASE slots = {}
  BY <1>2 DEF SlotOf, Live
<1>3. CASE slots # {}
  <2>1. slots \in SUBSET Nat
    BY <1>1
  <2>2. PICK k \in slots : \A i \in slots : ~(i < k)
    BY <1>3, <2>1, Least, Zenon
  <2>3. \A i \in slots : k <= i
    BY <1>1, <2>2
  <2>4. SlotOf(u, t) = CHOOSE i \in slots : \A j \in slots : i <= j
    BY <1>3 DEF SlotOf
  <2>5. SlotOf(u, t) \in slots
    <3> HIDE DEF slots
    <3> QED BY <2>2, <2>3, <2>4
  <2> QED BY <1>1, <2>5
<1> QED BY <1>2, <1>3

\* The panel of a title, before an option closes it.
LEMMA TitlePanel ==
  ASSUME Tables, TitleOption
  PROVE  /\ IsScreen(Top) /\ Top.user \in User /\ Top.at = "title" /\ ~Top.refresh
         /\ ~session.open /\ (late => late')
         /\ Top.slot \in 1..Len(memory[Top.user]) /\ SaveInfo \in Ours(Top.user)
         /\ ~late' => /\ ~late /\ Top.slot \in 1..count[Top.user] /\ SaveInfo = Top.save
                      /\ \A u \in User : Matches(u) /\ view[u] = List(u)
<1>1. /\ Top.at = "title" /\ ~Top.refresh /\ Top.panel = "open" /\ ~session.open
      /\ (late => late') /\ (~late' => ~Top.exit)
  BY DEF TitleOption, At
<1>2. IsScreen(Top) /\ Top.user \in User
  BY TopIs DEF Tables
<1>3. Holds(memory[Top.user], count[Top.user], Top.user)
  BY <1>2 DEF Tables, ListsInv
<1>4. Top.slot \in 1..Len(memory[Top.user]) /\ SaveInfo \in Ours(Top.user)
  BY <1>1, <1>3 DEF Tables, LinkInv, Holds, SaveInfo
<1>5. ~late' => /\ ~late /\ Top.slot \in 1..count[Top.user] /\ SaveInfo = Top.save
                /\ \A u \in User : Matches(u) /\ view[u] = List(u)
  BY <1>1, <1>3, <1>4 DEF Tables, LinkInv, MatchInv, Awaited, Holds
<1> QED BY <1>1, <1>2, <1>4, <1>5

\* What close_on_update, and refresh_required, leave of the panel.
LEMMA PanelCloses ==
  ASSUME Tables, TitleOption, NEW s, SetTop(s),
         s = CloseOnUpdate(Top) \/ s = CloseOnUpdate([Top EXCEPT !.refresh = TRUE])
  PROVE  /\ ScreensInv' /\ Top' = s /\ s.at = "title" /\ s.user = Top.user
         /\ s.slot = Top.slot /\ s.save = Top.save /\ s.exit
         /\ s = CloseOnUpdate(Top) => ~s.refresh
         /\ s = CloseOnUpdate([Top EXCEPT !.refresh = TRUE]) => s.refresh
<1>1. IsScreen(Top) /\ Top.at = "title" /\ ~Top.refresh
  BY TitlePanel
<1>2. /\ IsScreen(s) /\ s.user = Top.user /\ s.at = "title"
      /\ s.slot = Top.slot /\ s.save = Top.save /\ s.exit
      /\ s = CloseOnUpdate(Top) => ~s.refresh
      /\ s = CloseOnUpdate([Top EXCEPT !.refresh = TRUE]) => s.refresh
  BY <1>1 DEF IsScreen, ScreenFields, CloseOnUpdate
<1> QED BY <1>1, <1>2, SetsTop DEF Tables

\* Hiding a title erases its first save from every list that has it, and showing one
\* again lists none: where there are others, the list is led astray.
LEMMA BlacklistTitleKeeps ==
  ASSUME Tables, BlacklistTitle
  PROVE  Tables'
<1> DEFINE t == Top.save.title
           s == CloseOnUpdate([Top EXCEPT !.refresh = TRUE])
<1>1. /\ TitleOption /\ SetTop(s) /\ UNCHANGED <<exists, view>>
      /\ blacklist' = IF t \in blacklist THEN blacklist \ {t} ELSE blacklist \cup {t}
      /\ memory' = [u \in User |-> IF SlotOf(u, t) = 0 THEN memory[u]
                                   ELSE Erased(memory[u], count[u], SlotOf(u, t))]
      /\ count' = [u \in User |-> IF SlotOf(u, t) = 0 THEN count[u] ELSE count[u] - 1]
      /\ astray' = astray \cup
            {u \in User : IF t \in blacklist THEN \E r \in exists : r.user = u /\ r.title = t
                          ELSE \E i \in 1..count[u] : i # SlotOf(u, t) /\ memory[u][i].title = t}
  BY DEF BlacklistTitle
<1>2. /\ ScreensInv' /\ Top' = s /\ s.at = "title" /\ s.user = Top.user
      /\ s.slot = Top.slot /\ s.save = Top.save /\ s.exit /\ s.refresh
  BY <1>1, PanelCloses
<1> HIDE DEF s
<1>3. ASSUME NEW u \in User
      PROVE  /\ Holds(memory'[u], count'[u], u) /\ Len(memory'[u]) = Len(memory[u])
             /\ Live(memory'[u], count'[u]) \subseteq Live(memory[u], count[u])
             /\ \A r \in Live(memory[u], count[u]) : r.title # t => r \in Live(memory'[u], count'[u])
             /\ (\A i \in 1..count[u] : i # SlotOf(u, t) => memory[u][i].title # t) =>
                    \A r \in Live(memory'[u], count'[u]) : r.title # t
  <2>1. Holds(memory[u], count[u], u)
    BY DEF Tables, ListsInv
  <2> DEFINE slot == SlotOf(u, t)
  <2>3. CASE slot = 0
    <3>1. memory'[u] = memory[u] /\ count'[u] = count[u]
      BY <1>1, <2>3
    <3>2. \A r \in Live(memory[u], count[u]) : r.title # t
      <4>1. ~(slot # 0)
        BY <2>3
      <4> QED BY <4>1, SlotFound DEF Tables
    <3> QED BY <2>1, <3>1, <3>2
  <2>4. CASE slot # 0
    <3>1. memory'[u] = Erased(memory[u], count[u], slot) /\ count'[u] = count[u] - 1
      BY <1>1, <2>4
    <3>2. slot \in 1..count[u] /\ memory[u][slot].title = t
      BY <2>4, SlotFound DEF Tables
    <3> HIDE DEF slot
    <3>3. /\ Holds(memory'[u], count'[u], u) /\ Len(memory'[u]) = Len(memory[u])
          /\ Live(memory'[u], count'[u]) = Live(memory[u], count[u]) \ {memory[u][slot]}
      BY <2>1, <3>1, <3>2, ErasedHolds
    <3>4. ASSUME \A i \in 1..count[u] : i # slot => memory[u][i].title # t,
                 NEW r \in Live(memory[u], count[u]), r # memory[u][slot]
          PROVE  r.title # t
      BY <3>4 DEF Live
    <3> QED BY <3>2, <3>3, <3>4 DEF slot
  <2> QED BY <2>3, <2>4
<1>4. ListsInv'
  <2>1. memory' = [u \in User |-> memory'[u]] /\ count' = [u \in User |-> count'[u]]
    BY <1>1
  <2> QED BY <1>1, <1>3, <2>1 DEF Tables, ListsInv
<1>5. LinkInv'
  <2>1. Top.save \in Save /\ Top.slot \in 1..Len(memory[Top.user]) /\ ~session.open /\ Top.user \in User
    BY <1>1, TitlePanel DEF Tables, LinkInv
  <2>2. UNCHANGED session
    BY DEF BlacklistTitle, UnchangedFiles, panes
  <2> QED BY <1>2, <1>3, <2>1, <2>2 DEF LinkInv
<1>6. ASSUME ~late', NEW u \in User PROVE Matches(u)'
  <2>1. Matches(u) /\ UNCHANGED exists
    BY <1>1, <1>6, TitlePanel
  <2>2. Live(memory'[u], count'[u]) \subseteq exists'
    BY <1>3, <2>1 DEF Matches
  <2>3. ASSUME u \notin astray'
        PROVE  Live(memory'[u], count'[u]) = Loadable(u, exists, blacklist')
    <3>1. u \notin astray /\ Live(memory[u], count[u]) = Loadable(u, exists, blacklist)
      BY <1>1, <2>1, <2>3 DEF Matches
    <3>2. CASE t \in blacklist
      <4>1. \A r \in exists : r.user = u => r.title # t
        BY <1>1, <2>3, <3>2
      <4>2. \A r \in Loadable(u, exists, blacklist) : r.title # t
        BY <3>2 DEF Loadable
      <4>3. Live(memory'[u], count'[u]) = Live(memory[u], count[u])
        BY <1>3, <3>1, <4>2
      <4>4. blacklist' = blacklist \ {t}
        BY <1>1, <3>2
      <4>5. Loadable(u, exists, blacklist') = Loadable(u, exists, blacklist)
        BY <4>1, <4>4 DEF Loadable
      <4> QED BY <3>1, <4>3, <4>5
    <3>3. CASE t \notin blacklist
      <4>1. \A i \in 1..count[u] : i # SlotOf(u, t) => memory[u][i].title # t
        BY <1>1, <2>3, <3>3
      <4>2. Live(memory'[u], count'[u]) = {r \in Live(memory[u], count[u]) : r.title # t}
        BY <1>3, <4>1
      <4>3. blacklist' = blacklist \cup {t}
        BY <1>1, <3>3
      <4>4. Loadable(u, exists, blacklist') = {r \in Loadable(u, exists, blacklist) : r.title # t}
        BY <4>3 DEF Loadable
      <4> QED BY <3>1, <4>2, <4>4
    <3> QED BY <3>2, <3>3
  <2> QED BY <2>1, <2>2, <2>3 DEF Matches
<1>7. MatchInv'
  BY <1>2, <1>6 DEF MatchInv
<1> QED BY <1>2, <1>4, <1>5, <1>7 DEF Tables

\* Deleting a save erases its entry.
LEMMA DeleteSaveKeeps ==
  ASSUME Tables, DeleteSaveFromSystem
  PROVE  Tables'
<1> DEFINE v == Top.user
           s == CloseOnUpdate(Top)
<1>1. /\ TitleOption /\ SetTop(s) /\ RefreshViews({v}) /\ UNCHANGED <<blacklist, astray, session>>
      /\ exists' = exists \ {SaveInfo}
      /\ IF Top.slot > count[v] THEN UNCHANGED <<memory, count>>
         ELSE /\ memory' = [memory EXCEPT ![v] = Erased(@, count[v], Top.slot)]
              /\ count' = [count EXCEPT ![v] = @ - 1]
  BY DEF DeleteSaveFromSystem, panes
<1>2. /\ ScreensInv' /\ Top' = s /\ s.at = "title" /\ s.user = Top.user
      /\ s.slot = Top.slot /\ s.save = Top.save /\ s.exit /\ ~s.refresh
  BY <1>1, PanelCloses
<1> HIDE DEF s
<1>3. /\ v \in User /\ ~session.open /\ Top.slot \in 1..Len(memory[v])
      /\ SaveInfo \in Ours(v) /\ (late => late')
      /\ ~late' => /\ ~late /\ Top.slot \in 1..count[v] /\ SaveInfo = Top.save
                   /\ \A u \in User : Matches(u) /\ view[u] = List(u)
  BY <1>1, TitlePanel
<1>4. Holds(memory[v], count[v], v) /\ count[v] \in Nat /\ Len(memory[v]) \in Nat
  BY <1>3 DEF Tables, ListsInv, Holds
<1>5. /\ memory' = [u \in User |-> memory'[u]] /\ count' = [u \in User |-> count'[u]]
      /\ \A u \in User : u # v => memory'[u] = memory[u] /\ count'[u] = count[u]
      /\ Holds(memory'[v], count'[v], v) /\ Len(memory'[v]) = Len(memory[v])
      /\ Top.slot \in 1..count[v] => Live(memory'[v], count'[v]) = Live(memory[v], count[v]) \ {SaveInfo}
  <2>1. CASE Top.slot > count[v]
    BY <1>1, <1>3, <1>4, <2>1 DEF Tables, ListsInv
  <2>2. CASE ~(Top.slot > count[v])
    <3>1. Top.slot \in 1..count[v]
      BY <1>3, <1>4, <2>2
    <3>2. /\ Holds(Erased(memory[v], count[v], Top.slot), count[v] - 1, v)
          /\ Len(Erased(memory[v], count[v], Top.slot)) = Len(memory[v])
          /\ Live(Erased(memory[v], count[v], Top.slot), count[v] - 1)
                = Live(memory[v], count[v]) \ {memory[v][Top.slot]}
      BY <1>4, <3>1, ErasedHolds
    <3>3. /\ memory' = [memory EXCEPT ![v] = Erased(@, count[v], Top.slot)]
          /\ count' = [count EXCEPT ![v] = @ - 1]
      BY <1>1, <2>2
    <3>4. /\ memory = [u \in User |-> memory[u]] /\ count = [u \in User |-> count[u]]
      BY DEF Tables, ListsInv
    <3>5. memory'[v] = Erased(memory[v], count[v], Top.slot) /\ count'[v] = count[v] - 1
      BY <1>3, <3>3, <3>4
    <3>6. /\ memory' = [u \in User |-> memory'[u]] /\ count' = [u \in User |-> count'[u]]
          /\ \A u \in User : u # v => memory'[u] = memory[u] /\ count'[u] = count[u]
      BY <3>3, <3>4
    <3> QED BY <3>2, <3>5, <3>6 DEF SaveInfo
  <2> QED BY <2>1, <2>2
<1>6. /\ view' = [u \in User |-> view'[u]] 
      /\ \A u \in User : /\ u = v => view'[u] = List(u)'
                         /\ u # v => view'[u] = view[u]
  BY <1>1, <1>3, Refreshes DEF Tables
<1> HIDE DEF v
<1>7. ListsInv'
  <2>1. \A u \in User : Holds(memory'[u], count'[u], u)
    BY <1>5 DEF Tables, ListsInv
  <2>2. exists' \subseteq Save
    BY <1>1 DEF Tables, ListsInv
  <2> QED BY <1>5, <1>6, <2>1, <2>2 DEF ListsInv
<1>8. LinkInv'
  <2>1. Top.save \in Save
    BY <1>1, TitlePanel DEF Tables, LinkInv
  <2> QED BY <1>1, <1>2, <1>3, <1>5, <2>1 DEF LinkInv, v
<1>9. ASSUME ~late', NEW u \in User PROVE Matches(u)' /\ view'[u] = List(u)'
  <2>1. Matches(u) /\ view[u] = List(u) /\ Top.slot \in 1..count[v] /\ UNCHANGED blacklist
    BY <1>1, <1>3, <1>9
  <2>2. CASE u = v
    <3>1. Loadable(u, exists', blacklist) = Loadable(u, exists, blacklist) \ {SaveInfo}
      BY <1>1 DEF Loadable
    <3> QED BY <1>1, <1>5, <1>6, <2>1, <2>2, <3>1 DEF Matches
  <2>3. CASE u # v
    <3>1. \A r \in {SaveInfo} : r.user = v
      BY <1>3 DEF Ours
    <3>2. Loadable(u, exists \ {SaveInfo}, blacklist) = Loadable(u, exists, blacklist)
      BY <2>3, <3>1 DEF Loadable
    <3>3. Live(memory[u], count[u]) \subseteq exists \ {SaveInfo}
      <4>1. Live(memory[u], count[u]) \in SUBSET Ours(u)
        BY ListLive DEF Tables, ListsInv
      <4>2. \A r \in Ours(u) : r.user = u
        BY DEF Ours
      <4> QED BY <2>1, <2>3, <3>1, <4>1, <4>2 DEF Matches
    <3> QED BY <1>1, <1>5, <1>6, <2>1, <2>3, <3>2, <3>3 DEF Matches, List
  <2> QED BY <2>2, <2>3
<1> QED BY <1>2, <1>7, <1>8, <1>9, AllMatch

\* A panel of a user has changed which of its saves exist, and waits to load.
LEMMA Awaits ==
  ASSUME Tables, ~Top.refresh, Top.at \in {"user", "create"}, SetTop([Top EXCEPT !.refresh = TRUE]),
         UNCHANGED <<view, blacklist, late, astray>>, NEW saves, \A r \in saves : r.user = Top.user,
         exists' = exists \cup saves \/ exists' = exists \ saves, exists' \subseteq Save,
         memory' = [u \in User |-> memory'[u]], count' = [u \in User |-> count'[u]],
         Holds(memory'[Top.user], count'[Top.user], Top.user),
         \A u \in User : u # Top.user => memory'[u] = memory[u] /\ count'[u] = count[u]
  PROVE  Tables'
<1> DEFINE s == [Top EXCEPT !.refresh = TRUE]
<1>1. IsScreen(Top) /\ Top.user \in User
  BY TopIs DEF Tables
<1>2. IsScreen(s) /\ s.user = Top.user /\ s.at = Top.at /\ s.refresh
  BY <1>1 DEF IsScreen, ScreenFields
<1>3. SetTop(s)
  OBVIOUS
<1> HIDE DEF s
<1>4. ScreensInv' /\ Top' = s
  BY <1>1, <1>2, <1>3, SetsTop DEF Tables
<1>5. LinkInv'
  BY <1>2, <1>4 DEF LinkInv
<1>6. ListsInv'
  <2>1. \A u \in User : Holds(memory'[u], count'[u], u)
    BY DEF Tables, ListsInv
  <2>2. view' = [u \in User |-> view'[u]]
    BY DEF Tables, ListsInv
  <2> QED BY <2>1, <2>2 DEF ListsInv
<1>7. ASSUME ~late', NEW u \in User, u # Top.user PROVE Matches(u)' /\ view'[u] = List(u)'
  <2>1. Matches(u) /\ view[u] = List(u)
    BY <1>7 DEF Tables, MatchInv, Awaited
  <2>2. Loadable(u, exists', blacklist) = Loadable(u, exists, blacklist)
    BY <1>7 DEF Loadable
  <2>3. Live(memory[u], count[u]) \subseteq exists'
    <3>1. Live(memory[u], count[u]) \in SUBSET Ours(u)
      BY ListLive DEF Tables, ListsInv
    <3>2. \A r \in Ours(u) : r.user = u
      BY DEF Ours
    <3> QED BY <1>7, <2>1, <3>1, <3>2 DEF Matches
  <2> QED BY <1>7, <2>1, <2>2, <2>3 DEF Matches, List
<1>8. MatchInv'
  <2>1. \A u \in User : u = Top.user => Awaited(u)'
    BY <1>2, <1>4 DEF Awaited
  <2> QED BY <1>7, <2>1 DEF MatchInv
<1> QED BY <1>4, <1>5, <1>6, <1>8 DEF Tables

\* Creating saves leaves the panel waiting.
LEMMA CreateKeepsTables ==
  ASSUME Tables, CreateAllSaveData \/ \E s \in Save : CreateSaveData(s)
  PROVE  Tables'
<1>1. PICK new : /\ Created(new) /\ new \subseteq CanCreate(Top.user)
                 /\ ~Top.refresh /\ Top.at \in {"user", "create"}
  <2>1. CASE CreateAllSaveData
    BY <2>1 DEF CreateAllSaveData, UserOption, At
  <2>2. ASSUME NEW s \in Save, CreateSaveData(s)
        PROVE  Created({s}) /\ {s} \subseteq CanCreate(Top.user) /\ ~Top.refresh /\ Top.at = "create"
    BY <2>2 DEF CreateSaveData, At
  <2> QED BY <2>1, <2>2
<1>2. /\ exists' = exists \cup new /\ SetTop([Top EXCEPT !.refresh = TRUE])
      /\ UNCHANGED <<memory, count, view, blacklist, late, astray>>
  BY <1>1 DEF Created, lists, history
<1>3. (\A r \in new : r.user = Top.user) /\ exists' \subseteq Save
  BY <1>1, <1>2 DEF CanCreate, Tables, ListsInv
<1>4. Top.user \in User
  BY TopIs DEF Tables
<1>5. /\ memory' = [u \in User |-> memory'[u]] /\ count' = [u \in User |-> count'[u]]
      /\ Holds(memory'[Top.user], count'[Top.user], Top.user)
      /\ \A u \in User : u # Top.user => memory'[u] = memory[u] /\ count'[u] = count[u]
  BY <1>2, <1>4 DEF Tables, ListsInv
<1> QED BY <1>1, <1>2, <1>3, <1>5, Awaits

\* Deleting all saves of a user erases entries by the pointers taken before, which
\* leaves a list of the user, and the panel waiting to load it.
LEMMA DeleteAllKeeps ==
  ASSUME Tables, DeleteAllSaveData
  PROVE  Tables'
<1> DEFINE v == Top.user
           slots == {i \in 1..count[v] : ~memory[v][i].system /\ memory[v][i] \in exists}
<1>1. PICK kept \in SUBSET slots :
         LET gone == slots \ kept
             after == ErasedAll(memory[v], count[v], gone)
         IN  /\ exists' = exists \ {memory[v][i] : i \in gone}
             /\ memory' = [memory EXCEPT ![v] = after[1]]
             /\ count' = [count EXCEPT ![v] = after[2]]
  BY DEF DeleteAllSaveData
<1>2. /\ ~Top.refresh /\ Top.at = "user" /\ SetTop([Top EXCEPT !.refresh = TRUE])
      /\ UNCHANGED <<view, blacklist, late, astray>>
  BY DEF DeleteAllSaveData, UserOption, At, history
<1>3. v \in User /\ Holds(memory[v], count[v], v)
  BY TopIs DEF Tables, ListsInv
<1> DEFINE gone == slots \ kept
           after == ErasedAll(memory[v], count[v], gone)
           saves == {memory[v][i] : i \in gone}
<1>4. \A r \in saves : r.user = v
  BY <1>3 DEF Holds, Ours
<1>5. Holds(after[1], after[2], v)
  BY <1>3, ErasedAllHolds
<1>6. /\ exists' = exists \ saves
      /\ memory' = [memory EXCEPT ![v] = after[1]] /\ count' = [count EXCEPT ![v] = after[2]]
  BY <1>1
<1>7. exists' \subseteq Save
  BY <1>6 DEF Tables, ListsInv
<1> HIDE DEF saves, after, slots
<1>8. /\ memory' = [u \in User |-> memory'[u]] /\ count' = [u \in User |-> count'[u]]
      /\ Holds(memory'[v], count'[v], v)
      /\ \A u \in User : u # v => memory'[u] = memory[u] /\ count'[u] = count[u]
  BY <1>3, <1>5, <1>6 DEF Tables, ListsInv
<1> QED BY <1>2, <1>4, <1>6, <1>7, <1>8, Awaits

\* The lists as loaded at the start.
LEMMA InitTables == Init => Tables
<1> SUFFICES ASSUME Init PROVE Tables
  OBVIOUS
<1>0. User # {}
  BY LibraryAssumption
<1>1. /\ memory = [u \in User |-> LoadedList(u, exists, {}, {})]
      /\ count = [u \in User |-> Len(memory[u])] /\ view = memory /\ screens = <<MainMenu>>
      /\ exists \in AtFirst /\ blacklist = {}
  BY DEF Init
<1>2. exists \subseteq Save
  BY <1>1, LibraryAssumption
<1>3. ASSUME NEW u \in User
      PROVE  /\ Holds(memory[u], count[u], u) /\ view[u] = List(u)
             /\ Live(memory[u], count[u]) = Loadable(u, exists, blacklist)
  <2>1. memory[u] = Sorted(Loadable(u, exists, {}), {}) /\ count[u] = Len(memory[u]) /\ view[u] = memory[u]
    BY <1>1 DEF LoadedList
  <2>2. Loadable(u, exists, {}) \in SUBSET Ours(u)
    BY <1>2, LoadableOurs
  <2>3. Holds(memory[u], count[u], u) /\ Live(memory[u], count[u]) = Loadable(u, exists, blacklist)
    BY <1>1, <2>1, <2>2, SortedHolds
  <2>4. SubSeq(memory[u], 1, Len(memory[u])) = memory[u]
    BY <2>3 DEF Holds
  <2> QED BY <2>1, <2>3, <2>4 DEF List
<1>4. /\ memory = [u \in User |-> memory[u]] /\ count = [u \in User |-> count[u]]
      /\ view = [u \in User |-> view[u]]
  BY <1>1
<1>5. ScreensInv /\ Top.at = "main" /\ ~Top.refresh
  <2>1. IsScreen(MainMenu) /\ MainMenu.user \in User /\ MainMenu.at = "main" /\ ~MainMenu.refresh
    <3>1. (CHOOSE u \in User : TRUE) \in User
      BY <1>0
    <3> QED BY <3>1, NewScreen DEF MainMenu
  <2> DEFINE m == MainMenu
  <2> HIDE DEF m
  <2>2. screens = [i \in 1..1 |-> m] /\ Len(screens) = 1 /\ screens[1] = m
    BY <1>1 DEF m
  <2>3. Top = m
    BY <2>2 DEF Top, Last
  <2> QED BY <2>1, <2>2, <2>3 DEF ScreensInv, m
<1> QED BY <1>2, <1>3, <1>4, <1>5 DEF Tables, ListsInv, LinkInv, MatchInv, Matches,
   Loadable

\* Every step of the library keeps the lists and the screens together.
LEMMA TablesKeep ==
  ASSUME Tables, FileInv, [Next]_vars
  PROVE  Tables'
<1>1. SessionInv /\ TreesInv
  BY DEF FileInv
<1>a. ASSUME NEW u \in User, OpenTitles(u) \/ OpenUserOptions(u) PROVE Tables'
  BY <1>a, NavigationKeeps
<1>b. CASE OpenBlacklist \/ LeaveTitles \/ DeleteSaveFails \/ OpenCreate \/ OpenImport
           \/ ClosePanel \/ PanelSlides \/ LeavePanel
  BY <1>b, NavigationKeeps
<1>c. ASSUME NEW i \in 1..Cardinality(Save),
             OpenTitleOptions(i) \/ AddRemoveFavorite(i) \/ RemoveFromBlacklist(i)
      PROVE  Tables'
  BY <1>c, NavigationKeeps, FavoriteKeeps, BlacklistEditKeeps
<1>d. CASE RefreshAllViews \/ BlacklistTitle \/ DeleteSaveFromSystem \/ LoadAndRefresh
           \/ DeleteAllSaveData \/ Restart \/ Crash
  BY <1>d, RefreshAllKeeps, BlacklistTitleKeeps, DeleteSaveKeeps, LoadKeeps, DeleteAllKeeps,
     RestartKeeps
<1>e. CASE PushFileMode \/ ResetSaveData \/ FileModeStep \/ UNCHANGED vars
  BY <1>1, <1>e, FilesKeepTables
<1>f. ASSUME NEW s \in Save, CreateSaveData(s) \/ ImportSaveBackup(s) PROVE Tables'
  BY <1>f, CreateKeepsTables, ImportKeeps
<1>g. CASE CreateAllSaveData
  BY <1>g, CreateKeepsTables
<1>h. ASSUME NEW f \in Partition \cup {SdCard}, BrowsePartition(f) PROVE Tables'
  BY <1>1, <1>h, FilesKeepTables
<1> QED BY <1>a, <1>b, <1>c, <1>d, <1>e, <1>f, <1>g, <1>h DEF Next

\* What an archive adds to a save.
WithImport(t) == [t EXCEPT !.files = @ \cup {<<n>> : n \in Name}]
\* An import writes to one save.
WritesImport(into) ==
    /\ tree' = [tree EXCEPT ![into] = WithImport(tree[into])]
    /\ committed' = [committed EXCEPT ![into] = WithImport(tree[into])]

\* The save an import writes is one of the panel's user, and no system save.
LEMMA ImportWrites ==
  ASSUME Tables, Tables', NEW s \in Save, ImportSaveBackup(s)
  PROVE  \/ UNCHANGED <<tree, committed>>
         \/ \E into \in Ours(Top.user) : ~into.system /\ WritesImport(into)
<1> DEFINE u == Top.user
           slots == {i \in 1..count'[u] : memory'[u][i].title = s.title}
           k == CHOOSE i \in slots : \A j \in slots : i <= j
           into == memory'[u][k]
<1>1. CASE s.system \/ slots = {} \/ \E n \in Name : <<n>> \in tree[into].dirs
  BY <1>1 DEF ImportSaveBackup
<1>2. CASE ~(s.system \/ slots = {} \/ \E n \in Name : <<n>> \in tree[into].dirs)
  <2>1. WritesImport(into) /\ ~s.system /\ slots # {}
    BY <1>2 DEF ImportSaveBackup, WritesImport, WithImport
  <2>2. Holds(memory'[u], count'[u], u)
    BY TopIs DEF Tables, ListsInv
  <2>3. slots \in SUBSET Nat
    BY <2>2 DEF Holds
  <2>4. PICK j \in slots : \A i \in slots : ~(i < j)
    BY <2>1, <2>3, Least, Zenon
  <2>5. \A i \in slots : j <= i
    BY <2>3, <2>4
  <2> HIDE DEF slots
  <2>6. k \in slots
    BY <2>4, <2>5
  <2> HIDE DEF k
  <2>7. into.title = s.title /\ into \in Ours(u)
    BY <2>2, <2>6 DEF slots, Holds
  <2>8. ~into.system
    BY <2>1, <2>7, LibraryAssumption DEF Ours
  <2> QED BY <2>1, <2>7, <2>8
<1> QED BY <1>1, <1>2

\* The screens of the library leave the file mode alone, or act on saves while it is closed.
LEMMA LibraryKeeps ==
  ASSUME Tables, FileInv, Tables', [Next]_vars
  PROVE  FileInv'
<1>1. exists \subseteq Save /\ (\A s \in Save : s \in FileSystem /\ Rooted(tree[s]))
  BY DEF FileInv, TreesInv, FileSystem
<1>2. Rooted(EmptyTree)
  BY DEF Rooted, EmptyTree
<1>a. CASE UNCHANGED <<exists, tree, committed, panes>>
  BY <1>a, <1>1, SavesChange
<1>b. CASE ResetSaveData
  <2>1. SaveInfo \in Save /\ ~session.open /\ UNCHANGED <<panes, exists>>
    BY <1>b, <1>1 DEF ResetSaveData, TitleOption, At
  <2>2. PICK left : /\ <<>> \in left
                    /\ tree' = [tree EXCEPT ![SaveInfo] =
                           Without(tree[SaveInfo], Below(tree[SaveInfo], <<>>) \ left)]
                    /\ committed' = [committed EXCEPT ![SaveInfo] =
                           Without(tree[SaveInfo], Below(tree[SaveInfo], <<>>) \ left)]
    BY <1>b DEF ResetSaveData
  <2> DEFINE t == Without(tree[SaveInfo], Below(tree[SaveInfo], <<>>) \ left)
  <2>3. Rooted(t)
    BY <1>1, <2>1, <2>2 DEF Rooted, Without
  <2> HIDE DEF t
  <2>4. tree' = [tree EXCEPT ![SaveInfo] = t] /\ committed' = [committed EXCEPT ![SaveInfo] = t]
    BY <2>2 DEF t
  <2> QED BY <1>1, <2>1, <2>3, <2>4, SaveBecomes
<1>c. CASE DeleteSaveFromSystem
  <2>1. /\ SaveInfo \in Save /\ ~session.open /\ UNCHANGED panes /\ exists' \subseteq Save
        /\ tree' = [tree EXCEPT ![SaveInfo] = EmptyTree]
        /\ committed' = [committed EXCEPT ![SaveInfo] = EmptyTree]
    BY <1>c, <1>1 DEF DeleteSaveFromSystem, TitleOption, At
  <2> QED BY <1>2, <2>1, SaveBecomes
<1>d. CASE CreateAllSaveData \/ \E s \in Save : CreateSaveData(s)
  <2>1. \A new : new \subseteq CanCreate(Top.user) => exists \cup new \subseteq Save
    BY <1>1 DEF CanCreate
  <2>2. exists' \subseteq Save /\ UNCHANGED <<tree, committed, panes>>
    BY <1>d, <2>1 DEF CreateAllSaveData, CreateSaveData, Created
  <2> QED BY <2>2, SavesChange
<1>e. CASE DeleteAllSaveData
  <2>1. PICK saves : /\ exists' = exists \ saves
                     /\ tree' = [f \in FileSystem |-> IF f \in saves THEN EmptyTree ELSE tree[f]]
                     /\ committed' = [s \in Save |-> IF s \in saves THEN EmptyTree ELSE committed[s]]
    BY <1>e DEF DeleteAllSaveData
  <2>2. ~session.open /\ UNCHANGED panes
    BY <1>e DEF DeleteAllSaveData, UserOption, At
  <2>3. Committed
    BY <1>1, <1>2, <2>1, <2>2 DEF FileInv, TreesInv, ClosedInv, Committed
  <2> QED BY <2>3, CommittedKeeps
<1>f. ASSUME NEW s \in Save, ImportSaveBackup(s) PROVE FileInv'
  <2>1. ~session.open /\ UNCHANGED panes /\ exists' \subseteq Save
    BY <1>1, <1>f DEF ImportSaveBackup, CreateSaveFromMeta, At
  <2>2. CASE UNCHANGED <<tree, committed>>
    BY <2>1, <2>2, SavesChange
  <2>3. ASSUME NEW into \in Save, WritesImport(into) PROVE FileInv'
    <3> DEFINE full == WithImport(tree[into])
    <3>1. Rooted(full)
      <4>1. PICK ds, fs : tree[into] = [dirs |-> ds, files |-> fs] /\ <<>> \in ds
        BY <1>1 DEF Rooted
      <4> DEFINE added == {<<n>> : n \in Name}
      <4>2. WithImport([dirs |-> ds, files |-> fs]) = [dirs |-> ds, files |-> fs \cup added]
        <5> HIDE DEF added
        <5>1. WithImport([dirs |-> ds, files |-> fs]) = [[dirs |-> ds, files |-> fs] EXCEPT !.files = @ \cup added]
          BY DEF WithImport, added
        <5> QED BY <5>1
      <4> HIDE DEF added
      <4>3. full = [dirs |-> ds, files |-> fs \cup added]
        BY <4>1, <4>2
      <4> HIDE DEF full
      <4> QED BY <4>1, <4>3 DEF Rooted
    <3>2. tree' = [tree EXCEPT ![into] = full] /\ committed' = [committed EXCEPT ![into] = full]
      BY <2>3 DEF WritesImport
    <3> HIDE DEF full
    <3> QED BY <2>1, <3>1, <3>2, SaveBecomes
  <2> QED BY <1>f, <2>2, <2>3, ImportWrites DEF Ours
<1>g. CASE Restart \/ Crash
  BY <1>g, CloseKeeps DEF Restart, Crash, ReadPastDirectory
<1>h. CASE FileModeStep
  BY <1>h, CloseKeeps, FileModeKeeps DEF FileModeStep, CloseFileMode, library
<1>i. CASE PushFileMode
  <2>1. /\ SaveInfo \in FileSystem /\ UNCHANGED <<exists, tree, committed>>
        /\ \E journal \in BOOLEAN : OpenFileMode(SaveInfo, Top.user \in SystemUser, journal)
    BY <1>1, <1>i DEF PushFileMode
  <2> QED BY <2>1, OpenKeeps
<1>j. ASSUME NEW f \in Partition \cup {SdCard}, BrowsePartition(f) PROVE FileInv'
  <2>1. /\ f \in FileSystem /\ UNCHANGED <<exists, tree, committed>>
        /\ OpenFileMode(f, f \in Partition, FALSE)
    BY <1>j DEF BrowsePartition, library, FileSystem
  <2> QED BY <2>1, OpenKeeps
<1>k. ASSUME NEW u \in User, OpenTitles(u) \/ OpenUserOptions(u)
      PROVE UNCHANGED <<exists, tree, committed, panes>>
  BY <1>k DEF OpenTitles, OpenUserOptions, library, fileVars
<1>l. ASSUME NEW i, OpenTitleOptions(i) \/ AddRemoveFavorite(i) \/ RemoveFromBlacklist(i)
      PROVE  UNCHANGED <<exists, tree, committed, panes>>
  BY <1>l DEF OpenTitleOptions, AddRemoveFavorite, RemoveFromBlacklist, UnchangedFiles,
     library, fileVars
<1>m. ASSUME \/ OpenBlacklist \/ LeaveTitles \/ RefreshAllViews \/ BlacklistTitle \/ DeleteSaveFails
             \/ LoadAndRefresh \/ OpenCreate \/ OpenImport \/ ClosePanel \/ PanelSlides \/ LeavePanel
      PROVE  UNCHANGED <<exists, tree, committed, panes>>
  BY <1>m DEF OpenBlacklist, LeaveTitles, RefreshAllViews, BlacklistTitle, DeleteSaveFails,
     LoadAndRefresh,
     OpenCreate, OpenImport, ClosePanel, PanelSlides, LeavePanel, UnchangedFiles, library, fileVars
<1>n. CASE UNCHANGED vars
  BY <1>n, <1>a DEF vars, library, fileVars
<1> QED
  BY <1>a, <1>b, <1>c, <1>d, <1>e, <1>f, <1>g, <1>h, <1>i, <1>j, <1>k, <1>l, <1>m, <1>n DEF Next

-----------------------------------------------------------------------------
\* No file system and no session changes.
Untouched == UNCHANGED <<tree, committed, allow, session>>
\* A task over a closed file mode writes and commits some saves.
Task(X) ==
    /\ ~session.open /\ UNCHANGED <<allow, session>> /\ X \subseteq Save /\ Writes(X)
    /\ \A s \in X : tree'[s] = committed'[s]
\* The file mode is opened over a file system, which it is told is the system's.
Opening ==
    /\ ~session.open /\ UNCHANGED <<tree, committed, allow>> /\ session'.open
    /\ session'.a \in FileSystem
    /\ Guarded /\ session'.a \in Protected => session'.system

\* A guarded list shows system saves to system users only.
LEMMA OursGuarded ==
  ASSUME NEW u, NEW s \in Ours(u), Guarded, s.system
  PROVE  u \in SystemUser
BY DEF Ours, Guarded

\* What each step does to the file systems.
LEMMA Effects ==
  ASSUME Tables, FileInv, Tables', [Next]_vars
  PROVE  \/ Untouched
         \/ \E X \in SUBSET Save : Task(X) /\ (Guarded => \A s \in X : ~s.system)
         \/ FileModeNext
         \/ CloseMounts
         \/ Opening
<1>t. TreesInv
  BY DEF FileInv
<1>a. ASSUME NEW u \in User, OpenTitles(u) \/ OpenUserOptions(u) PROVE Untouched
  BY <1>a DEF OpenTitles, OpenUserOptions, library, fileVars, panes, Untouched
<1>b. CASE OpenBlacklist \/ LeaveTitles \/ DeleteSaveFails \/ OpenCreate \/ OpenImport
           \/ ClosePanel \/ PanelSlides \/ LeavePanel
  <2>1. Untouched
    BY <1>b DEF OpenBlacklist, LeaveTitles, DeleteSaveFails, OpenCreate, OpenImport, ClosePanel,
       PanelSlides, LeavePanel, library, fileVars, panes, Untouched
  <2> QED BY <2>1
<1>c. ASSUME NEW i, OpenTitleOptions(i) \/ AddRemoveFavorite(i) \/ RemoveFromBlacklist(i)
      PROVE  Untouched
  BY <1>c DEF OpenTitleOptions, AddRemoveFavorite, RemoveFromBlacklist, UnchangedFiles,
     fileVars, panes, Untouched
<1>d. CASE RefreshAllViews \/ BlacklistTitle \/ LoadAndRefresh \/ UNCHANGED vars
  <2>1. Untouched
    BY <1>d DEF RefreshAllViews, BlacklistTitle, LoadAndRefresh, vars, UnchangedFiles, fileVars,
       panes, Untouched
  <2> QED BY <2>1
<1>e. CASE CreateAllSaveData \/ \E s \in Save : CreateSaveData(s)
  <2>1. Untouched
    BY <1>e DEF CreateAllSaveData, CreateSaveData, Created, panes, Untouched
  <2> QED BY <2>1
<1>f. CASE Restart \/ Crash
  BY <1>f DEF Restart, Crash, ReadPastDirectory
<1>g. CASE FileModeStep
  BY <1>g DEF FileModeStep, CloseFileMode
<1>h. CASE PushFileMode
  <2>1. /\ TitleOption /\ SaveInfo \in exists
        /\ \E journal : OpenFileMode(SaveInfo, Top.user \in SystemUser, journal)
        /\ UNCHANGED <<tree, committed, allow>>
    BY <1>h DEF PushFileMode
  <2>2. SaveInfo \in Ours(Top.user) /\ SaveInfo \in Save
    BY <2>1, TitlePanel DEF Ours
  <2>3. /\ ~session.open /\ session'.open /\ session'.a = SaveInfo
        /\ session'.system = (Top.user \in SystemUser)
    BY <2>1 DEF OpenFileMode
  <2>4. SaveInfo \notin Partition
    BY <2>2, LibraryAssumption
  <2> HIDE DEF SaveInfo
  <2>5. Guarded /\ SaveInfo \in Protected => Top.user \in SystemUser
    BY <2>2, <2>4, OursGuarded DEF Protected
  <2>6. session'.a \in FileSystem /\ (Guarded /\ session'.a \in Protected => session'.system)
    BY <2>2, <2>3, <2>5 DEF FileSystem
  <2>7. Opening
    BY <2>1, <2>3, <2>6 DEF Opening
  <2> QED BY <2>7
<1>i. ASSUME NEW f \in Partition \cup {SdCard}, BrowsePartition(f) PROVE Opening
  <2>1. /\ OpenFileMode(f, f \in Partition, FALSE) /\ UNCHANGED <<tree, committed, allow>>
    BY <1>i DEF BrowsePartition
  <2>2. /\ ~session.open /\ session'.open /\ session'.a = f
        /\ session'.system = (f \in Partition)
    BY <2>1 DEF OpenFileMode
  <2>3. SdCard \notin Protected /\ f \in FileSystem
    <3>1. SdCard \notin Save
      BY LibraryAssumption
    <3>2. CASE SdCard \in Partition
      BY <3>2, LibraryAssumption
    <3> QED BY <3>1, <3>2 DEF Protected, FileSystem
  <2>4. Guarded /\ session'.a \in Protected => session'.system
    BY <2>2, <2>3 DEF Protected
  <2> QED BY <2>1, <2>2, <2>3, <2>4 DEF Opening
<1>j. CASE ResetSaveData
  <2>1. TitleOption /\ UNCHANGED <<allow, session>> /\ (allow \/ ~SaveInfo.system) /\ SaveInfo \in exists
    BY <1>j DEF ResetSaveData, panes
  <2>2. PICK t : tree' = [tree EXCEPT ![SaveInfo] = t] /\ committed' = [committed EXCEPT ![SaveInfo] = t]
    BY <1>j DEF ResetSaveData
  <2>3. SaveInfo \in Save /\ ~session.open
    BY <1>t, <2>1 DEF TreesInv, TitleOption, At
  <2>4. Task({SaveInfo})
    <3> DEFINE x == SaveInfo
    <3> HIDE DEF x
    <3>1. x \in Save /\ x \in FileSystem
      BY <2>3 DEF x, FileSystem
    <3>2. tree' = [tree EXCEPT ![x] = t] /\ committed' = [committed EXCEPT ![x] = t]
      BY <2>2 DEF x
    <3>3. tree'[x] = committed'[x] /\ Writes({x})
      BY <1>t, <3>1, <3>2 DEF TreesInv, Writes
    <3>4. Task({x})
      BY <2>1, <2>3, <3>1, <3>3 DEF Task
    <3> QED BY <3>4 DEF x
  <2> QED BY <2>1, <2>3, <2>4 DEF Guarded
<1>k. CASE DeleteSaveFromSystem
  <2>1. TitleOption /\ UNCHANGED <<allow, session>> /\ ~SaveInfo.system /\ SaveInfo \in exists
    BY <1>k DEF DeleteSaveFromSystem, panes
  <2>2. /\ tree' = [tree EXCEPT ![SaveInfo] = EmptyTree]
        /\ committed' = [committed EXCEPT ![SaveInfo] = EmptyTree]
    BY <1>k DEF DeleteSaveFromSystem
  <2>3. SaveInfo \in Save /\ ~session.open
    BY <1>t, <2>1 DEF TreesInv, TitleOption, At
  <2>4. Task({SaveInfo})
    <3> DEFINE x == SaveInfo
    <3> HIDE DEF x
    <3>1. x \in Save /\ x \in FileSystem
      BY <2>3 DEF x, FileSystem
    <3>2. tree' = [tree EXCEPT ![x] = EmptyTree] /\ committed' = [committed EXCEPT ![x] = EmptyTree]
      BY <2>2 DEF x
    <3>3. tree'[x] = committed'[x] /\ Writes({x})
      BY <1>t, <3>1, <3>2 DEF TreesInv, Writes
    <3>4. Task({x})
      BY <2>1, <2>3, <3>1, <3>3 DEF Task
    <3> QED BY <3>4 DEF x
  <2> QED BY <2>1, <2>3, <2>4
<1>l. CASE DeleteAllSaveData
  <2> DEFINE v == Top.user
             slots == {i \in 1..count[v] : ~memory[v][i].system /\ memory[v][i] \in exists}
  <2>1. PICK kept \in SUBSET slots :
          LET saves == {memory[v][i] : i \in slots \ kept}
          IN  /\ tree' = [f \in FileSystem |-> IF f \in saves THEN EmptyTree ELSE tree[f]]
              /\ committed' = [s \in Save |-> IF s \in saves THEN EmptyTree ELSE committed[s]]
    BY <1>l DEF DeleteAllSaveData
  <2>2. ~session.open /\ UNCHANGED <<allow, session>>
    BY <1>l DEF DeleteAllSaveData, UserOption, At, panes
  <2> DEFINE saves == {memory[v][i] : i \in slots \ kept}
  <2>3. \A s \in saves : s \in Save /\ ~s.system
    BY <1>t DEF TreesInv
  <2>4. /\ tree' = [f \in FileSystem |-> IF f \in saves THEN EmptyTree ELSE tree[f]]
        /\ committed' = [s \in Save |-> IF s \in saves THEN EmptyTree ELSE committed[s]]
    BY <2>1
  <2> HIDE DEF saves
  <2>5. Task(saves)
    BY <2>2, <2>3, <2>4 DEF Task, Writes, FileSystem
  <2>6. saves \in SUBSET Save
    BY <2>3
  <2> QED BY <2>3, <2>5, <2>6
<1>m. ASSUME NEW s \in Save, ImportSaveBackup(s)
      PROVE  \/ Untouched
             \/ \E X \in SUBSET Save : Task(X) /\ (Guarded => \A r \in X : ~r.system)
  <2>1. ~session.open /\ UNCHANGED <<allow, session>>
    BY <1>m DEF ImportSaveBackup, At, panes
  <2>2. CASE UNCHANGED <<tree, committed>>
    BY <2>1, <2>2 DEF Untouched
  <2>3. ASSUME NEW into \in Ours(Top.user), ~into.system, WritesImport(into)
        PROVE  \E X \in SUBSET Save : Task(X) /\ (Guarded => \A r \in X : ~r.system)
    <3>1. into \in Save /\ into \in FileSystem
      BY DEF Ours, FileSystem
    <3>2. Writes({into}) /\ tree'[into] = committed'[into]
      BY <1>t, <2>3, <3>1 DEF TreesInv, Writes, WritesImport
    <3>3. Task({into})
      BY <2>1, <3>1, <3>2 DEF Task
    <3> QED BY <2>3, <3>1, <3>3
  <2> QED BY <1>m, <2>2, <2>3, ImportWrites
<1>n. ASSUME NEW s \in Save, CreateSaveData(s) \/ ImportSaveBackup(s)
      PROVE  \/ Untouched
             \/ \E X \in SUBSET Save : Task(X) /\ (Guarded => \A r \in X : ~r.system)
             \/ FileModeNext \/ CloseMounts \/ Opening
  <2>1. CASE CreateSaveData(s)
    BY <1>e, <2>1
  <2>2. CASE ImportSaveBackup(s)
    BY <1>m, <2>2
  <2> QED BY <1>n, <2>1, <2>2
<1> HIDE DEF Untouched, Task, Guarded, Opening
<1> QED BY <1>a, <1>b, <1>c, <1>d, <1>e, <1>f, <1>g, <1>h, <1>i, <1>j, <1>k, <1>l, <1>n DEF Next

\* Only the save under the file mode may differ from what it has committed.
LEMMA OthersKept ==
  ASSUME Tables, FileInv, Tables', FileInv', OthersInv, [Next]_vars
  PROVE  OthersInv'
<1>1. SessionInv /\ TreesInv
  BY DEF FileInv
<1>2. CASE Untouched
  BY <1>2 DEF Untouched, OthersInv
<1>3. ASSUME NEW X \in SUBSET Save, Task(X) PROVE OthersInv'
  BY <1>3 DEF Task, Writes, FileInv, ClosedInv, OthersInv, FileSystem
<1>4. CASE FileModeNext
  BY <1>1, <1>4, FileModeWrites, LibraryAssumption DEF Writes, OthersInv, FileSystem
<1>5. CASE CloseMounts
  BY <1>5 DEF CloseMounts, OthersInv, FileSystem
<1>6. CASE Opening
  BY <1>6 DEF Opening, OthersInv, FileInv, ClosedInv
<1> QED BY <1>2, <1>3, <1>4, <1>5, <1>6, Effects

\* While the system is guarded, no step changes it.
LEMMA GuardKept ==
  ASSUME Tables, FileInv, Tables', OthersInv, GuardInv, [Next]_vars
  PROVE  /\ GuardInv' /\ UNCHANGED allow
         /\ Guarded => \A f \in Protected : tree'[f] = tree[f]
<1>1. SessionInv /\ TreesInv
  BY DEF FileInv
<1>2. SdCard \notin Protected /\ \A f \in Protected : f \in FileSystem
  BY LibraryAssumption DEF Protected, FileSystem
<1>3. \A f \in Protected : f \in Save => f.system
  BY LibraryAssumption DEF Protected
<1>4. \A s \in Save : s.system => s \in Protected
  BY DEF Protected
<1> DEFINE Goal == /\ GuardInv' /\ UNCHANGED allow
                   /\ Guarded => \A f \in Protected : tree'[f] = tree[f]
<1>5. CASE Untouched
  BY <1>5 DEF Untouched, GuardInv, Guarded
<1>6. ASSUME NEW X \in SUBSET Save, Task(X), Guarded => \A s \in X : ~s.system
      PROVE  Goal
  <2>1. Guarded => \A f \in Protected : f \notin X
    BY <1>3, <1>6
  <2>2. Guarded => \A f \in Protected : tree'[f] = tree[f]
    BY <1>2, <1>6, <2>1 DEF Task, Writes
  <2>3. Guarded => \A s \in Save : s.system => committed'[s] = committed[s]
    BY <1>6 DEF Task, Writes
  <2>4. GuardInv'
    BY <1>4, <1>6, <2>2, <2>3 DEF Task, GuardInv, Guarded
  <2> QED BY <1>6, <2>2, <2>4 DEF Task
<1>7. CASE FileModeNext
  <2>1. /\ session.open /\ UNCHANGED allow
        /\ session'.open /\ session'.a = session.a /\ session'.system = session.system
        /\ \/ UNCHANGED <<tree, committed>>
           \/ Writes({SdCard})
           \/ Writes({session.a}) /\ ~(session.system /\ ~allow)
    BY <1>1, <1>7, FileModeWrites
  <2>2. CASE ~Guarded
    BY <2>1, <2>2 DEF GuardInv, Guarded
  <2>3. CASE Guarded
    <3>1. session.a \in Protected => session.system /\ ~allow
      BY <2>1, <2>3 DEF GuardInv, Guarded
    <3>2. /\ \A f \in Protected : tree'[f] = tree[f]
          /\ \A s \in Save : s.system => committed'[s] = committed[s]
      BY <1>2, <1>4, <2>1, <3>1 DEF Writes
    <3>3. GuardInv'
      BY <1>4, <2>1, <2>3, <3>1, <3>2 DEF GuardInv
    <3> QED BY <2>1, <3>2, <3>3
  <2> QED BY <2>2, <2>3
<1>8. CASE CloseMounts
  <2>1. /\ \A f \in FileSystem : tree'[f] = IF f \in Save THEN committed[f] ELSE tree[f]
        /\ ~session'.open /\ UNCHANGED <<committed, allow>>
    BY <1>8 DEF CloseMounts, NoSession
  <2>2. Guarded => \A f \in Protected : tree'[f] = tree[f]
    BY <1>2, <1>3, <2>1 DEF GuardInv
  <2>3. GuardInv'
    BY <2>1, <2>2, <1>4 DEF GuardInv, Guarded, FileSystem
  <2> QED BY <2>1, <2>2, <2>3
<1>9. CASE Opening
  BY <1>9 DEF Opening, GuardInv, Guarded
<1> QED BY <1>5, <1>6, <1>7, <1>8, <1>9, Effects

\* The whole invariant of the library.
OwnInv == Tables /\ FileInv /\ OthersInv

\* It holds in every reachable state, for any saves, users, titles, trees and failures.
THEOREM OwnHolds == Spec => []OwnInv
<1>1. Init => OwnInv
  <2>1. Init => OthersInv
    BY DEF Init, FilesInit, OthersInv
  <2> QED BY <2>1, InitFiles, InitTables, LibraryAssumption DEF OwnInv
<1>2. OwnInv /\ [Next]_vars => OwnInv'
  <2> SUFFICES ASSUME OwnInv, [Next]_vars PROVE OwnInv'
    OBVIOUS
  <2>1. Tables'
    BY TablesKeep DEF OwnInv
  <2>2. FileInv'
    BY <2>1, LibraryKeeps DEF OwnInv
  <2> QED BY <2>1, <2>2, OthersKept DEF OwnInv
<1> QED BY <1>1, <1>2, PTL DEF Spec

\* FileInv holds in every reachable state, for any constants.
THEOREM FilesHold == Spec => []FileInv
<1>1. OwnInv => FileInv
  BY DEF OwnInv
<1> QED BY <1>1, OwnHolds, PTL

\* Every operation of the file mode makes the pane it changed list again, so
\* the rows a user picks from are what the directory holds.
THEOREM PanesStayFresh == Spec => []PanesFresh
<1>1. FileInv => PanesFresh
  BY DEF FileInv, PaneInv, PanesFresh, Pending, Fresh
<1> QED BY <1>1, FilesHold, PTL

\* What the options of the dialog did to a save's files is committed, or a
\* commit was refused, or the size of the journal is not known.
THEOREM FilesAreCommitted == Spec => []ClosingLosesNothing
<1>1. FileInv => ClosingLosesNothing
  BY DEF FileInv
<1> QED BY <1>1, FilesHold, PTL

\* When no panel has work left and no option came late, no list holds a save that is
\* gone, and every title selection shows its list; and a list from which neither the
\* hiding of one of several saves of a title nor an import of another type has kept
\* something since it was loaded holds exactly the saves that exist and are not filtered
\* out: whatever was created, deleted, imported, hidden or sorted.
THEOREM ListsStayTrue == Spec => []ListsMatchTheSystem
<1>1. OwnInv => ListsMatchTheSystem
  <2> SUFFICES ASSUME OwnInv, ~Top.refresh, ~late, NEW u \in User
               PROVE  /\ ToSet(List(u)) \subseteq exists
                      /\ u \notin astray => ToSet(List(u)) = Loadable(u, exists, blacklist)
                      /\ view[u] = List(u)
    BY DEF ListsMatchTheSystem
  <2>1. Matches(u) /\ view[u] = List(u) /\ Holds(memory[u], count[u], u)
    BY DEF OwnInv, Tables, ListsInv, MatchInv, Awaited
  <2> QED BY <2>1, ListLive DEF List, Matches
<1> QED BY <1>1, OwnHolds, PTL

\* While writing to the system is off, and no list shows an account its system
\* saves, no step changes a system save or a partition.
THEOREM SystemStaysGuarded ==
  ASSUME ~AccountSystemSaves
  PROVE  Spec => SystemIsGuarded
<1>1. Init => GuardInv
  BY DEF Init, FilesInit, GuardInv, NoSession
<1>2. OwnInv /\ OwnInv' /\ GuardInv /\ [Next]_vars => GuardInv'
  BY GuardKept DEF OwnInv
<1>3. OwnInv /\ OwnInv' /\ GuardInv /\ [Next]_vars =>
        [~allow => \A f \in Partition \cup {s \in Save : s.system} : tree'[f] = tree[f]]_vars
  BY GuardKept DEF OwnInv, Guarded, Protected
<1> QED BY <1>1, <1>2, <1>3, OwnHolds, PTL DEF Spec, SystemIsGuarded

\* A step under the panel of a title changes no save but its own.
KeepsOthers == Top.at = "title" /\ ~late' =>
    \A s \in Save \ {Top.save} : tree'[s] = tree[s] /\ (s \in exists' <=> s \in exists)

\* The pointer of the panel names the save it was opened for, until one option has
\* closed the panel.
LEMMA OnlyOwn ==
  ASSUME OwnInv, Tables', [Next]_vars
  PROVE  KeepsOthers
<1> SUFFICES ASSUME Top.at = "title", ~late', NEW s \in Save, s # Top.save
             PROVE  tree'[s] = tree[s] /\ (s \in exists' <=> s \in exists)
  BY DEF KeepsOthers
<1>0. /\ SessionInv /\ TreesInv /\ s \in FileSystem /\ s # SdCard
      /\ ~(session.open /\ s = session.a) => tree[s] = committed[s]
  BY LibraryAssumption DEF OwnInv, FileInv, OthersInv, FileSystem
<1>1. ASSUME UNCHANGED <<late, session>> \/ UNCHANGED late PROVE session.open => session.a = Top.save
  BY <1>1 DEF OwnInv, Tables, LinkInv
<1>b. CASE LeaveTitles \/ DeleteSaveFails \/ ClosePanel \/ PanelSlides \/ LeavePanel \/ RefreshAllViews
           \/ BlacklistTitle \/ PushFileMode \/ UNCHANGED vars
  BY <1>b DEF LeaveTitles, DeleteSaveFails, ClosePanel, PanelSlides, LeavePanel,
     RefreshAllViews,
     BlacklistTitle, PushFileMode, UnchangedFiles, library, fileVars, vars
<1>c. CASE ResetSaveData \/ DeleteSaveFromSystem
  <2>1. TitleOption
    BY <1>c DEF ResetSaveData, DeleteSaveFromSystem
  <2>2. SaveInfo = Top.save
    BY <2>1, TitlePanel DEF OwnInv
  <2>3. /\ \E t : tree' = [tree EXCEPT ![SaveInfo] = t]
        /\ exists' = exists \/ exists' = exists \ {SaveInfo}
    BY <1>c DEF ResetSaveData, DeleteSaveFromSystem
  <2> HIDE DEF SaveInfo
  <2> QED BY <1>0, <2>2, <2>3 DEF TreesInv
<1>d. CASE Restart \/ Crash
  <2>1. CloseMounts /\ UNCHANGED <<exists, late>>
    BY <1>d DEF Restart, Crash, ReadPastDirectory
  <2> QED BY <1>0, <1>1, <2>1 DEF CloseMounts
<1>e. CASE FileModeStep
  <2>1. UNCHANGED <<exists, late>> /\ (FileModeNext \/ CloseMounts)
    BY <1>e DEF FileModeStep, CloseFileMode, library, history
  <2>2. CASE FileModeNext
    BY <1>0, <1>1, <2>1, <2>2, FileModeWrites DEF Writes
  <2>3. CASE CloseMounts
    BY <1>0, <1>1, <2>1, <2>3 DEF CloseMounts
  <2> QED BY <2>1, <2>2, <2>3
<1>f. ~(At("main") \/ At("titles") \/ At("user") \/ At("create") \/ At("import") \/ At("blacklist"))
  BY DEF At
<1>g. ~(\E u \in User : OpenTitles(u) \/ OpenUserOptions(u)) /\ ~OpenBlacklist
  BY <1>f DEF OpenTitles, OpenUserOptions, OpenBlacklist
<1>h. ~\E i \in 1..Cardinality(Save) :
          OpenTitleOptions(i) \/ AddRemoveFavorite(i) \/ RemoveFromBlacklist(i)
  BY <1>f DEF OpenTitleOptions, AddRemoveFavorite, RemoveFromBlacklist
<1>i. ~(LoadAndRefresh \/ CreateAllSaveData \/ DeleteAllSaveData \/ OpenCreate \/ OpenImport)
  BY <1>f DEF LoadAndRefresh, CreateAllSaveData, DeleteAllSaveData, OpenCreate, OpenImport,
     UserOption
<1>j. ~\E r \in Save : CreateSaveData(r) \/ ImportSaveBackup(r)
  BY <1>f DEF CreateSaveData, ImportSaveBackup
<1>k. ~\E f \in Partition \cup {SdCard} : BrowsePartition(f)
  BY <1>f DEF BrowsePartition
<1> QED BY <1>b, <1>c, <1>d, <1>e, <1>g, <1>h, <1>i, <1>j, <1>k DEF Next

\* The options of a title, and the file mode opened from them, change no save but the
\* one the panel was opened for, unless an option comes after one that closed it.
THEOREM OptionsKeepToTheirSave == Spec => OnlyItsOwnSave
<1>1. OwnInv /\ OwnInv' /\ [Next]_vars =>
        [Top.at = "title" /\ ~late' =>
            \A s \in Save \ {Top.save} :
                tree'[s] = tree[s] /\ (s \in exists' <=> s \in exists)]_vars
  BY OnlyOwn DEF OwnInv, KeepsOthers
<1> QED BY <1>1, OwnHolds, PTL DEF Spec, OnlyItsOwnSave
=============================================================================
