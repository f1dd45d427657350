----------------------------- MODULE MenuProofs -----------------------------
(***************************************************************************)
(* The backup menu and its tasks: while the menu takes input every pointer *)
(* it holds into m_list is good, and a restore from the drive fetches what *)
(* was picked and deletes the save data only once it has it.  For any      *)
(* number of threads, backups, operations and failures.                    *)
(*                                                                         *)
(* The inductive invariant MenuInv relates three things no single field    *)
(* says: a thread whose task is complete changes nothing on the drive any  *)
(* more (DoneInv), the menu shows the drive or a thread that is not        *)
(* complete is about to refresh it (ShownInv), and no pointer is newer     *)
(* than m_list, so that appending or erasing makes all of them stale       *)
(* (PointerInv).                                                           *)
(***************************************************************************)
EXTENDS BackupMenu, FiniteSetTheorems, SequenceTheorems, TLAPS

-----------------------------------------------------------------------------
(***************************************************************************)
(* What a thread holds is a record of nine fields; a step changes its      *)
(* program counter and at most two of the others.                          *)
(***************************************************************************)
Fields == {"op", "pc", "done", "name", "item", "path", "zip", "got", "kill"}
Fielded(r) == r = [x \in Fields |-> r[x]]
Shaped(f) == f = [w \in Worker |-> f[w]] /\ \A w \in Worker : Fielded(f[w])

To(r, p) == [r EXCEPT !.pc = p]
Over(r, p) == [r EXCEPT !.pc = p, !.done = TRUE]
ToDone(r, p, d) == [r EXCEPT !.pc = p, !.done = d]
ToKill(r, p, k) == [r EXCEPT !.pc = p, !.kill = k]
ToZip(r, p, z) == [r EXCEPT !.pc = p, !.zip = z]
ToZipKill(r, p, z, k) == [r EXCEPT !.pc = p, !.zip = z, !.kill = k]
ToGot(r, p, g) == [r EXCEPT !.pc = p, !.got = g]
ToPath(r, h, p) == [r EXCEPT !.path = h, !.pc = p]

Same(r, s) == s.op = r.op /\ s.name = r.name /\ s.item = r.item

\* What the forms leave of a task, one lemma for each.
LEMMA FormTo ==
  ASSUME NEW r, Fielded(r), NEW p
  PROVE  /\ Fielded(To(r, p)) /\ Same(r, To(r, p))
         /\ To(r, p).pc = p /\ To(r, p).done = r.done /\ To(r, p).got = r.got
BY DEF Fielded, Fields, Same, To

\* Likewise.
LEMMA FormToDone ==
  ASSUME NEW r, Fielded(r), NEW p, NEW x
  PROVE  /\ Fielded(ToDone(r, p, x)) /\ Same(r, ToDone(r, p, x))
         /\ ToDone(r, p, x).pc = p /\ ToDone(r, p, x).done = x /\ ToDone(r, p, x).got = r.got
BY DEF Fielded, Fields, Same, ToDone

\* Likewise.
LEMMA FormOver ==
  ASSUME NEW r, Fielded(r), NEW p
  PROVE  /\ Fielded(Over(r, p)) /\ Same(r, Over(r, p))
         /\ Over(r, p).pc = p /\ Over(r, p).got = r.got
BY DEF Fielded, Fields, Same, Over

\* Likewise.
LEMMA FormToKill ==
  ASSUME NEW r, Fielded(r), NEW p, NEW x
  PROVE  /\ Fielded(ToKill(r, p, x)) /\ Same(r, ToKill(r, p, x))
         /\ ToKill(r, p, x).pc = p /\ ToKill(r, p, x).done = r.done /\ ToKill(r, p, x).got = r.got
BY DEF Fielded, Fields, Same, ToKill

\* Likewise.
LEMMA FormToZip ==
  ASSUME NEW r, Fielded(r), NEW p, NEW x
  PROVE  /\ Fielded(ToZip(r, p, x)) /\ Same(r, ToZip(r, p, x))
         /\ ToZip(r, p, x).pc = p /\ ToZip(r, p, x).done = r.done /\ ToZip(r, p, x).got = r.got
BY DEF Fielded, Fields, Same, ToZip

\* Likewise.
LEMMA FormToZipKill ==
  ASSUME NEW r, Fielded(r), NEW p, NEW x, NEW y
  PROVE  /\ Fielded(ToZipKill(r, p, x, y)) /\ Same(r, ToZipKill(r, p, x, y))
         /\ ToZipKill(r, p, x, y).pc = p /\ ToZipKill(r, p, x, y).done = r.done /\ ToZipKill(r, p, x, y).got = r.got
BY DEF Fielded, Fields, Same, ToZipKill

\* Likewise.
LEMMA FormToGot ==
  ASSUME NEW r, Fielded(r), NEW p, NEW x
  PROVE  /\ Fielded(ToGot(r, p, x)) /\ Same(r, ToGot(r, p, x))
         /\ ToGot(r, p, x).pc = p /\ ToGot(r, p, x).done = r.done /\ ToGot(r, p, x).got = x
BY DEF Fielded, Fields, Same, ToGot

\* Likewise.
LEMMA FormToPath ==
  ASSUME NEW r, Fielded(r), NEW p, NEW x
  PROVE  /\ Fielded(ToPath(r, x, p)) /\ Same(r, ToPath(r, x, p))
         /\ ToPath(r, x, p).pc = p /\ ToPath(r, x, p).done = r.done /\ ToPath(r, x, p).got = r.got
BY DEF Fielded, Fields, Same, ToPath

\* A step leaves task r as t, at p, with g for its archive.
Leaves(r, t, p, g) == Fielded(t) /\ t.pc = p /\ t.got = g /\ t.done = r.done /\ Same(r, t)

Upd(w, r) == [worker EXCEPT ![w] = r]

\* A thread that changes what it holds leaves the other threads alone.
LEMMA Updated ==
  ASSUME Shaped(worker), NEW w \in Worker, NEW r, Fielded(r)
  PROVE  Shaped(Upd(w, r)) /\ Upd(w, r)[w] = r /\ \A v \in Worker : v # w => Upd(w, r)[v] = worker[v]
BY DEF Shaped, Upd

\* What each step leaves of its task.
LEMMA Records ==
  ASSUME Shaped(worker), NEW w \in Worker
  PROVE  LET r == worker[w] IN
    /\ CreateLocal(w) =>
          worker' \in {Upd(w, ToKill(r, "refresh", data.kill)), Upd(w, Over(r, "back")), Upd(w, Over(r, "end"))}
    /\ CreateForRemote(w) =>
          \/ worker' \in {Upd(w, Over(r, "back")), Upd(w, Over(r, "end"))}
          \/ \E z : worker' = Upd(w, ToZipKill(r, "send", z, data.kill))
    /\ SendBackup(w) => worker' = Upd(w, To(r, "refresh"))
    /\ ShowCreated(w) =>
          \E t : worker' = Upd(w, t) /\ Fielded(t) /\ t.pc \in {"back", "end"} /\ t.got = r.got /\ Same(r, t)
    /\ DropOld(w) => worker' = Upd(w, To(r, "zip"))
    /\ ZipTemporary(w) => worker' = Upd(w, Over(r, "end")) \/ \E z : worker' = Upd(w, ToZip(r, "patch", z))
    /\ PatchItem(w) => worker' = Upd(w, Over(r, "end"))
    /\ Download(w) =>
          \/ worker' = Upd(w, Over(r, "end"))
          \/ Valid(r.item) /\ worker' = Upd(w, ToGot(r, "auto", items[r.item.at].version))
    /\ AutoBackup(w) =>
          worker' \in {Upd(w, ToPath(r, data.path, "zip remote")), Upd(w, ToPath(r, data.path, "zip")),
                       Upd(w, To(r, "wipe"))}
    /\ PutPathBack(w) => worker' = Upd(w, To(r, "wipe"))
    /\ WipeSave(w) => worker' \in {Upd(w, To(r, "open")), Upd(w, Over(r, "end"))}
    /\ OpenBackup(w) => \/ worker' \in {Upd(w, To(r, "copy")), Upd(w, Over(r, "end"))}
                        \/ r.got = Absent /\ There # Absent /\ worker' = Upd(w, ToGot(r, "copy", There))
    /\ CopyBack(w) => worker' \in {Upd(w, To(r, "show")), Upd(w, Over(r, "end"))}
    /\ DeleteLocal(w) => worker' = Upd(w, To(r, "show"))
    /\ DeleteRemote(w) => worker' = Upd(w, To(r, "show"))
    /\ ShowAndComplete(w) => worker' = Upd(w, Over(r, "end"))
    /\ TaskEnds(w) => worker' = Upd(w, Idle)
<1> DEFINE r == worker[w]
<1> USE DEF Shaped, Upd
<1>1. \A p : GoesTo(w, p) => worker' = Upd(w, To(r, p))
  BY DEF GoesTo, To
<1>2. Completes(w) => worker' = Upd(w, Over(r, "end"))
  BY DEF Completes, Over
<1>3. FinishesEarly(w) => worker' \in {Upd(w, Over(r, "back")), Upd(w, Over(r, "end"))}
  BY <1>2 DEF FinishesEarly, Over
<1>4. CreateLocal(w) =>
        worker' \in {Upd(w, ToKill(r, "refresh", data.kill)), Upd(w, Over(r, "back")), Upd(w, Over(r, "end"))}
  BY <1>3 DEF CreateLocal, ToKill
<1>5. CreateForRemote(w) =>
        \/ worker' \in {Upd(w, Over(r, "back")), Upd(w, Over(r, "end"))}
        \/ \E z : worker' = Upd(w, ToZipKill(r, "send", z, data.kill))
  BY <1>3 DEF CreateForRemote, ToZipKill
<1>6. ShowCreated(w) =>
        \E t : worker' = Upd(w, t) /\ Fielded(t) /\ t.pc \in {"back", "end"} /\ t.got = r.got /\ Same(r, t)
  <2>1. ASSUME ShowCreated(w)
        PROVE  \E t : worker' = Upd(w, t) /\ Fielded(t) /\ t.pc \in {"back", "end"} /\ t.got = r.got /\ Same(r, t)
    <3> DEFINE d == r.done \/ r.kill \/ r.op = "upload"
               t == ToDone(r, IF Nested(w) THEN "back" ELSE "end", d)
    <3>1. worker' = Upd(w, t)
      BY <2>1 DEF ShowCreated, ToDone
    <3>2. Fielded(t) /\ t.pc \in {"back", "end"} /\ t.got = r.got /\ Same(r, t)
      <4> HIDE DEF d
      <4> QED BY FormToDone
    <3> QED BY <3>1, <3>2
  <2> QED BY <2>1
<1>7. ZipTemporary(w) => worker' = Upd(w, Over(r, "end")) \/ \E z : worker' = Upd(w, ToZip(r, "patch", z))
  BY <1>2 DEF ZipTemporary, ToZip
<1>8. Download(w) =>
        \/ worker' = Upd(w, Over(r, "end"))
        \/ Valid(r.item) /\ worker' = Upd(w, ToGot(r, "auto", items[r.item.at].version))
  BY <1>2 DEF Download, ToGot
<1>9. AutoBackup(w) =>
        worker' \in {Upd(w, ToPath(r, data.path, "zip remote")), Upd(w, ToPath(r, data.path, "zip")),
                     Upd(w, To(r, "wipe"))}
  BY <1>1 DEF AutoBackup, ToPath
<1>10. OpenBackup(w) => \/ worker' \in {Upd(w, To(r, "copy")), Upd(w, Over(r, "end"))}
                        \/ r.got = Absent /\ There # Absent /\ worker' = Upd(w, ToGot(r, "copy", There))
  BY <1>1, <1>2 DEF OpenBackup, ToGot
<1> QED
  BY <1>1, <1>2, <1>4, <1>5, <1>6, <1>7, <1>8, <1>9, <1>10
  DEF SendBackup, DropOld, PatchItem, PutPathBack, WipeSave, CopyBack, DeleteLocal, DeleteRemote,
      ShowAndComplete, TaskEnds

-----------------------------------------------------------------------------
Entry(e) == e = [name |-> e.name, version |-> e.version] /\ e.version # Absent
DataFields == {"path", "item", "remoteName", "kill"}

ItemsInv == items \in Seq(ToSet(items)) /\ (\A e \in ToSet(items) : Entry(e)) /\ age \in Nat
ShapeInv == Shaped(worker) /\ data = [x \in DataFields |-> data[x]]

\* A thread whose task is complete changes nothing on the drive any more.
DoneInv == \A w \in Worker :
    worker[w].done => worker[w].pc \in {"end", "back", "wipe", "open", "copy", "show"}

\* The menu shows the drive, or a thread that changed it is about to refresh it.
Refreshing(w) == worker[w].pc \in {"refresh", "show"} /\ ~worker[w].done
ShownInv == opened =>
    /\ inTitle => connected /\ (menu.remote = ItemsShown \/ \E w \in Worker : Refreshing(w))
    /\ ~inTitle => menu.remote \in {<<>>, RootShown}

\* No pointer is newer than the vector, and one as old points into it.
Good(p) == p.at # 0 => /\ p.age \in Nat /\ p.age <= age
                       /\ p.age = age => p.at \in DOMAIN items
PointerInv == Good(data.item) /\ \A w \in Worker : Good(worker[w].item)

\* A restore from the drive that fetches an archive fetches the one that was
\* picked, and has it from then on.
RestoreInv == \A w \in Worker : worker[w].op = "restore remote" =>
    /\ worker[w].pc = "download" /\ Valid(worker[w].item) =>
          items[worker[w].item.at].name = worker[w].name
    /\ worker[w].pc \notin {"download", "end"} => worker[w].got # Absent

MenuInv == ItemsInv /\ ShapeInv /\ DoneInv /\ ShownInv /\ PointerInv /\ RestoreInv

-----------------------------------------------------------------------------
\* A sequence over a set is one over the elements it has.
LEMMA OwnSeq ==
  ASSUME NEW S, NEW s \in Seq(S)
  PROVE  s \in Seq(ToSet(s)) /\ ToSet(s) \subseteq S
<1>1. Len(s) \in Nat /\ DOMAIN s = 1..Len(s) /\ s \in [1..Len(s) -> S]
  BY LenProperties
<1>2. s \in [1..Len(s) -> ToSet(s)]
  BY <1>1 DEF ToSet
<1>3. s \in Seq(ToSet(s))
  BY <1>1, <1>2
<1> QED BY <1>1, <1>3 DEF ToSet

\* A finite set, like the backups that are there at first, has a sequence.
LEMMA Sequence ==
  ASSUME NEW S, IsFiniteSet(S)
  PROVE  SetToSeq(S) \in Seq(S)
<1>1. Cardinality(S) \in Nat /\ ExistsBijection(1..Cardinality(S), S)
  BY FS_CardinalityType
<1>2. \E f \in [1..Cardinality(S) -> S] : IsInjective(f)
  BY <1>1 DEF ExistsBijection, Bijection, Injection, Surjection, IsInjective
<1>3. SetToSeq(S) \in [1..Cardinality(S) -> S]
  BY <1>2 DEF SetToSeq
<1> QED BY <1>1, <1>3

\* refresh shows every item once, under its name, with a pointer to it.
LEMMA Pointers ==
  ASSUME ItemsInv
  PROVE  /\ Len(ItemsShown) = Len(items) /\ DOMAIN ItemsShown = DOMAIN items
         /\ \A i \in DOMAIN items : /\ ItemsShown[i].name = items[i].name /\ ItemsShown[i].item = Pointer(i)
                                    /\ Pointer(i).at = i /\ Pointer(i).age = age /\ i # 0
<1>1. Len(items) \in Nat /\ DOMAIN items = 1..Len(items)
  BY LenProperties DEF ItemsInv
<1>2. DOMAIN ItemsShown = 1..Len(items)
  BY <1>1 DEF ItemsShown
<1>3. ItemsShown \in Seq(ToSet(ItemsShown))
  BY <1>1, <1>2 DEF ToSet, ItemsShown
<1>4. Len(ItemsShown) = Len(items)
  BY <1>1, <1>2, <1>3, LenProperties
<1> QED BY <1>1, <1>2, <1>4 DEF ItemsShown, Pointer

\* The first state: no menu, every thread idle, the backups that are there.
LEMMA InitMenu == Init => MenuInv
<1> SUFFICES ASSUME Init PROVE MenuInv
  OBVIOUS
<1>1. ItemsInv
  <2> DEFINE Pair(n) == [name |-> n, version |-> RemoteBackups[n]]
             S == {Pair(n) : n \in DOMAIN RemoteBackups}
             f == [n \in DOMAIN RemoteBackups |-> Pair(n)]
  <2>1. f \in Surjection(DOMAIN RemoteBackups, S)
    BY DEF Surjection
  <2>2. IsFiniteSet(S)
    BY <2>1, FS_Surjection, BackupAssumption
  <2>3. items \in Seq(S)
    BY <2>2, Sequence DEF Init
  <2>4. \A e \in S : Entry(e)
    BY BackupAssumption DEF Entry, Absent
  <2> QED BY <2>3, <2>4, OwnSeq DEF ItemsInv, Init
<1>2. Fielded(Idle) /\ Idle.pc = "end" /\ Idle.op = "idle" /\ Idle.item = Null
  BY DEF Idle, Task, Fielded, Fields
<1>3. ShapeInv
  BY <1>2 DEF Init, ShapeInv, Shaped, NoData, DataFields
<1>4. worker = [w \in Worker |-> Idle] /\ data.item = Null /\ Null.at = 0 /\ ~opened
  BY DEF Init, NoData, Null
<1> QED
  BY <1>1, <1>2, <1>3, <1>4 DEF MenuInv, DoneInv, ShownInv, PointerInv, RestoreInv, Good
-----------------------------------------------------------------------------
DonePcs == {"end", "back", "wipe", "open", "copy", "show"}

\* What a step of thread w makes of its task: the next task.
Moves(w, t) ==
    /\ worker' = Upd(w, t) /\ Fielded(t)
    /\ t = Idle \/ Same(worker[w], t)
    /\ t.done => t.pc \in DonePcs
    /\ t.op = "restore remote" => t.pc # "download" /\ (t.pc # "end" => t.got # Absent)

\* An idle thread.
LEMMA Idles == Fielded(Idle) /\ Idle.pc = "end" /\ Idle.op = "idle" /\ Idle.item = Null /\ Idle.got = Absent
BY DEF Idle, Task, Fielded, Fields

\* A form other than a fetched archive keeps what the task has.
LEMMA Kept ==
  ASSUME MenuInv, NEW w \in Worker, NEW t, worker' = Upd(w, t), Fielded(t), Same(worker[w], t),
         worker[w].pc \notin {"download", "end"}, t.got = worker[w].got,
         t.done => t.pc \in DonePcs, t.pc # "download"
  PROVE  Moves(w, t)
BY DEF MenuInv, RestoreInv, Moves, Same

\* A task that can still change the drive is not complete.
LEMMA NotDone ==
  ASSUME MenuInv, NEW w \in Worker, worker[w].pc \notin DonePcs
  PROVE  ~worker[w].done
BY DEF MenuInv, DoneInv, DonePcs

\* Every step of a thread moves its task like this.
LEMMA StepMoves ==
  ASSUME MenuInv, NEW w \in Worker, Step(w)
  PROVE  \E t : Moves(w, t)
<1> DEFINE r == worker[w]
<1>1. Shaped(worker) /\ Fielded(r)
  BY DEF MenuInv, ShapeInv, Shaped
<1>2. ~r.done \/ r.pc \in DonePcs
  BY NotDone
<1>3. \A p : worker' = Upd(w, To(r, p)) /\ r.pc \notin {"download", "end"} /\ p # "download"
            /\ (~r.done \/ p \in DonePcs) => \E t : Moves(w, t)
  <2> SUFFICES ASSUME NEW p, worker' = Upd(w, To(r, p)), r.pc \notin {"download", "end"}, p # "download",
                      ~r.done \/ p \in DonePcs
               PROVE  Moves(w, To(r, p))
    OBVIOUS
  <2>1. Fielded(To(r, p)) /\ To(r, p).pc = p /\ To(r, p).done = r.done /\ To(r, p).got = r.got /\ Same(r, To(r, p))
    BY <1>1, FormTo
  <2> QED BY <2>1, Kept
<1>4. \A p \in {"back", "end"} : worker' = Upd(w, Over(r, p)) /\ r.pc # "download" /\ r.pc # "end" => \E t : Moves(w, t)
  <2> SUFFICES ASSUME NEW p \in {"back", "end"}, worker' = Upd(w, Over(r, p)), r.pc \notin {"download", "end"}
               PROVE  Moves(w, Over(r, p))
    OBVIOUS
  <2>1. Fielded(Over(r, p)) /\ Over(r, p).pc = p /\ Over(r, p).got = r.got /\ Same(r, Over(r, p))
    BY <1>1, FormOver
  <2> HIDE DEF r
  <2> QED BY <2>1, Kept DEF DonePcs, r
<1>ToKill. \A p, x : Leaves(r, ToKill(r, p, x), p, r.got)
  BY <1>1, FormToKill DEF Leaves
<1>ToZip. \A p, x : Leaves(r, ToZip(r, p, x), p, r.got)
  BY <1>1, FormToZip DEF Leaves
<1>ToZipKill. \A p, x, y : Leaves(r, ToZipKill(r, p, x, y), p, r.got)
  BY <1>1, FormToZipKill DEF Leaves
<1>ToGot. \A p, x : Leaves(r, ToGot(r, p, x), p, x)
  BY <1>1, FormToGot DEF Leaves
<1>ToPath. \A x, p : Leaves(r, ToPath(r, x, p), p, r.got)
  BY <1>1, FormToPath DEF Leaves
<1>Over. \A p : Fielded(Over(r, p)) /\ Over(r, p).pc = p /\ Over(r, p).got = r.got /\ Same(r, Over(r, p))
  BY <1>1, FormOver
<1>a. CASE CreateLocal(w)
  <2>1. r.pc = "zip" /\ ~r.done
    BY <1>a, <1>2 DEF CreateLocal, At, DonePcs
  <2>2. CASE worker' = Upd(w, ToKill(r, "refresh", data.kill))
    <3> DEFINE k == data.kill
    <3> HIDE DEF k
    <3>1. Leaves(r, ToKill(r, "refresh", k), "refresh", r.got)
      BY <1>ToKill
    <3>2. Moves(w, ToKill(r, "refresh", k))
      BY <3>1, <2>1, <2>2, Kept DEF k, Leaves
    <3> QED BY <3>2
  <2> QED BY Records, <1>1, <1>a, <2>1, <2>2, <1>4
<1>b. CASE CreateForRemote(w)
  <2>1. r.pc = "zip remote" /\ ~r.done
    BY <1>b, <1>2 DEF CreateForRemote, At, DonePcs
  <2>2. CASE \E z : worker' = Upd(w, ToZipKill(r, "send", z, data.kill))
    <3> DEFINE k == data.kill
    <3> HIDE DEF k
    <3>0. PICK z : worker' = Upd(w, ToZipKill(r, "send", z, k))
      BY <2>2 DEF k
    <3>1. Leaves(r, ToZipKill(r, "send", z, k), "send", r.got)
      BY <1>ToZipKill
    <3>2. Moves(w, ToZipKill(r, "send", z, k))
      BY <3>0, <3>1, <2>1, Kept DEF Leaves
    <3> QED BY <3>2
  <2> QED BY Records, <1>1, <1>b, <2>1, <2>2, <1>4
<1>c. CASE SendBackup(w)
  BY Records, <1>1, <1>c, <1>2, <1>3 DEF SendBackup, At, DonePcs
<1>d. CASE ShowCreated(w)
  <2>1. r.pc = "refresh"
    BY <1>d DEF ShowCreated, At
  <2>2. PICK t : worker' = Upd(w, t) /\ Fielded(t) /\ t.pc \in {"back", "end"} /\ t.got = r.got /\ Same(r, t)
    BY Records, <1>1, <1>d
  <2>3. Moves(w, t)
    BY <2>1, <2>2, Kept DEF DonePcs
  <2> QED BY <2>3
<1>e. CASE DropOld(w)
  BY Records, <1>1, <1>e, <1>2, <1>3 DEF DropOld, At, DonePcs
<1>f. CASE ZipTemporary(w)
  <2>1. r.pc = "zip temp" /\ ~r.done
    BY <1>f, <1>2 DEF ZipTemporary, At, DonePcs
  <2>2. CASE \E z : worker' = Upd(w, ToZip(r, "patch", z))
    <3>0. PICK z : worker' = Upd(w, ToZip(r, "patch", z))
      BY <2>2
    <3>1. Leaves(r, ToZip(r, "patch", z), "patch", r.got)
      BY <1>ToZip
    <3>2. Moves(w, ToZip(r, "patch", z))
      BY <3>0, <3>1, <2>1, Kept DEF Leaves
    <3> QED BY <3>2
  <2> QED BY Records, <1>1, <1>f, <2>1, <2>2, <1>4
<1>g. CASE PatchItem(w)
  BY Records, <1>1, <1>g, <1>4 DEF PatchItem, At
<1>h. CASE Download(w)
  <2>1. r.pc = "download" /\ ~r.done
    BY <1>h, <1>2 DEF Download, At, DonePcs
  <2>2. CASE worker' = Upd(w, Over(r, "end"))
    <3>1. Fielded(Over(r, "end")) /\ Over(r, "end").pc = "end" /\ Over(r, "end").got = r.got /\ Same(r, Over(r, "end"))
      BY <1>Over
    <3>2. Moves(w, Over(r, "end"))
      BY <3>1, <2>2 DEF Moves, DonePcs
    <3> QED BY <3>2
  <2>3. CASE Valid(r.item) /\ worker' = Upd(w, ToGot(r, "auto", items[r.item.at].version))
    <3> DEFINE v == items[r.item.at].version
    <3>1. Leaves(r, ToGot(r, "auto", v), "auto", v)
      BY <1>ToGot
    <3>2. items[r.item.at] \in ToSet(items)
      BY <2>3 DEF MenuInv, PointerInv, Good, Valid, ToSet
    <3>3. v # Absent
      BY <3>2 DEF MenuInv, ItemsInv, Entry
    <3>4. Moves(w, ToGot(r, "auto", v))
      <4> HIDE DEF v
      <4> QED BY <3>1, <2>1, <2>3, <3>3 DEF Moves, v, Leaves
    <3> QED BY <3>4
  <2> QED BY Records, <1>1, <1>h, <2>2, <2>3
<1>i. CASE AutoBackup(w)
  <2>1. r.pc = "auto" /\ ~r.done
    BY <1>i, <1>2 DEF AutoBackup, At, DonePcs
  <2>2. ASSUME NEW p \in {"zip", "zip remote"}, worker' = Upd(w, ToPath(r, data.path, p))
        PROVE  \E t : Moves(w, t)
    <3> DEFINE h == data.path
    <3> HIDE DEF h
    <3>1. Leaves(r, ToPath(r, h, p), p, r.got)
      BY <1>ToPath
    <3>2. Moves(w, ToPath(r, h, p))
      BY <3>1, <2>2, <2>1, Kept DEF h, Leaves
    <3> QED BY <3>2
  <2> QED BY Records, <1>1, <1>i, <2>1, <2>2, <1>3
<1>j. CASE PutPathBack(w)
  BY Records, <1>1, <1>j, <1>3 DEF PutPathBack, At, DonePcs
<1>k. CASE WipeSave(w)
  BY Records, <1>1, <1>k, <1>3, <1>4 DEF WipeSave, At, DonePcs
<1>l. CASE OpenBackup(w)
  <2>1. r.pc = "open"
    BY <1>l DEF OpenBackup, At
  <2>2. CASE r.got = Absent /\ There # Absent /\ worker' = Upd(w, ToGot(r, "copy", There))
    <3> DEFINE v == There
    <3>1. Leaves(r, ToGot(r, "copy", v), "copy", v)
      BY <1>ToGot
    <3>2. Moves(w, ToGot(r, "copy", v))
      <4> HIDE DEF v
      <4> QED BY <3>1, <2>1, <2>2 DEF Moves, v, DonePcs, Leaves
    <3> QED BY <3>2
  <2> QED BY Records, <1>1, <1>l, <2>1, <2>2, <1>3, <1>4 DEF DonePcs
<1>m. CASE CopyBack(w)
  BY Records, <1>1, <1>m, <1>3, <1>4 DEF CopyBack, At, DonePcs
<1>n. CASE DeleteLocal(w)
  BY Records, <1>1, <1>n, <1>3 DEF DeleteLocal, At, DonePcs
<1>o. CASE DeleteRemote(w)
  BY Records, <1>1, <1>o, <1>3 DEF DeleteRemote, At, DonePcs
<1>p. CASE ShowAndComplete(w)
  BY Records, <1>1, <1>p, <1>4 DEF ShowAndComplete, At
<1>q. CASE TaskEnds(w)
  BY Records, <1>1, <1>q, Idles DEF Moves, DonePcs
<1> QED
  BY <1>a, <1>b, <1>c, <1>d, <1>e, <1>f, <1>g, <1>h, <1>i, <1>j, <1>k, <1>l, <1>m, <1>n,
     <1>o, <1>p, <1>q
  DEF Step
-----------------------------------------------------------------------------
\* What a step of thread w does to the drive: the items stay where they are
\* under their names, or they move and the thread has to refresh the menu.
Stay == age' = age /\ DOMAIN items' = DOMAIN items /\ \A i \in DOMAIN items : items'[i].name = items[i].name
Moved(w) == age' = age + 1 /\ worker[w].pc \in {"send", "remove"} /\ worker'[w].pc \in {"refresh", "show"}
            /\ ~worker'[w].done

\* upload_file appends an entry.
LEMMA Grown ==
  ASSUME ItemsInv, NEW e, Entry(e), items' = Append(items, e), age' = age + 1
  PROVE  ItemsInv'
<1> DEFINE S == ToSet(items) \cup {e}
<1>1. items \in Seq(S)
  <2>1. items \in Seq(ToSet(items))
    BY DEF ItemsInv
  <2> QED BY <2>1
<1>2. items' \in Seq(S)
  BY <1>1, AppendProperties
<1>3. items' \in Seq(ToSet(items')) /\ ToSet(items') \subseteq S
  BY <1>2, OwnSeq
<1> QED BY <1>3 DEF ItemsInv

\* delete_file erases one.
LEMMA Shrunk ==
  ASSUME ItemsInv, NEW at \in DOMAIN items, items' = RemoveAt(items, at), age' = age + 1
  PROVE  ItemsInv'
<1> DEFINE S == ToSet(items)
<1>1. items \in Seq(S) /\ Len(items) \in Nat /\ DOMAIN items = 1..Len(items)
  BY LenProperties DEF ItemsInv
<1>2. SubSeq(items, 1, at - 1) \in Seq(S) /\ SubSeq(items, at + 1, Len(items)) \in Seq(S)
  BY <1>1, SubSeqProperties
<1>3. items' \in Seq(S)
  BY <1>2, ConcatProperties DEF RemoveAt
<1>4. items' \in Seq(ToSet(items')) /\ ToSet(items') \subseteq S
  BY <1>3, OwnSeq
<1> QED BY <1>4 DEF ItemsInv

\* What keeps the names in their places keeps the items.
LEMMA Reshaped ==
  ASSUME ItemsInv, items' \in [DOMAIN items -> ToSet(items')], age' = age,
         \A j \in DOMAIN items : items'[j].name = items[j].name /\ Entry(items'[j])
  PROVE  ItemsInv' /\ Stay
<1>1. Len(items) \in Nat /\ DOMAIN items = 1..Len(items)
  BY LenProperties DEF ItemsInv
<1>2. items' \in Seq(ToSet(items'))
  BY <1>1
<1>3. \A e \in ToSet(items') : Entry(e)
  BY DEF ToSet
<1> QED BY <1>2, <1>3 DEF ItemsInv, Stay

\* patch_file replaces a version in place.
LEMMA Patched ==
  ASSUME ItemsInv, NEW i \in DOMAIN items, NEW v, v # Absent,
         items' = [items EXCEPT ![i].version = v], age' = age
  PROVE  ItemsInv' /\ Stay
<1>1. \A j \in DOMAIN items : Entry(items[j])
  BY DEF ItemsInv, ToSet
<1>2. \A j \in DOMAIN items : items'[j].name = items[j].name /\ Entry(items'[j])
  BY <1>1 DEF Entry
<1>3. items \in [DOMAIN items -> ToSet(items)]
  BY LenProperties DEF ItemsInv
<1>4. items' \in [DOMAIN items -> ToSet(items')]
  BY <1>3 DEF ToSet
<1> QED BY <1>2, <1>4, Reshaped

\* Every step of a thread leaves the items where they are or has to refresh.
LEMMA StepDrive ==
  ASSUME MenuInv, NEW w \in Worker, Step(w)
  PROVE  ItemsInv' /\ (Stay \/ Moved(w))
<1>1. ItemsInv /\ Shaped(worker)
  BY DEF MenuInv, ShapeInv
<1>2. UNCHANGED <<items, age>> => ItemsInv' /\ Stay
  BY <1>1 DEF ItemsInv, Stay
<1>3. \A t, p : t = To(worker[w], p) /\ worker' = Upd(w, t) => worker'[w].pc = p /\ worker'[w].done = worker[w].done
  BY <1>1, FormTo, Updated DEF Shaped
<1>4. worker[w].pc \in {"send", "remove"} => ~worker[w].done
  BY NotDone DEF DonePcs
<1>a. CASE SendBackup(w)
  <2>1. worker[w].pc = "send" /\ worker'[w].pc = "refresh" /\ ~worker'[w].done
    BY <1>a, <1>1, <1>3, <1>4, Records DEF SendBackup, At
  <2>2. Entry(Sends(w)) \/ Sends(w).version = Absent
    BY DEF Sends, Entry
  <2>3. CASE items' = Append(items, Sends(w)) /\ age' = age + 1 /\ Accepts(Sends(w))
    BY <2>1, <2>2, <2>3, <1>1, Grown DEF Accepts, Moved
  <2> QED BY <1>a, <1>2, <2>3 DEF SendBackup
<1>b. CASE DeleteRemote(w)
  <2>1. worker[w].pc = "remove" /\ worker'[w].pc = "show" /\ ~worker'[w].done
    BY <1>b, <1>1, <1>3, <1>4, Records DEF DeleteRemote, At
  <2>2. CASE Valid(worker[w].item) /\ items' = RemoveAt(items, worker[w].item.at) /\ age' = age + 1
    <3>1. worker[w].item.at \in DOMAIN items
      BY <2>2 DEF MenuInv, PointerInv, Good, Valid
    <3> QED BY <2>1, <2>2, <3>1, <1>1, Shrunk DEF Moved
  <2> QED BY <1>b, <1>2, <2>2 DEF DeleteRemote
<1>c. CASE PatchItem(w)
  <2>1. CASE UNCHANGED items
    BY <1>c, <1>2, <2>1 DEF PatchItem
  <2>2. CASE Patching(w) # Absent /\ \E i \in Hit(worker[w].item) : items' = [items EXCEPT ![i].version = Patching(w)]
    <3>1. PICK i \in Hit(worker[w].item) : items' = [items EXCEPT ![i].version = Patching(w)]
      BY <2>2
    <3>2. i \in DOMAIN items
      BY DEF Hit, Valid, MenuInv, PointerInv, Good
    <3>3. age' = age
      BY <1>c DEF PatchItem
    <3> QED BY <2>2, <3>1, <3>2, <3>3, <1>1, Patched
  <2> QED BY <1>c, <2>1, <2>2 DEF PatchItem
<1>d. CASE UNCHANGED <<items, age>>
  BY <1>2, <1>d
<1>e. ASSUME CreateLocal(w) \/ CreateForRemote(w) \/ ShowCreated(w) \/ DropOld(w) \/ ZipTemporary(w)
             \/ Download(w) \/ AutoBackup(w) \/ PutPathBack(w) \/ WipeSave(w)
             \/ OpenBackup(w) \/ CopyBack(w) \/ DeleteLocal(w) \/ ShowAndComplete(w) \/ TaskEnds(w)
      PROVE  UNCHANGED <<items, age>>
  BY <1>e DEF CreateLocal, CreateForRemote, ShowCreated, DropOld, ZipTemporary, Download,
     AutoBackup,
     PutPathBack, WipeSave, OpenBackup, CopyBack, DeleteLocal, ShowAndComplete, TaskEnds, drives
<1> QED BY <1>a, <1>b, <1>c, <1>d, <1>e DEF Step

\* The rest of what a step of thread w does: the menu is kept or refreshed,
\* and refreshed by the thread that has to.
LEMMA StepMenu ==
  ASSUME MenuInv, NEW w \in Worker, Step(w)
  PROVE  /\ UNCHANGED <<connected, inTitle, opened>>
         /\ menu' = menu \/ Refresh
         /\ Refreshing(w) => Refresh /\ UNCHANGED <<items, age>>
         /\ data' = [x \in DataFields |-> data'[x]] /\ data'.item = data.item
<1>1. data = [x \in DataFields |-> data[x]]
  BY DEF MenuInv, ShapeInv
<1>2. UNCHANGED <<connected, inTitle, opened>>
  BY DEF Step, At, CreateLocal, CreateForRemote, SendBackup, ShowCreated, DropOld,
     ZipTemporary, PatchItem,
     Download, AutoBackup, PutPathBack, WipeSave, OpenBackup, CopyBack, DeleteLocal, DeleteRemote,
     ShowAndComplete, TaskEnds
<1>3. menu' = menu \/ Refresh
  BY DEF Step, At, CreateLocal, CreateForRemote, SendBackup, ShowCreated, DropOld,
     ZipTemporary, PatchItem,
     Download, AutoBackup, PutPathBack, WipeSave, OpenBackup, CopyBack, DeleteLocal, DeleteRemote,
     ShowAndComplete, TaskEnds
<1>4. ASSUME Refreshing(w) PROVE ShowCreated(w) \/ ShowAndComplete(w)
  BY <1>4 DEF Refreshing, Step, At, CreateLocal, CreateForRemote, SendBackup, DropOld,
     ZipTemporary, PatchItem,
     Download, AutoBackup, PutPathBack, WipeSave, OpenBackup, CopyBack, DeleteLocal, DeleteRemote, TaskEnds
<1>5. Refreshing(w) => Refresh /\ UNCHANGED <<items, age>>
  BY <1>4 DEF ShowCreated, ShowAndComplete, drives
<1>6. data' = [x \in DataFields |-> data'[x]] /\ data'.item = data.item
  <2>1. CASE DropOld(w)
    BY <2>1, <1>1 DEF DropOld, MustKill, DataFields
  <2>2. CASE AutoBackup(w)
    BY <2>2, <1>1 DEF AutoBackup, DataFields
  <2>3. CASE PutPathBack(w)
    BY <2>3, <1>1 DEF PutPathBack, DataFields
  <2>4. CASE UNCHANGED data
    BY <2>4, <1>1
  <2> QED
    BY <2>1, <2>2, <2>3, <2>4 DEF Step, At, CreateLocal, CreateForRemote, SendBackup,
       ShowCreated, ZipTemporary,
       PatchItem, Download, WipeSave, OpenBackup, CopyBack, DeleteLocal, DeleteRemote, ShowAndComplete, TaskEnds
<1> QED BY <1>2, <1>3, <1>5, <1>6
-----------------------------------------------------------------------------
\* What the menu shows while it takes input.
LEMMA Focus ==
  ASSUME MenuInv, HasFocus
  PROVE  /\ inTitle => menu.remote = ItemsShown
         /\ \A i \in DOMAIN menu.remote :
               /\ Good(menu.remote[i].item)
               /\ Valid(menu.remote[i].item) => items[menu.remote[i].item.at].name = menu.remote[i].name
<1>1. \A w \in Worker : ~Refreshing(w)
  BY DEF HasFocus, Refreshing
<1>2. inTitle => menu.remote = ItemsShown
  BY <1>1 DEF MenuInv, ShownInv, HasFocus
<1>3. ~inTitle => menu.remote \in {<<>>, RootShown}
  BY DEF MenuInv, ShownInv, HasFocus
<1>4. CASE inTitle
  BY <1>2, <1>4, Pointers DEF MenuInv, ItemsInv, Good, Valid
<1>5. CASE menu.remote = RootShown
  <2>1. DOMAIN menu.remote = {1} /\ menu.remote[1].item.at = 0
    BY <1>5 DEF RootShown, Foreign
  <2> QED BY <1>2, <1>4, <2>1 DEF Good, Valid
<1>6. CASE menu.remote = <<>>
  BY <1>2, <1>4, <1>6
<1> QED BY <1>2, <1>3, <1>4, <1>5, <1>6

\* What the user picks: a task for an idle thread, whose pointer is one the
\* menu shows or one that data has.
Begins(t) == \E w \in Worker : worker[w] = Idle /\ worker' = Upd(w, t)
Picked(op, pc, name, item) ==
    /\ Good(item)
    /\ op = "restore remote" => pc = "download" /\ (Valid(item) => items[item.at].name = name)

\* A pick leaves the drive and the menu alone, and starts such a task or none.
LEMMA PickStarts ==
  ASSUME MenuInv, Pick
  PROVE  /\ HasFocus /\ UNCHANGED <<connected, items, age, inTitle, opened, menu, save>>
         /\ data' = [x \in DataFields |-> data'[x]] /\ Good(data'.item)
         /\ \/ worker' = worker
            \/ \E op, pc, name, item : Begins(Task(op, pc, name, item)) /\ Picked(op, pc, name, item)
<1>1. HasFocus /\ UNCHANGED <<connected, items, age, inTitle, opened, menu, save>>
  BY DEF Pick, NewBackup, PickOverwrite, PickRestore, PickDelete, PickUpload, Picks, drives
<1>2. data = [x \in DataFields |-> data[x]] /\ Good(data.item) /\ Good(Null)
  BY DEF MenuInv, ShapeInv, PointerInv, Good, Null
<1> DEFINE Ends == \/ worker' = worker
                   \/ \E op, pc, name, item : Begins(Task(op, pc, name, item)) /\ Picked(op, pc, name, item)
           Data == data' = [x \in DataFields |-> data'[x]] /\ Good(data'.item)
<1>3. \A op, pc, name, item : Begins(Task(op, pc, name, item)) /\ Picked(op, pc, name, item) => Ends
  OBVIOUS
<1>5. Declined => Ends
  BY DEF Declined
<1>6. \A n : data' = [data EXCEPT !.path = n] => Data
  BY <1>2 DEF DataFields
<1>7. ASSUME NEW i \in DOMAIN menu.remote
      PROVE  /\ Good(menu.remote[i].item)
             /\ Picked("restore remote", "download", menu.remote[i].name, menu.remote[i].item)
             /\ data' = [data EXCEPT !.item = menu.remote[i].item] => Data /\ data'.item = menu.remote[i].item
             /\ data' = [data EXCEPT !.item = menu.remote[i].item, !.path = TitleDirectory] =>
                   Data /\ data'.item = menu.remote[i].item
  <2>1. Good(menu.remote[i].item)
        /\ Picked("restore remote", "download", menu.remote[i].name, menu.remote[i].item)
    BY <1>1, Focus DEF Picked
  <2> QED BY <1>2, <2>1 DEF DataFields
<1> HIDE DEF Data, Ends
<1>a. ASSUME NewBackup PROVE Data /\ Ends
  <2> DEFINE pc == IF config.autoUpload /\ connected THEN "zip remote" ELSE "zip"
  <2>1. PICK n \in {NewName} \cup Held(local) :
          /\ data' = [data EXCEPT !.path = n, !.remoteName = n, !.kill = TRUE]
          /\ Starts("new", pc, n, Null)
    BY <1>a DEF NewBackup
  <2> HIDE DEF pc
  <2>2. Data
    BY <2>1, <1>2 DEF Data, DataFields
  <2>3. Begins(Task("new", pc, n, Null))
    BY <2>1 DEF Starts, Begins, Upd
  <2>4. Picked("new", pc, n, Null)
    BY <1>2 DEF Picked
  <2> QED BY <2>2, <2>3, <2>4, <1>3
<1>b. ASSUME PickOverwrite PROVE Data /\ Ends
  <2>1. CASE \E n \in menu.local :
          data' = [data EXCEPT !.path = n] /\ (Starts("overwrite", "drop", n, Null) \/ Declined)
    <3>1. PICK n \in menu.local :
            data' = [data EXCEPT !.path = n] /\ (Starts("overwrite", "drop", n, Null) \/ Declined)
      BY <2>1
    <3>2. Starts("overwrite", "drop", n, Null) => Begins(Task("overwrite", "drop", n, Null))
      BY DEF Starts, Begins, Upd
    <3>3. Picked("overwrite", "drop", n, Null)
      BY <1>2 DEF Picked
    <3> QED BY <3>1, <3>2, <3>3, <1>3, <1>5, <1>6
  <2>2. CASE \E i \in DOMAIN menu.remote :
          /\ data' = [data EXCEPT !.item = menu.remote[i].item]
          /\ Starts("overwrite remote", "zip temp", menu.remote[i].name, data'.item) \/ Declined
    <3>1. PICK i \in DOMAIN menu.remote :
            /\ data' = [data EXCEPT !.item = menu.remote[i].item]
            /\ Starts("overwrite remote", "zip temp", menu.remote[i].name, data'.item) \/ Declined
      BY <2>2
    <3>2. Data /\ data'.item = menu.remote[i].item
      BY <3>1, <1>7
    <3>3. Starts("overwrite remote", "zip temp", menu.remote[i].name, data'.item) =>
             Begins(Task("overwrite remote", "zip temp", menu.remote[i].name, menu.remote[i].item))
      BY <3>2 DEF Starts, Begins, Upd
    <3>4. Picked("overwrite remote", "zip temp", menu.remote[i].name, menu.remote[i].item)
      BY <1>7 DEF Picked
    <3> QED BY <3>1, <3>2, <3>3, <3>4, <1>3, <1>5
  <2> QED BY <1>b, <2>1, <2>2 DEF PickOverwrite
<1>c. ASSUME PickRestore PROVE Data /\ Ends
  <2>1. CASE \E n \in menu.local :
          data' = [data EXCEPT !.path = n] /\ (Starts("restore", "auto", n, Null) \/ Declined)
    <3>1. PICK n \in menu.local :
            data' = [data EXCEPT !.path = n] /\ (Starts("restore", "auto", n, Null) \/ Declined)
      BY <2>1
    <3>2. Starts("restore", "auto", n, Null) => Begins(Task("restore", "auto", n, Null))
      BY DEF Starts, Begins, Upd
    <3>3. Picked("restore", "auto", n, Null)
      BY <1>2 DEF Picked
    <3> QED BY <3>1, <3>2, <3>3, <1>3, <1>5, <1>6
  <2>2. CASE \E i \in DOMAIN menu.remote :
          /\ data' = [data EXCEPT !.item = menu.remote[i].item, !.path = TitleDirectory]
          /\ Starts("restore remote", "download", menu.remote[i].name, data'.item) \/ Declined
    <3>1. PICK i \in DOMAIN menu.remote :
            /\ data' = [data EXCEPT !.item = menu.remote[i].item, !.path = TitleDirectory]
            /\ Starts("restore remote", "download", menu.remote[i].name, data'.item) \/ Declined
      BY <2>2
    <3>2. Data /\ data'.item = menu.remote[i].item
      BY <3>1, <1>7
    <3>3. Starts("restore remote", "download", menu.remote[i].name, data'.item) =>
             Begins(Task("restore remote", "download", menu.remote[i].name, menu.remote[i].item))
      BY <3>2 DEF Starts, Begins, Upd
    <3>4. Picked("restore remote", "download", menu.remote[i].name, menu.remote[i].item)
      BY <1>7 DEF Picked
    <3> QED BY <3>1, <3>2, <3>3, <3>4, <1>3, <1>5
  <2> QED BY <1>c, <2>1, <2>2 DEF PickRestore
<1>d. ASSUME PickDelete PROVE Data /\ Ends
  <2>1. CASE \E n \in menu.local :
          data' = [data EXCEPT !.path = n] /\ (Starts("delete", "remove", n, Null) \/ Declined)
    <3>1. PICK n \in menu.local :
            data' = [data EXCEPT !.path = n] /\ (Starts("delete", "remove", n, Null) \/ Declined)
      BY <2>1
    <3>2. Starts("delete", "remove", n, Null) => Begins(Task("delete", "remove", n, Null))
      BY DEF Starts, Begins, Upd
    <3>3. Picked("delete", "remove", n, Null)
      BY <1>2 DEF Picked
    <3> QED BY <3>1, <3>2, <3>3, <1>3, <1>5, <1>6
  <2>2. CASE \E i \in DOMAIN menu.remote :
          /\ data' = [data EXCEPT !.item = menu.remote[i].item]
          /\ Starts("delete remote", "remove", menu.remote[i].name, data'.item) \/ Declined
    <3>1. PICK i \in DOMAIN menu.remote :
            /\ data' = [data EXCEPT !.item = menu.remote[i].item]
            /\ Starts("delete remote", "remove", menu.remote[i].name, data'.item) \/ Declined
      BY <2>2
    <3>2. Data /\ data'.item = menu.remote[i].item
      BY <3>1, <1>7
    <3>3. Starts("delete remote", "remove", menu.remote[i].name, data'.item) =>
             Begins(Task("delete remote", "remove", menu.remote[i].name, menu.remote[i].item))
      BY <3>2 DEF Starts, Begins, Upd
    <3>4. Picked("delete remote", "remove", menu.remote[i].name, menu.remote[i].item)
      BY <1>7 DEF Picked
    <3> QED BY <3>1, <3>2, <3>3, <3>4, <1>3, <1>5
  <2> QED BY <1>d, <2>1, <2>2 DEF PickDelete
<1>e. ASSUME PickUpload PROVE Data /\ Ends
  <2>1. PICK n \in menu.local :
          /\ data' = [data EXCEPT !.path = n]
          /\ Starts("patch", "patch", n, data.item) \/ Declined \/ Starts("upload", "send", n, Null)
    BY <1>e DEF PickUpload
  <2>2. /\ Starts("patch", "patch", n, data.item) => Begins(Task("patch", "patch", n, data.item))
        /\ Starts("upload", "send", n, Null) => Begins(Task("upload", "send", n, Null))
    BY DEF Starts, Begins, Upd
  <2>3. Picked("patch", "patch", n, data.item) /\ Picked("upload", "send", n, Null)
    BY <1>2 DEF Picked
  <2> QED BY <2>1, <2>2, <2>3, <1>3, <1>5, <1>6
<1> QED BY <1>1, <1>a, <1>b, <1>c, <1>d, <1>e DEF Pick, Data, Ends

-----------------------------------------------------------------------------
\* When the items stay in their places the menu shows the same.
LEMMA StayShown == Stay => ItemsShown' = ItemsShown
BY DEF Stay, ItemsShown, Pointer

\* A pointer that was no newer than the vector stays so, and is valid
\* afterwards only if the items have stayed where they were.
LEMMA GoodKept ==
  ASSUME ItemsInv, Stay \/ age' = age + 1, NEW p, Good(p)
  PROVE  /\ p.at # 0 => /\ p.age \in Nat /\ p.age <= age'
                        /\ p.age = age' => p.at \in DOMAIN items'
         /\ p.at # 0 /\ p.age = age' => Valid(p) /\ items'[p.at].name = items[p.at].name
BY DEF Good, ItemsInv, Stay, Valid

\* The steps of the tasks keep the invariant.
LEMMA StepKeepsMenu ==
  ASSUME MenuInv, NEW w \in Worker, Step(w)
  PROVE  MenuInv'
<1>1. PICK t : Moves(w, t)
  BY StepMoves
<1>2. ItemsInv' /\ (Stay \/ Moved(w))
  BY StepDrive
<1>3. Shaped(worker') /\ worker'[w] = t /\ \A v \in Worker : v # w => worker'[v] = worker[v]
  <2>1. Shaped(worker) /\ Fielded(t) /\ worker' = Upd(w, t)
    BY <1>1 DEF Moves, MenuInv, ShapeInv
  <2> QED BY <2>1, Updated
<1>4. ShapeInv'
  BY <1>3, StepMenu DEF ShapeInv, Shaped
<1>5. DoneInv'
  BY <1>1, <1>3 DEF MenuInv, DoneInv, Moves, DonePcs
<1>6. ItemsInv /\ (Stay \/ age' = age + 1)
  BY <1>2 DEF MenuInv, Moved
<1>7. PointerInv'
  <2>1. Good(data.item) /\ \A v \in Worker : Good(worker[v].item)
    BY DEF MenuInv, PointerInv
  <2>2. Good(t.item)
    <3>1. CASE t = Idle
      <4>1. t.item.at = 0
        BY <3>1, Idles DEF Null
      <4> QED BY <4>1 DEF Good
    <3>2. CASE Same(worker[w], t)
      BY <2>1, <3>2 DEF Same
    <3> QED BY <1>1, <3>1, <3>2 DEF Moves
  <2>3. data'.item = data.item
    BY StepMenu
  <2>4. \A v \in Worker : Good(worker'[v].item)
    BY <1>3, <2>1, <2>2
  <2> QED BY <1>6, <2>1, <2>3, <2>4, GoodKept DEF PointerInv, Good
<1>8. RestoreInv'
  <2> SUFFICES ASSUME NEW v \in Worker, worker'[v].op = "restore remote"
               PROVE  /\ worker'[v].pc = "download" /\ worker'[v].item.at # 0 /\ worker'[v].item.age = age' =>
                            items'[worker'[v].item.at].name = worker'[v].name
                      /\ worker'[v].pc \notin {"download", "end"} => worker'[v].got # Absent
    BY DEF RestoreInv, Valid
  <2>1. CASE v = w
    BY <1>1, <1>3, <2>1 DEF Moves
  <2>2. CASE v # w
    <3>1. worker'[v] = worker[v]
      BY <1>3, <2>2
    <3>2. Good(worker[v].item)
      BY DEF MenuInv, PointerInv
    <3> QED BY <1>6, <3>1, <3>2, GoodKept DEF MenuInv, RestoreInv, Valid
  <2> QED BY <2>1, <2>2
<1>9. ShownInv'
  <2> SUFFICES ASSUME opened
               PROVE  /\ inTitle => connected /\ (menu'.remote = ItemsShown' \/ \E v \in Worker : Refreshing(v)')
                      /\ ~inTitle => menu'.remote \in {<<>>, RootShown}
    BY StepMenu DEF ShownInv
  <2>1. /\ inTitle => connected /\ (menu.remote = ItemsShown \/ \E v \in Worker : Refreshing(v))
        /\ ~inTitle => menu.remote \in {<<>>, RootShown}
    BY DEF MenuInv, ShownInv
  <2>2. Refresh => /\ inTitle => menu'.remote = ItemsShown
                   /\ ~inTitle => menu'.remote \in {<<>>, RootShown}
    BY <2>1 DEF Refresh, MenuShows
  <2>3. menu' = menu \/ Refresh
    BY StepMenu
  <2>4. CASE Moved(w)
    BY <2>1, <2>2, <2>3, <2>4 DEF Moved, Refreshing
  <2>5. CASE Stay
    <3>1. ItemsShown' = ItemsShown
      BY <2>5, StayShown
    <3>2. CASE Refresh
      BY <2>1, <2>2, <3>1, <3>2
    <3>3. CASE ~Refresh
      <4>1. ~Refreshing(w) /\ menu' = menu
        BY <3>3, StepMenu
      <4>2. \A v \in Worker : Refreshing(v) => Refreshing(v)'
        BY <4>1, <1>3 DEF Refreshing
      <4> QED BY <2>1, <3>1, <4>1, <4>2
    <3> QED BY <3>2, <3>3
  <2> QED BY <1>2, <2>4, <2>5
<1> QED BY <1>2, <1>4, <1>5, <1>7, <1>8, <1>9 DEF MenuInv

\* What a download puts into the task.
LEMMA GotAfter ==
  ASSUME Shaped(worker), NEW w \in Worker, NEW p, NEW x
  PROVE  worker' = Upd(w, ToGot(worker[w], p, x)) => worker'[w].got = x
<1>1. Fielded(worker[w])
  BY DEF Shaped
<1>2. Fielded(ToGot(worker[w], p, x)) /\ ToGot(worker[w], p, x).got = x
  BY <1>1, FormToGot
<1> QED BY <1>2, Updated

\* Only a download, and a restore that has nothing yet, changes what a task has.
LEMMA StepKeepsGot ==
  ASSUME Shaped(worker), NEW w \in Worker, Step(w), ~Download(w), ~TaskEnds(w), worker[w].got # Absent
  PROVE  worker'[w].got = worker[w].got
<1> DEFINE r == worker[w]
<1>1. Fielded(r)
  BY DEF Shaped
<1>2. \A p : /\ worker' = Upd(w, To(r, p)) => worker'[w].got = r.got
             /\ worker' = Upd(w, Over(r, p)) => worker'[w].got = r.got
  BY <1>1, FormTo, FormOver, Updated
<1>3. \A p, x : /\ worker' = Upd(w, ToKill(r, p, x)) => worker'[w].got = r.got
                /\ worker' = Upd(w, ToZip(r, p, x)) => worker'[w].got = r.got
                /\ worker' = Upd(w, ToPath(r, x, p)) => worker'[w].got = r.got
  BY <1>1, FormToKill, FormToZip, FormToPath, Updated
<1>4. \A p, x, y : worker' = Upd(w, ToZipKill(r, p, x, y)) => worker'[w].got = r.got
  BY <1>1, FormToZipKill, Updated
<1>5. \A t : worker' = Upd(w, t) /\ Fielded(t) => worker'[w] = t
  BY Updated
<1>6. CASE CreateLocal(w) \/ CreateForRemote(w)
  <2> DEFINE k == data.kill
  <2>1. \/ worker' \in {Upd(w, ToKill(r, "refresh", k)), Upd(w, Over(r, "back")), Upd(w, Over(r, "end"))}
        \/ \E z : worker' = Upd(w, ToZipKill(r, "send", z, k))
    BY <1>6, Records
  <2> HIDE DEF k
  <2> QED BY <2>1, <1>2, <1>3, <1>4
<1>7. CASE SendBackup(w) \/ DropOld(w) \/ PatchItem(w) \/ PutPathBack(w) \/ WipeSave(w)
           \/ CopyBack(w) \/ DeleteLocal(w) \/ DeleteRemote(w) \/ ShowAndComplete(w)
  BY <1>7, <1>2, Records
<1>8. CASE ShowCreated(w)
  BY <1>8, <1>5, Records
<1>9. CASE ZipTemporary(w)
  BY <1>9, <1>2, <1>3, Records
<1>10. CASE AutoBackup(w)
  <2> DEFINE h == data.path
  <2>1. worker' \in {Upd(w, ToPath(r, h, "zip remote")), Upd(w, ToPath(r, h, "zip")), Upd(w, To(r, "wipe"))}
    BY <1>10, Records
  <2> HIDE DEF h
  <2> QED BY <2>1, <1>2, <1>3
<1>11. CASE OpenBackup(w)
  BY <1>11, <1>2, Records
<1> QED BY <1>6, <1>7, <1>8, <1>9, <1>10, <1>11 DEF Step

\* What the user picks keeps the invariant.
LEMMA PickKeepsMenu ==
  ASSUME MenuInv, Pick
  PROVE  MenuInv'
<1>1. /\ HasFocus /\ UNCHANGED <<connected, items, age, inTitle, opened, menu>>
      /\ data' = [x \in DataFields |-> data'[x]] /\ Good(data'.item)
  BY PickStarts
<1>2. ItemsInv'
  BY <1>1 DEF MenuInv, ItemsInv
<1>3. ShownInv'
  <2>1. opened /\ (inTitle => connected /\ menu.remote = ItemsShown) /\ (~inTitle => menu.remote \in {<<>>, RootShown})
    BY <1>1, Focus DEF MenuInv, ShownInv, HasFocus
  <2>2. ItemsShown' = ItemsShown
    BY <1>1 DEF ItemsShown, Pointer
  <2> QED BY <1>1, <2>1, <2>2 DEF ShownInv
<1>4. CASE worker' = worker
  BY <1>1, <1>2, <1>3, <1>4 DEF MenuInv, ShapeInv, DoneInv, PointerInv, RestoreInv, Good,
     Valid, Shaped
<1>5. CASE \E op, pc, name, item : Begins(Task(op, pc, name, item)) /\ Picked(op, pc, name, item)
  <2>0. PICK op, pc, name, item : Begins(Task(op, pc, name, item)) /\ Picked(op, pc, name, item)
    BY <1>5
  <2>1. PICK w \in Worker : worker[w] = Idle /\ worker' = Upd(w, Task(op, pc, name, item))
    BY <2>0 DEF Begins
  <2> DEFINE t == Task(op, pc, name, item)
  <2>2. Fielded(t) /\ t.op = op /\ t.pc = pc /\ t.name = name /\ t.item = item /\ t.done = FALSE
    BY DEF Task, Fielded, Fields
  <2> HIDE DEF t
  <2>3. Shaped(worker') /\ worker'[w] = t /\ \A v \in Worker : v # w => worker'[v] = worker[v]
    BY <2>1, <2>2, Updated DEF t, MenuInv, ShapeInv
  <2>4. ShapeInv'
    BY <1>1, <2>3 DEF ShapeInv, Shaped
  <2>5. DoneInv'
    BY <2>2, <2>3 DEF MenuInv, DoneInv
  <2>6. PointerInv'
    <3>1. Good(item) /\ \A v \in Worker : Good(worker[v].item)
      BY <2>0 DEF MenuInv, PointerInv, Picked
    <3>2. \A v \in Worker : Good(worker'[v].item)
      BY <2>2, <2>3, <3>1
    <3> QED BY <1>1, <3>2 DEF PointerInv, Good
  <2>7. RestoreInv'
    <3>1. \A v \in Worker : worker'[v].op = "restore remote" =>
             /\ worker'[v].pc = "download" /\ Valid(worker'[v].item) =>
                   items[worker'[v].item.at].name = worker'[v].name
             /\ worker'[v].pc \notin {"download", "end"} => worker'[v].got # Absent
      BY <2>0, <2>2, <2>3 DEF MenuInv, RestoreInv, Picked
    <3> QED BY <1>1, <3>1 DEF RestoreInv, Valid
  <2> QED BY <1>2, <1>3, <2>4, <2>5, <2>6, <2>7 DEF MenuInv
<1> QED BY <1>4, <1>5, PickStarts

\* MenuInv is inductive.
LEMMA MenuInvariance == MenuInv /\ [Next]_vars => MenuInv'
<1> SUFFICES ASSUME MenuInv, [Next]_vars PROVE MenuInv'
  OBVIOUS
<1>1. CASE UNCHANGED vars
  BY <1>1 DEF vars, drives, MenuInv, ItemsInv, ShapeInv, Shaped, DoneInv, ShownInv,
     Refreshing, PointerInv,
     RestoreInv, Good, Valid, ItemsShown, Pointer
<1>2. CASE CloseMenu
  BY <1>2 DEF CloseMenu, drives, MenuInv, ItemsInv, ShapeInv, Shaped, DoneInv, ShownInv,
     PointerInv,
     RestoreInv, Good, Valid
<1>3. CASE OpenMenu
  <2>1. /\ UNCHANGED <<connected, items, age, worker>> /\ (inTitle' => connected)
        /\ menu' = MenuShows(inTitle') /\ data' = NoData
    BY <1>3 DEF OpenMenu, EntersTitle, drives
  <2>2. ShownInv'
    <3>1. ItemsShown' = ItemsShown
      BY <2>1 DEF ItemsShown, Pointer
    <3> QED BY <2>1, <3>1 DEF ShownInv, MenuShows
  <2>3. data' = [x \in DataFields |-> data'[x]] /\ data'.item.at = 0
    BY <2>1 DEF NoData, Null, DataFields
  <2> QED BY <2>1, <2>2, <2>3 DEF MenuInv, ItemsInv, ShapeInv, Shaped, DoneInv, PointerInv, RestoreInv, Good, Valid
<1> QED BY <1>1, <1>2, <1>3, StepKeepsMenu, PickKeepsMenu DEF Next

\* Whatever the number of threads, backups and failures, MenuInv holds.
THEOREM MenuHolds == Spec => []MenuInv
BY InitMenu, MenuInvariance, PTL DEF Spec

\* While the menu takes input every remote entry of it points to the item
\* of its name, and none is missing: get_directory_listing hands out
\* pointers into m_list, and whoever makes them stale refreshes the menu
\* before it completes its task.
THEOREM PointersStayGood == Spec => []MenuPointersGood
<1>1. MenuInv => MenuPointersGood
  BY Focus, Pointers DEF MenuPointersGood, MenuInv, ItemsInv, Valid
<1> QED BY <1>1, MenuHolds, PTL

\* restore_backup_remote deletes the save data only with an archive in hand,
\* it is the one the user agreed to, whatever other tasks did to m_list in
\* the meantime, and nothing but what it holds is written back.
THEOREM RestoresAreSafe == Spec => RemoteRestoreIsSafe
<1> DEFINE Safe == \A w \in Worker :
        worker[w].op = "restore remote" /\ worker'[w].pc # worker[w].pc =>
            /\ worker'[w].got \notin {worker[w].got, Absent} =>
                  [name |-> worker[w].name, version |-> worker'[w].got] \in ToSet(items)
            /\ save' # save =>
                  worker[w].got # Absent /\ save' \in {Empty, Torn, worker[w].got}
<1>1. MenuInv /\ [Next]_vars => [Safe]_vars
  <2> SUFFICES ASSUME MenuInv, Next, NEW w \in Worker,
                      worker[w].op = "restore remote", worker'[w].pc # worker[w].pc
               PROVE  /\ worker'[w].got \notin {worker[w].got, Absent} =>
                            [name |-> worker[w].name, version |-> worker'[w].got] \in ToSet(items)
                      /\ save' # save =>
                            worker[w].got # Absent /\ save' \in {Empty, Torn, worker[w].got}
    OBVIOUS
  <2>1. worker' # worker
    OBVIOUS
  <2>2. CASE Pick
    <3>1. PICK u \in Worker : \E t : worker[u] = Idle /\ worker' = Upd(u, t)
      BY <2>1, <2>2, PickStarts DEF Begins
    <3>2. u # w
      BY <3>1, Idles
    <3> QED BY <3>1, <3>2, Updated DEF Upd, MenuInv, ShapeInv, Shaped
  <2>3. CASE CloseMenu \/ OpenMenu
    BY <2>1, <2>3 DEF CloseMenu, OpenMenu
  <2>4. ASSUME NEW u \in Worker, Step(u), u # w PROVE FALSE
    <3>1. PICK t : Moves(u, t)
      BY <2>4, StepMoves
    <3>2. Shaped(worker) /\ Fielded(t) /\ worker' = Upd(u, t)
      BY <3>1 DEF Moves, MenuInv, ShapeInv
    <3>3. worker'[w] = worker[w]
      BY <2>4, <3>2, Updated, ZenonT(60)
    <3> QED BY <3>3
  <2>5. CASE Step(w)
    <3> DEFINE r == worker[w]
    <3>1. Shaped(worker) /\ Fielded(r) /\ Good(r.item)
      BY DEF MenuInv, ShapeInv, Shaped, PointerInv
    <3>0. \A t : worker' = Upd(w, t) /\ Fielded(t) => worker'[w] = t
      <4>1. Shaped(worker)
        BY <3>1
      <4>2. SUFFICES ASSUME NEW t, worker' = Upd(w, t), Fielded(t) PROVE Upd(w, t)[w] = t
        BY <4>1
      <4> QED BY <4>1, <4>2, Updated
    <3>2. r.pc \notin {"download", "end"} => r.got # Absent
      BY DEF MenuInv, RestoreInv
    <3>3. CASE Download(w)
      <4>1. r.pc = "download" /\ save' = save
        BY <3>3 DEF Download, At, drives
      <4>2. CASE worker' = Upd(w, Over(r, "end"))
        <5>1. worker'[w].got = r.got
          BY <3>0, <3>1, <4>2, FormOver, ZenonT(60)
        <5> QED BY <4>1, <5>1
      <4>3. CASE Valid(r.item) /\ worker' = Upd(w, ToGot(r, "auto", items[r.item.at].version))
        <5> DEFINE e == items[r.item.at]
        <5>1. worker'[w].got = e.version
          <6> DEFINE v == e.version
          <6>1. worker' = Upd(w, ToGot(r, "auto", v))
            BY <4>3
          <6> HIDE DEF v
          <6>2. worker'[w].got = v
            BY <3>1, <6>1, GotAfter
          <6> QED BY <6>2 DEF v
        <5>2. e \in ToSet(items)
          BY <3>1, <4>3 DEF Good, Valid, ToSet
        <5>3. e = [name |-> e.name, version |-> e.version]
          BY <5>2 DEF MenuInv, ItemsInv, Entry
        <5>4. e.name = r.name
          BY <4>1, <4>3 DEF MenuInv, RestoreInv
        <5> QED BY <4>1, <5>1, <5>2, <5>3, <5>4
      <4> QED BY <3>1, <3>3, <4>2, <4>3, Records
    <3>4. CASE ~Download(w)
      <4>1. r.pc # "download"
        BY <2>5, <3>4 DEF Step, At, CreateLocal, CreateForRemote, SendBackup, ShowCreated,
           DropOld, ZipTemporary,
           PatchItem, AutoBackup, PutPathBack, WipeSave, OpenBackup, CopyBack, DeleteLocal, DeleteRemote,
           ShowAndComplete, TaskEnds
      <4>2. CASE TaskEnds(w)
        <5>1. worker'[w].got = Absent /\ save' = save
          BY <3>0, <3>1, <4>2, Idles, Records DEF TaskEnds, drives
        <5> QED BY <5>1
      <4>3. CASE ~TaskEnds(w)
        <5>1. r.got # Absent /\ r.pc # "end"
          BY <2>5, <3>2, <3>4, <4>1, <4>3 DEF Step, At, CreateLocal, CreateForRemote,
             SendBackup, ShowCreated, DropOld,
             ZipTemporary, PatchItem, AutoBackup, PutPathBack, WipeSave, OpenBackup, CopyBack, DeleteLocal,
             DeleteRemote, ShowAndComplete
        <5>2. worker'[w].got = r.got
          BY <2>5, <3>1, <3>4, <4>3, <5>1, StepKeepsGot
        <5>3. save' # save => save' \in {Empty, Torn, r.got}
          BY <2>5, <3>4, <4>3 DEF Step, drives, CreateLocal, CreateForRemote, SendBackup,
             ShowCreated, DropOld,
             ZipTemporary, PatchItem, AutoBackup, PutPathBack, WipeSave, OpenBackup, CopyBack, DeleteLocal,
             DeleteRemote, ShowAndComplete
        <5> QED BY <5>1, <5>2, <5>3
      <4> QED BY <4>2, <4>3
    <3> QED BY <3>3, <3>4
  <2> QED BY <2>2, <2>3, <2>4, <2>5 DEF Next
<1> QED BY <1>1, MenuHolds, PTL DEF Spec, RemoteRestoreIsSafe
=============================================================================
