---------------------------- MODULE DriveProofs ----------------------------
(***************************************************************************)
(* Proofs about RemoteDrives: after any sequence of operations the item    *)
(* list of a remote storage tells what is on the drive, a download brings  *)
(* the file that was asked for, and a listing in pages misses nothing.     *)
(* They hold for every number of nodes, every set of names, page size and  *)
(* number of lost answers and of uploads by the sysmodule; used are        *)
(* NameAssumption and BoundAssumption and nothing else.                    *)
(*                                                                         *)
(* The inductive invariant is DriveInv.  Its common part, Sound, has that  *)
(* the drive is a tree of at most three levels (TreeInv), without which    *)
(* PathOf has no value; the rest is one invariant for each of the three:   *)
(* what an entry tells of its node (GoogleInv), which segments the path of *)
(* a title and of a backup has (DavInv), and that a path stands for one    *)
(* node, with its number (BaiduInv).  While a listing is read, what is     *)
(* sorted before the next page is listed; on Baidu Netdisk uploads move    *)
(* the pages, and the invariant speaks of the rank of a name.              *)
(***************************************************************************)
EXTENDS RemoteDrives, FiniteSetTheorems, SequenceTheorems, NaturalsInduction, WellFoundedInduction, TLAPS

\* A set of numbers that is not empty has a least one.
LEMMA Least ==
  ASSUME NEW T \in SUBSET Nat, T # {}
  PROVE  \E k \in T : \A i \in T : ~(i < k)
<1>1. \A x, y \in Nat : x < y => <<x, y>> \in OpToRel(<, Nat)
  BY DEF OpToRel
<1>2. \E k \in T : \A i \in T : <<i, k>> \notin OpToRel(<, Nat)
  BY NatLessThanWellFounded, WFMin, Zenon
<1> QED BY <1>1, <1>2

-----------------------------------------------------------------------------
\* Paths without their empty segments.

\* One segment after the other, kept unless it is empty.
Keep(s, x) == IF x = Empty THEN s ELSE Append(s, x)
\* f is a run of Segments over the first k segments of q.
IsRun(f, k, q) == f = [i \in 0..k |-> IF i = 0 THEN <<>> ELSE Keep(f[i - 1], q[i])]

\* Such a run exists for every k.
LEMMA RunExists ==
  ASSUME NEW q, NEW k \in Nat
  PROVE  \E f : IsRun(f, k, q)
<1> DEFINE T == {j \in Nat : ~ \E f : IsRun(f, j, q)}
<1> SUFFICES ASSUME T # {} PROVE FALSE
  OBVIOUS
<1>1. PICK j \in T : \A i \in T : ~(i < j)
  BY Least, Zenon
<1>2. j # 0
  <2>1. IsRun([i \in 0..0 |-> <<>>], 0, q)
    BY DEF IsRun
  <2> QED BY <2>1
<1>3. j \in Nat /\ j - 1 \in Nat /\ j - 1 < j
  BY <1>2
<1>4. PICK f : IsRun(f, j - 1, q)
  BY <1>1, <1>3
<1> DEFINE g == [i \in 0..j |-> IF i = j THEN Keep(f[j - 1], q[j]) ELSE f[i]]
<1>5. \A i \in 0..(j - 1) : f[i] = IF i = 0 THEN <<>> ELSE Keep(f[i - 1], q[i])
  BY <1>4 DEF IsRun
<1>6. ASSUME NEW i \in 0..j PROVE g[i] = IF i = 0 THEN <<>> ELSE Keep(g[i - 1], q[i])
  <2>1. CASE i = j
    BY <1>2, <1>3, <2>1
  <2>2. CASE i # j
    BY <1>3, <1>5, <2>2
  <2> QED BY <2>1, <2>2
<1>7. g = [i \in 0..j |-> g[i]]
  OBVIOUS
<1> HIDE DEF g
<1>8. IsRun(g, j, q)
  BY <1>6, <1>7 DEF IsRun
<1> QED BY <1>8

\* Runs over the same segments have the same values.
LEMMA RunsAgree ==
  ASSUME NEW p, NEW q, NEW k \in Nat, NEW l \in Nat, k <= l, \A i \in 1..k : p[i] = q[i],
         NEW f, NEW g, IsRun(f, k, p), IsRun(g, l, q)
  PROVE  \A i \in 0..k : f[i] = g[i]
<1> DEFINE T == {i \in Nat : i \in 0..k /\ f[i] # g[i]}
<1> SUFFICES ASSUME T # {} PROVE FALSE
  OBVIOUS
<1>1. PICK j \in T : \A i \in T : ~(i < j)
  BY Least, Zenon
<1>2. /\ \A i \in 0..k : f[i] = IF i = 0 THEN <<>> ELSE Keep(f[i - 1], p[i])
      /\ \A i \in 0..k : g[i] = IF i = 0 THEN <<>> ELSE Keep(g[i - 1], q[i])
  BY DEF IsRun
<1>3. j # 0 /\ j - 1 \in 0..k /\ j - 1 < j /\ j \in 1..k
  BY <1>1, <1>2
<1>4. f[j - 1] = g[j - 1]
  BY <1>1, <1>3
<1> QED BY <1>1, <1>2, <1>3, <1>4

\* Segments is such a run, to its end.
LEMMA SegmentsRun ==
  ASSUME NEW id, Len(id) \in Nat
  PROVE  \E f : IsRun(f, Len(id), id) /\ Segments(id) = f[Len(id)]
<1> DEFINE n == Len(id)
           r == CHOOSE f : f = [i \in 0..n |-> IF i = 0 THEN <<>>
                                  ELSE IF id[i] = Empty THEN f[i - 1] ELSE Append(f[i - 1], id[i])]
<1>1. PICK f : IsRun(f, n, id)
  BY RunExists
<1>2. Segments(id) = r[n]
  BY Zenon DEF Segments
<1>3. IsRun(r, n, id)
  BY <1>1, Zenon DEF IsRun, Keep
<1> QED BY <1>2, <1>3

\* Segments, from one segment to the next.
LEMMA SegmentsStep ==
  /\ Segments(<<>>) = <<>>
  /\ \A id \in Seq(Nat), x \in Nat : Segments(Append(id, x)) = Keep(Segments(id), x)
<1>1. Segments(<<>>) = <<>>
  <2>1. Len(<<>>) = 0
    OBVIOUS
  <2>2. PICK f : IsRun(f, 0, <<>>) /\ Segments(<<>>) = f[0]
    BY <2>1, SegmentsRun
  <2> QED BY <2>2 DEF IsRun
<1>2. ASSUME NEW id \in Seq(Nat), NEW x \in Nat PROVE Segments(Append(id, x)) = Keep(Segments(id), x)
  <2> DEFINE n == Len(id)
             q == Append(id, x)
  <2>1. n \in Nat /\ Len(q) = n + 1 /\ n <= n + 1 /\ n + 1 \in Nat
    OBVIOUS
  <2>2. q[n + 1] = x /\ \A i \in 1..n : id[i] = q[i]
    OBVIOUS
  <2> HIDE DEF n, q
  <2>3. PICK f : IsRun(f, n, id) /\ Segments(id) = f[n]
    BY <2>1, SegmentsRun DEF n
  <2>4. PICK g : IsRun(g, n + 1, q) /\ Segments(q) = g[n + 1]
    BY <2>1, SegmentsRun
  <2>5. f[n] = g[n]
    BY <2>1, <2>2, <2>3, <2>4, RunsAgree
  <2>6. g[n + 1] = Keep(g[n], q[n + 1])
    BY <2>1, <2>4 DEF IsRun
  <2> QED BY <2>2, <2>3, <2>4, <2>5, <2>6 DEF q
<1> QED BY <1>1, <1>2

\* A path as a listing gives it has no empty segment.
LEMMA SegmentsOfPath == \A id \in Seq(Nat \ {0}) : Segments(id) = id
<1> DEFINE T == {k \in Nat : \E id \in Seq(Nat \ {0}) : Len(id) = k /\ Segments(id) # id}
<1> SUFFICES ASSUME T # {} PROVE FALSE
  OBVIOUS
<1>1. PICK k \in T : \A i \in T : ~(i < k)
  BY Least, Zenon
<1>2. PICK id \in Seq(Nat \ {0}) : Len(id) = k /\ Segments(id) # id
  BY <1>1
<1>3. id # <<>> /\ k # 0
  BY <1>2, SegmentsStep
<1> DEFINE p == SubSeq(id, 1, k - 1)
<1>4. p \in Seq(Nat \ {0}) /\ Len(p) = k - 1 /\ id = Append(p, id[k]) /\ id[k] \in Nat \ {0}
  BY <1>2, <1>3
<1> HIDE DEF p
<1>5. p \in Seq(Nat) /\ k - 1 \in Nat /\ k - 1 < k
  BY <1>1, <1>3, <1>4
<1>6. Segments(p) = p
  BY <1>1, <1>4, <1>5
<1>7. Segments(id) = Keep(p, id[k])
  BY <1>4, <1>5, <1>6, SegmentsStep
<1> QED BY <1>2, <1>4, <1>7 DEF Keep, Empty

-----------------------------------------------------------------------------
\* The tree of the drive.

\* Names of files and directories on a drive.
NameOnDrive == Name \cup {Jksv}
\* A file or a directory.
IsThing(t) ==
    /\ t = Thing(t.is, t.name, t.parent)
    /\ t.is \in {"dir", "file"} /\ t.name \in NameOnDrive /\ t.parent \in Node \cup {Base}
\* What is in the base directory is a directory; what is in a directory of it
\* may be one; what is in that is a file.
Hangs(n) ==
    LET p == drive[n].parent
    IN  \/ p = Base /\ drive[n].is = "dir"
        \/ /\ p \in Live /\ drive[p].is = "dir"
           /\ drive[p].parent = Base \/ drive[n].is = "file"
TreeInv ==
    /\ drive = [n \in Node |-> drive[n]]
    /\ \A n \in Node : drive[n] \in {Unborn, Gone} \/ IsThing(drive[n])
    /\ \A n \in Live : Hangs(n)

\* Where a node hangs: in the base directory, in a directory p of it, or in a
\* directory p of a directory q of it.
IsTop(n) == drive[n].parent = Base
IsMid(n) == ~IsTop(n) /\ IsTop(drive[n].parent)
IsLow(n) == ~IsTop(n) /\ ~IsMid(n)

\* A node that exists hangs in the base directory, in a directory there or one
\* deeper, and what it hangs in exists.
LEMMA Places ==
  ASSUME TreeInv
  PROVE  /\ Base \notin Live
         /\ \A n \in Live : /\ IsThing(drive[n]) /\ drive[n].name \in Nat \ {0} /\ n # drive[n].parent
                            /\ IsTop(n) => drive[n].is = "dir"
                            /\ ~IsTop(n) => LET p == drive[n].parent IN p \in Live /\ drive[p].is = "dir"
                            /\ IsLow(n) => /\ drive[n].is = "file"
                                           /\ drive[drive[n].parent].parent \in Live
                                           /\ IsTop(drive[drive[n].parent].parent)
<1>1. Base \notin Live /\ Live \subseteq Node
  BY BoundAssumption DEF Live, Base, Node
<1>2. \A n \in Live : IsThing(drive[n])
  BY <1>1 DEF TreeInv, Live, Unborn, Gone
<1>3. \A n \in Live : drive[n].name \in Nat \ {0}
  BY <1>2, NameAssumption DEF IsThing, NameOnDrive
<1>4. \A n \in Live : IsTop(n) => drive[n].is = "dir"
  BY <1>1 DEF TreeInv, Hangs, IsTop
<1>5. \A n \in Live : ~IsTop(n) => /\ drive[n].parent \in Live /\ drive[drive[n].parent].is = "dir"
                                   /\ IsMid(n) \/ drive[n].is = "file"
  BY DEF TreeInv, Hangs, IsTop, IsMid
<1>6. ASSUME NEW n \in Live, IsLow(n)
      PROVE  /\ drive[n].is = "file" /\ drive[drive[n].parent].parent \in Live
             /\ IsTop(drive[drive[n].parent].parent)
  <2> DEFINE p == drive[n].parent
  <2>1. p \in Live /\ drive[p].is = "dir" /\ drive[n].is = "file" /\ ~IsTop(p)
    BY <1>5, <1>6 DEF IsLow, IsMid
  <2>2. drive[p].parent \in Live /\ IsMid(p)
    BY <1>5, <2>1
  <2> QED BY <2>1, <2>2 DEF IsMid
<1>7. \A n \in Live : n # drive[n].parent
  <2> SUFFICES ASSUME NEW n \in Live, n = drive[n].parent PROVE FALSE
    OBVIOUS
  <2>1. ~IsTop(n) /\ IsLow(n)
    BY <1>1, IsTop(n) \/ ~IsTop(n) DEF IsTop, IsMid, IsLow
  <2> QED BY <1>5, <1>6, <2>1
<1> QED BY <1>1, <1>2, <1>3, <1>4, <1>5, <1>6, <1>7

\* The path of a node, from that of the directory it is in.
PathsStep ==
    /\ PathOf(Base) = <<>>
    /\ \A n \in Live, d \in Live \cup {Base} :
          drive[n].parent = d => PathOf(n) = Append(PathOf(d), drive[n].name)

\* Where the drive is a tree, the path of every node is that of its directory
\* and its name: the recursive function that defines PathOf has its values.
LEMMA Paths == TreeInv => PathsStep
<1> SUFFICES ASSUME TreeInv PROVE PathsStep
  OBVIOUS
<1> DEFINE D == Live \cup {Base}
           above(n) == drive[n].parent
           Of(f) == [m \in D |-> IF m = Base THEN <<>> ELSE Append(f[above(m)], drive[m].name)]
           p == CHOOSE f : f = Of(f)
           one(n) == Append(<<>>, drive[n].name)
           two(n) == Append(one(above(n)), drive[n].name)
           h == [m \in D |-> IF m = Base THEN <<>> ELSE IF IsTop(m) THEN one(m)
                             ELSE IF IsMid(m) THEN two(m) ELSE Append(two(above(m)), drive[m].name)]
<1>1. \A n \in D : PathOf(n) = p[n]
  BY Zenon DEF PathOf
<1>2. h[Base] = <<>>
  OBVIOUS
<1>3. ASSUME NEW m \in Live PROVE h[m] = Append(h[above(m)], drive[m].name)
  <2>1. m # Base /\ (above(m) = Base <=> IsTop(m)) /\ (~IsTop(m) => above(m) \in Live /\ above(m) # Base)
    BY Places DEF IsTop
  <2>2. CASE IsTop(m)
    BY <2>1, <2>2
  <2>3. CASE IsMid(m)
    BY <2>1, <2>3 DEF IsMid
  <2>4. CASE IsLow(m)
    <3>1. above(m) \in Live /\ ~IsTop(above(m)) /\ IsMid(above(m)) /\ above(m) # Base
      BY <2>1, <2>4, Places DEF IsLow, IsMid
    <3> QED BY <2>1, <2>4, <3>1 DEF IsLow
  <2> QED BY <2>2, <2>3, <2>4 DEF IsLow
<1>4. h = [m \in D |-> h[m]]
  OBVIOUS
<1> HIDE DEF h
<1>5. h = Of(h)
  BY <1>2, <1>3, <1>4
<1>6. p = Of(p)
  BY <1>5, Zenon
<1> HIDE DEF p
<1>7. p[Base] = <<>> /\ \A m \in Live : p[m] = Append(p[above(m)], drive[m].name)
  BY <1>6, Places
<1>8. \A m \in Live : above(m) \in D
  BY Places DEF IsTop
<1> QED BY <1>1, <1>7, <1>8 DEF PathsStep

\* The same after a step.
LEMMA PathsNext == TreeInv' => PathsStep'
BY Paths, PTL

\* The paths that there are.
PathShapes ==
    \A n \in Live :
        /\ PathOf(n) \in Seq(NameOnDrive)
        /\ IsTop(n) => Len(PathOf(n)) = 1 /\ PathOf(n) = <<drive[n].name>>
        /\ IsMid(n) => Len(PathOf(n)) = 2
        /\ IsLow(n) => Len(PathOf(n)) = 3

\* Paths are sequences of names, one for each directory on the way.
LEMMA ShapesOfPaths == TreeInv => PathShapes
<1> SUFFICES ASSUME TreeInv PROVE PathShapes
  OBVIOUS
<1>1. \A n \in Live : drive[n].name \in NameOnDrive
  BY Places DEF IsThing
<1>2. ASSUME NEW n \in Live, IsTop(n)
      PROVE  PathOf(n) \in Seq(NameOnDrive) /\ Len(PathOf(n)) = 1 /\ PathOf(n) = <<drive[n].name>>
  <2>1. PathOf(n) = Append(PathOf(Base), drive[n].name) /\ PathOf(Base) = <<>>
    BY <1>2, Paths DEF PathsStep, IsTop
  <2>2. PathOf(n) = <<drive[n].name>> /\ drive[n].name \in NameOnDrive
    BY <1>1, <2>1
  <2> QED BY <2>2
<1>3. ASSUME NEW n \in Live, NEW p \in Live, drive[n].parent = p, PathOf(p) \in Seq(NameOnDrive)
      PROVE  PathOf(n) \in Seq(NameOnDrive) /\ Len(PathOf(n)) = Len(PathOf(p)) + 1
  <2>1. PathOf(n) = Append(PathOf(p), drive[n].name) /\ drive[n].name \in NameOnDrive
    BY <1>1, <1>3, Paths DEF PathsStep
  <2> QED BY <1>3, <2>1
<1>4. ASSUME NEW n \in Live, IsMid(n) PROVE PathOf(n) \in Seq(NameOnDrive) /\ Len(PathOf(n)) = 2
  <2>1. PICK p \in Live : p = drive[n].parent /\ IsTop(p)
    BY <1>4, Places DEF IsMid
  <2>2. PathOf(p) \in Seq(NameOnDrive) /\ Len(PathOf(p)) = 1
    BY <1>2, <2>1
  <2>3. PathOf(n) \in Seq(NameOnDrive) /\ Len(PathOf(n)) = Len(PathOf(p)) + 1
    BY <1>3, <2>1, <2>2, Zenon
  <2> QED BY <2>2, <2>3
<1>5. ASSUME NEW n \in Live, IsLow(n) PROVE PathOf(n) \in Seq(NameOnDrive) /\ Len(PathOf(n)) = 3
  <2>1. PICK p \in Live : p = drive[n].parent /\ ~IsTop(p)
    BY <1>5, Places DEF IsMid, IsLow
  <2>2. IsMid(p)
    BY <1>5, <2>1, Places DEF IsMid, IsLow
  <2>3. PathOf(p) \in Seq(NameOnDrive) /\ Len(PathOf(p)) = 2
    BY <1>4, <2>1, <2>2
  <2>4. PathOf(n) \in Seq(NameOnDrive) /\ Len(PathOf(n)) = Len(PathOf(p)) + 1
    BY <1>3, <2>1, <2>3, Zenon
  <2> QED BY <2>3, <2>4
<1> QED BY <1>2, <1>4, <1>5 DEF PathShapes, IsMid, IsLow

\* The same after a step.
LEMMA ShapesNext == TreeInv' => PathShapes'
BY ShapesOfPaths, PTL

\* A node, and those above it, that a step leaves alone keep their paths.
LEMMA PathsStay ==
  ASSUME TreeInv, TreeInv', NEW K, K \subseteq Live, K \subseteq Live',
         \A m \in K : drive'[m] = drive[m] /\ drive[m].parent \in K \cup {Base}
  PROVE  \A m \in K : PathOf(m)' = PathOf(m)
<1>1. PathsStep /\ PathsStep'
  BY Paths, PathsNext
<1>2. ASSUME NEW m \in K, NEW d \in K \cup {Base}, drive[m].parent = d, PathOf(d)' = PathOf(d)
      PROVE  PathOf(m)' = PathOf(m)
  <2>1. d \in Live \cup {Base} /\ d \in Live' \cup {Base} /\ m \in Live /\ m \in Live'
        /\ drive'[m] = drive[m]
    BY <1>2
  <2>2. PathOf(m) = Append(PathOf(d), drive[m].name)
    BY <1>1, <1>2, <2>1 DEF PathsStep
  <2>3. PathOf(m)' = Append(PathOf(d)', drive'[m].name)
    BY <1>1, <1>2, <2>1 DEF PathsStep
  <2> QED BY <1>2, <2>1, <2>2, <2>3
<1>3. PathOf(Base)' = PathOf(Base)
  BY <1>1 DEF PathsStep
<1>4. \A m \in K : IsTop(m) => PathOf(m)' = PathOf(m)
  BY <1>2, <1>3 DEF IsTop
<1>5. \A m \in K : IsMid(m) => PathOf(m)' = PathOf(m)
  BY <1>2, <1>4 DEF IsTop, IsMid
<1>6. ASSUME NEW m \in K, IsLow(m) PROVE PathOf(m)' = PathOf(m)
  <2>1. IsMid(drive[m].parent) /\ drive[m].parent \in K
    BY <1>6, Places DEF IsLow, IsMid, IsTop
  <2> QED BY <1>2, <1>5, <1>6, <2>1
<1> QED BY <1>4, <1>5, <1>6 DEF IsLow

\* A node that was given out at some time.
Born(n) == n \in Node /\ drive[n] # Unborn

\* A fresh node was never given out.
LEMMA FreshNode == \A n \in Fresh : n \in Node /\ drive[n] = Unborn /\ n \notin Live /\ n # Base /\ ~Born(n)
<1>1. \A n \in Fresh : n \in Node /\ drive[n] = Unborn
  BY DEF Fresh
<1> QED BY <1>1, BoundAssumption DEF Live, Born, Base, Node, Unborn

\* What exists was given out at some time.
LEMMA LiveIsBorn == \A n \in Live : Born(n)
BY DEF Live, Born, Unborn

\* Something that is added.
LEMMA Grows ==
  ASSUME TreeInv, NEW n \in Fresh, NEW is \in {"dir", "file"}, NEW name \in NameOnDrive, NEW d \in Live \cup {Base},
         \/ d = Base /\ is = "dir"
         \/ /\ d \in Live /\ drive[d].is = "dir"
            /\ drive[d].parent = Base \/ is = "file",
         drive' = [drive EXCEPT ![n] = Thing(is, name, d)]
  PROVE  /\ TreeInv' /\ Live' = Live \cup {n} /\ n \notin Live /\ n \in Node
         /\ drive'[n].is = is /\ drive'[n].name = name /\ drive'[n].parent = d
         /\ \A m \in Live : drive'[m] = drive[m] /\ PathOf(m)' = PathOf(m) /\ m # n
         /\ PathOf(n)' = Append(PathOf(d), name)
         /\ \A m : Born(m) => Born(m)'
<1>1. n \in Node /\ drive[n] = Unborn /\ n \notin Live /\ n # Base
  BY FreshNode
<1>2. drive = [m \in Node |-> drive[m]]
  BY DEF TreeInv
<1>3. /\ drive'[n] = Thing(is, name, d) /\ drive' = [m \in Node |-> drive'[m]]
      /\ \A m \in Node : m # n => drive'[m] = drive[m]
  BY <1>1, <1>2
<1>4. drive'[n].is = is /\ drive'[n].name = name /\ drive'[n].parent = d
  BY <1>3 DEF Thing
<1>5. Live' = Live \cup {n}
  BY <1>1, <1>3, <1>4 DEF Live
<1>6. \A m \in Live : m \in Node /\ drive'[m] = drive[m] /\ m # n
  BY <1>1, <1>3 DEF Live
<1>7. IsThing(drive[n])'
  <2>1. d \in Node \cup {Base}
    BY DEF Live
  <2> QED BY <1>3, <1>4, <2>1 DEF IsThing
<1>8. \A m \in Node : drive'[m] \in {Unborn, Gone} \/ IsThing(drive[m])'
  <2>1. \A m \in Node : drive[m] \in {Unborn, Gone} \/ IsThing(drive[m])
    BY DEF TreeInv
  <2> QED BY <1>3, <1>7, <2>1 DEF IsThing
<1>9. Hangs(n)'
  BY <1>4, <1>5, <1>6 DEF Hangs
<1>10. ASSUME NEW m \in Live PROVE Hangs(m)'
  <2>1. Hangs(m)
    BY DEF TreeInv
  <2> QED BY <1>5, <1>6, <2>1 DEF Hangs
<1>11. TreeInv'
  BY <1>3, <1>5, <1>8, <1>9, <1>10 DEF TreeInv
<1>12. \A m \in Live : PathOf(m)' = PathOf(m)
  <2>1. \A m \in Live : drive'[m] = drive[m] /\ drive[m].parent \in Live \cup {Base}
    BY <1>6, Places DEF IsTop
  <2> QED BY <1>5, <1>11, <2>1, PathsStay
<1>13. PathOf(n)' = Append(PathOf(d), name)
  <2>1. PathOf(n)' = Append(PathOf(d)', name)
    BY <1>4, <1>5, <1>11, PathsNext DEF PathsStep
  <2>2. PathOf(d)' = PathOf(d)
    BY <1>11, <1>12, Paths, PathsNext DEF PathsStep
  <2> QED BY <2>1, <2>2
<1>14. ASSUME NEW m, Born(m) PROVE Born(m)'
  BY <1>1, <1>3, <1>14 DEF Born
<1> QED BY <1>1, <1>4, <1>5, <1>6, <1>11, <1>12, <1>13, <1>14

\* What is in the directories of R is in R.
Closed(R) == R \subseteq Live /\ \A m \in Live : drive[m].parent \in R => m \in R

\* Something that is deleted.
LEMMA Shrinks ==
  ASSUME TreeInv, NEW R, Closed(R), drive' = Without(R)
  PROVE  /\ TreeInv' /\ Live' = Live \ R
         /\ \A m \in Live \ R : drive'[m] = drive[m] /\ PathOf(m)' = PathOf(m)
         /\ \A m : Born(m) => Born(m)'
<1>1. /\ drive' = [m \in Node |-> drive'[m]]
      /\ \A m \in Node : drive'[m] = IF m \in R THEN Gone ELSE drive[m]
  BY DEF Without
<1>2. Live' = Live \ R
  BY <1>1 DEF Live, Gone
<1>3. \A m \in Live \ R : drive'[m] = drive[m]
  BY <1>1 DEF Live
<1>4. \A m \in Node : drive'[m] \in {Unborn, Gone} \/ IsThing(drive[m])'
  <2>1. \A m \in Node : drive[m] \in {Unborn, Gone} \/ IsThing(drive[m])
    BY DEF TreeInv
  <2> QED BY <1>1, <2>1 DEF IsThing
<1>5. ASSUME NEW m \in Live \ R PROVE Hangs(m)'
  <2>1. Hangs(m) /\ drive[m].parent \notin R
    BY DEF TreeInv, Closed
  <2> QED BY <1>2, <1>3, <2>1 DEF Hangs
<1>6. TreeInv'
  BY <1>1, <1>2, <1>4, <1>5 DEF TreeInv
<1>7. \A m \in Live \ R : PathOf(m)' = PathOf(m)
  <2> DEFINE K == Live \ R
  <2>1. \A m \in K : drive'[m] = drive[m] /\ drive[m].parent \in K \cup {Base}
    BY <1>3, Places DEF IsTop, Closed
  <2>2. K \subseteq Live /\ K \subseteq Live'
    BY <1>2
  <2> HIDE DEF K
  <2>3. \A m \in K : PathOf(m)' = PathOf(m)
    BY <1>6, <2>1, <2>2, PathsStay
  <2> QED BY <2>3 DEF K
<1>8. ASSUME NEW m, Born(m) PROVE Born(m)'
  BY <1>1, <1>8 DEF Born, Gone, Unborn
<1> QED BY <1>2, <1>3, <1>6, <1>7, <1>8

\* What a directory holds.
LEMMA BelowIsClosed ==
  ASSUME NEW n \in Live
  PROVE  /\ Closed({n} \cup Below(n))
         /\ \A S \in SUBSET Live : (\A m \in Live : drive[m].parent = n \/ drive[m].parent \in S => m \in S) => Below(n) \subseteq S
<1>1. Below(n) \subseteq Live
  BY DEF Below
<1>2. ASSUME NEW m \in Live, drive[m].parent = n PROVE m \in Below(n)
  BY <1>2 DEF Below, ChildrenOf
<1>3. ASSUME NEW m \in Live, NEW p \in Below(n), drive[m].parent = p PROVE m \in Below(n)
  <2> SUFFICES ASSUME NEW S \in SUBSET Live, ChildrenOf(n) \cup UNION {ChildrenOf(o) : o \in S} \subseteq S
               PROVE  m \in S
    BY DEF Below
  <2>1. p \in S
    BY DEF Below
  <2>2. m \in ChildrenOf(p)
    BY <1>3 DEF ChildrenOf
  <2> QED BY <2>1, <2>2
<1>4. Closed({n} \cup Below(n))
  BY <1>1, <1>2, <1>3 DEF Closed
<1>5. ASSUME NEW S \in SUBSET Live, \A m \in Live : drive[m].parent = n \/ drive[m].parent \in S => m \in S
      PROVE  Below(n) \subseteq S
  <2>1. ChildrenOf(n) \cup UNION {ChildrenOf(o) : o \in S} \subseteq S
    BY <1>5 DEF ChildrenOf
  <2> QED BY <2>1 DEF Below
<1> QED BY <1>4, <1>5

\* Nothing happens on the drive.
LEMMA Rests ==
  ASSUME TreeInv, UNCHANGED drive
  PROVE  /\ TreeInv' /\ Live' = Live
         /\ \A n : PathOf(n)' = PathOf(n)
         /\ \A m : Born(m) => Born(m)'
<1>1. Live' = Live
  BY DEF Live
<1>2. TreeInv'
  BY <1>1 DEF TreeInv, Hangs, IsThing
<1>3. ASSUME NEW n PROVE PathOf(n)' = PathOf(n)
  <2> DEFINE F(f, L, D) == f = [m \in L \cup {Base} |-> IF m = Base THEN <<>> ELSE Append(f[D[m].parent], D[m].name)]
  <2>1. PathOf(n) = (CHOOSE f : F(f, Live, drive))[n]
    BY Zenon DEF PathOf
  <2>2. PathOf(n)' = (CHOOSE f : F(f, Live', drive'))[n]
    BY Zenon DEF PathOf
  <2> HIDE DEF F
  <2> QED BY <1>1, <2>1, <2>2, Zenon
<1>4. ASSUME NEW m, Born(m) PROVE Born(m)'
  BY <1>4 DEF Born
<1> QED BY <1>1, <1>2, <1>3, <1>4

\* A file that is stored anew, as a node of its own.
LEMMA Overwrites ==
  ASSUME TreeInv, NEW n \in Live, drive[n].is = "file", NEW m \in {n} \cup Fresh,
         drive' = (IF m = n THEN drive ELSE [Without({n}) EXCEPT ![m] = drive[n]])
  PROVE  /\ TreeInv' /\ Live' = (Live \ {n}) \cup {m} /\ m \in Node
         /\ m \in Live => m = n
         /\ drive'[m] = drive[n] /\ PathOf(m)' = PathOf(n)
         /\ \A o \in Live \ {n} : drive'[o] = drive[o] /\ PathOf(o)' = PathOf(o)
         /\ \A o : Born(o) => Born(o)'
<1>1. CASE m = n
  BY <1>1, Rests DEF Live
<1>2. CASE m # n
  <2>1. m \in Node /\ drive[m] = Unborn /\ m \notin Live /\ m # Base /\ n \in Node
    BY <1>2, FreshNode DEF Live
  <2>2. /\ drive' = [o \in Node |-> drive'[o]]
        /\ \A o \in Node : drive'[o] = IF o = m THEN drive[n] ELSE IF o = n THEN Gone ELSE drive[o]
    BY <1>2, <2>1 DEF Without
  <2>3. Live' = (Live \ {n}) \cup {m}
    BY <1>2, <2>1, <2>2 DEF Live, Gone
  <2>4. \A o \in Live \ {n} : drive'[o] = drive[o]
    BY <2>1, <2>2 DEF Live
  <2>5. drive'[m] = drive[n]
    BY <2>1, <2>2
  <2>6. IsThing(drive[n])
    BY Places
  <2>7. \A o \in Node : drive'[o] \in {Unborn, Gone} \/ IsThing(drive[o])'
    <3>1. \A o \in Node : drive[o] \in {Unborn, Gone} \/ IsThing(drive[o])
      BY DEF TreeInv
    <3> QED BY <2>2, <2>6, <3>1 DEF IsThing
  <2>8. \A o \in Live : drive[o].parent # n
    BY Places DEF IsTop
  <2>9. ASSUME NEW o \in Live \ {n} PROVE Hangs(o)'
    <3>1. Hangs(o) /\ drive[o].parent # n
      BY <2>8 DEF TreeInv
    <3> QED BY <2>3, <2>4, <3>1 DEF Hangs
  <2>10. Hangs(m)'
    <3>1. Hangs(n) /\ drive[n].parent # n
      BY <2>8 DEF TreeInv
    <3> QED BY <2>3, <2>4, <2>5, <3>1 DEF Hangs
  <2>11. TreeInv'
    BY <2>2, <2>3, <2>7, <2>9, <2>10 DEF TreeInv
  <2>12. \A o \in Live \ {n} : PathOf(o)' = PathOf(o)
    <3> DEFINE K == Live \ {n}
    <3>1. \A o \in K : drive'[o] = drive[o] /\ drive[o].parent \in K \cup {Base}
      BY <2>4, <2>8, Places DEF IsTop
    <3>2. K \subseteq Live /\ K \subseteq Live'
      BY <2>3
    <3> HIDE DEF K
    <3>3. \A o \in K : PathOf(o)' = PathOf(o)
      BY <2>11, <3>1, <3>2, PathsStay
    <3> QED BY <3>3 DEF K
  <2>13. PathOf(m)' = PathOf(n)
    <3>1. PICK d \in (Live \ {n}) \cup {Base} : drive[n].parent = d
      BY <2>8, Places DEF IsTop
    <3>2. PathOf(n) = Append(PathOf(d), drive[n].name)
      BY <3>1, Paths DEF PathsStep
    <3>3. PathOf(m)' = Append(PathOf(d)', drive[n].name)
      BY <2>3, <2>5, <2>11, <3>1, PathsNext DEF PathsStep
    <3>4. PathOf(d)' = PathOf(d)
      BY <2>11, <2>12, <3>1, Paths, PathsNext DEF PathsStep
    <3> QED BY <3>2, <3>3, <3>4
  <2>14. ASSUME NEW o, Born(o) PROVE Born(o)'
    BY <2>1, <2>2, <2>14, <2>6 DEF Born, Gone, Unborn, IsThing, Thing
  <2> QED BY <1>2, <2>1, <2>3, <2>4, <2>5, <2>11, <2>12, <2>13, <2>14
<1> QED BY <1>1, <1>2

\* A directory of the base directory gets another name, and what R holds is
\* deleted.
LEMMA Renames ==
  ASSUME TreeInv, NEW R, Closed(R), NEW n \in Live \ R, IsTop(n), NEW name \in NameOnDrive,
         drive' = [Without(R) EXCEPT ![n].name = name]
  PROVE  /\ TreeInv' /\ Live' = Live \ R
         /\ drive'[n].is = drive[n].is /\ drive'[n].name = name /\ drive'[n].parent = drive[n].parent
         /\ \A m \in Live \ R : m # n => drive'[m] = drive[m]
         /\ \A m : Born(m) => Born(m)'
<1>1. n \in Node /\ IsThing(drive[n])
  BY Places DEF Live
<1>2. Without(R) = [m \in Node |-> IF m \in R THEN Gone ELSE drive[m]]
  BY DEF Without
<1>3. /\ drive' = [m \in Node |-> drive'[m]]
      /\ drive'[n] = [drive[n] EXCEPT !.name = name]
      /\ \A m \in Node : m # n => drive'[m] = IF m \in R THEN Gone ELSE drive[m]
  BY <1>1, <1>2
<1>4. drive'[n].is = drive[n].is /\ drive'[n].name = name /\ drive'[n].parent = drive[n].parent
      /\ IsThing(drive[n])'
  BY <1>1, <1>3 DEF IsThing, Thing
<1>5. Live' = Live \ R
  BY <1>3, <1>4 DEF Live, Gone
<1>6. \A m \in Live \ R : m # n => drive'[m] = drive[m]
  BY <1>3 DEF Live
<1>7. \A m \in Node : drive'[m] \in {Unborn, Gone} \/ IsThing(drive[m])'
  <2>1. \A m \in Node : drive[m] \in {Unborn, Gone} \/ IsThing(drive[m])
    BY DEF TreeInv
  <2> QED BY <1>3, <1>4, <2>1 DEF IsThing
<1>8. ASSUME NEW m \in Live \ R PROVE Hangs(m)'
  <2>1. Hangs(m) /\ drive[m].parent \notin R
    BY DEF TreeInv, Closed
  <2>2. \A o \in Live \ R : drive'[o].is = drive[o].is /\ drive'[o].parent = drive[o].parent
    BY <1>4, <1>6
  <2> QED BY <1>5, <2>1, <2>2 DEF Hangs
<1>9. TreeInv'
  BY <1>3, <1>5, <1>7, <1>8 DEF TreeInv
<1>10. ASSUME NEW m, Born(m) PROVE Born(m)'
  <2>1. drive'[n] # Unborn
    BY <1>4 DEF IsThing, Thing, Unborn
  <2> QED BY <1>3, <1>10, <2>1 DEF Born, Gone, Unborn
<1> QED BY <1>4, <1>5, <1>6, <1>9, <1>10

\* Taking nothing away leaves the drive as it is.
LEMMA WithoutNothing == TreeInv => Without({}) = drive
BY DEF TreeInv, Without

-----------------------------------------------------------------------------
\* The pages of a listing.

\* A drive holds finitely many nodes, so the places of a listing are numbers.
LEMMA LiveIsFinite == IsFiniteSet(Live) /\ IsFiniteSet(Live \cup {Base})
<1>1. IsFiniteSet(Node)
  BY BoundAssumption, FS_Interval DEF Node
<1>2. IsFiniteSet(Live) /\ IsFiniteSet({Base})
  BY <1>1, FS_Subset, FS_Singleton DEF Live
<1> QED BY <1>2, FS_Union

\* Listings are sorted: Before is a strict linear order of the nodes.
LEMMA BeforeOrders ==
  ASSUME TreeInv
  PROVE  /\ \A n \in Live : ~Before(n, n)
         /\ \A m, n \in Live : m # n => Before(m, n) \/ Before(n, m)
         /\ \A m, n, o \in Live : Before(m, n) /\ Before(n, o) => Before(m, o)
<1>1. \A n \in Live : n \in Nat /\ drive[n].name \in Nat
  BY Places, BoundAssumption DEF Live, Node
<1> QED BY <1>1 DEF Before

\* Each node of a listing has a place of its own, from 0 on.
LEMMA PlacesDiffer ==
  ASSUME TreeInv, NEW S \in SUBSET Live
  PROVE  /\ Cardinality(S) \in Nat
         /\ \A n \in S : Place(n, S) \in Nat /\ Place(n, S) < Cardinality(S)
         /\ \A m, n \in S : Place(m, S) = Place(n, S) => m = n
<1> DEFINE low(n) == {m \in S : Before(m, n)}
<1>1. IsFiniteSet(S) /\ Cardinality(S) \in Nat
  BY LiveIsFinite, FS_Subset, FS_CardinalityType
<1>2. ASSUME NEW T \in SUBSET S, NEW U \in SUBSET S, T \subseteq U, T # U
      PROVE  Cardinality(T) \in Nat /\ Cardinality(U) \in Nat /\ Cardinality(T) < Cardinality(U)
  <2>1. IsFiniteSet(U) /\ IsFiniteSet(T)
    BY <1>1, FS_Subset
  <2>2. Cardinality(T) \in Nat /\ Cardinality(U) \in Nat
    BY <2>1, FS_CardinalityType
  <2>3. Cardinality(T) <= Cardinality(U) /\ Cardinality(T) # Cardinality(U)
    BY <1>2, <2>1, FS_Subset
  <2> QED BY <2>2, <2>3
<1>3. ASSUME NEW n \in S PROVE low(n) \in SUBSET S /\ low(n) # S
  BY BeforeOrders
<1>4. ASSUME NEW m \in S, NEW n \in S, Before(m, n)
      PROVE  low(m) \subseteq low(n) /\ low(m) # low(n)
  BY <1>4, BeforeOrders
<1>5. \A n \in S : Place(n, S) = Cardinality(low(n))
  BY DEF Place
<1> HIDE DEF low
<1>6. ASSUME NEW n \in S PROVE Place(n, S) \in Nat /\ Place(n, S) < Cardinality(S)
  BY <1>2, <1>3, <1>5
<1>7. ASSUME NEW m \in S, NEW n \in S, Before(m, n) PROVE Place(m, S) # Place(n, S)
  <2>1. Cardinality(low(m)) < Cardinality(low(n)) /\ Cardinality(low(m)) \in Nat /\ Cardinality(low(n)) \in Nat
    BY <1>2, <1>3, <1>4, <1>7
  <2> QED BY <1>5, <2>1
<1>8. ASSUME NEW m \in S, NEW n \in S, Place(m, S) = Place(n, S) PROVE m = n
  BY <1>7, <1>8, BeforeOrders
<1> QED BY <1>1, <1>6, <1>8

\* A page is not larger than Page, and a smaller one is the last.
LEMMA PageSize ==
  ASSUME TreeInv, NEW S \in SUBSET Live, NEW start \in Nat
  PROVE  /\ PageOf(S, start) \subseteq S
         /\ Cardinality(PageOf(S, start)) \in Nat /\ Cardinality(PageOf(S, start)) <= Page
         /\ \A n \in S : Place(n, S) >= start + Page => ~(Cardinality(PageOf(S, start)) < Page)
<1> DEFINE page == PageOf(S, start)
           I == start..(start + Page - 1)
           c == Cardinality(S)
           place == [n \in S |-> Place(n, S)]
<1>1. c \in Nat /\ IsFiniteSet(S) /\ IsFiniteSet(I) /\ Cardinality(I) = Page
      /\ IsFiniteSet(0..(c - 1)) /\ Cardinality(0..(c - 1)) = c
  <2>1. c \in Nat /\ IsFiniteSet(S)
    BY LiveIsFinite, FS_Subset, PlacesDiffer
  <2>2. /\ IsFiniteSet(I) /\ Cardinality(I) = IF start > start + Page - 1 THEN 0 ELSE start + Page - 1 - start + 1
    BY FS_Interval, BoundAssumption
  <2>3. IsFiniteSet(0..(c - 1)) /\ Cardinality(0..(c - 1)) = IF 0 > c - 1 THEN 0 ELSE c - 1 - 0 + 1
    BY <2>1, FS_Interval
  <2> HIDE DEF c, I
  <2> QED BY <2>1, <2>2, <2>3, BoundAssumption
<1>2. page = {n \in S : Place(n, S) \in I}
  BY DEF PageOf
<1>3. place \in [S -> 0..(c - 1)] /\ \A m, n \in S : place[m] = place[n] => m = n
  BY PlacesDiffer
<1>4. \A n \in S : place[n] = Place(n, S)
  OBVIOUS
<1>5. place \in Injection(S, 0..(c - 1))
  BY <1>3, Zenon DEF Injection, IsInjective
<1>6. place \in Surjection(S, 0..(c - 1))
  BY <1>1, <1>5, FS_Injection
<1>7. \A k \in 0..(c - 1) : \E n \in S : Place(n, S) = k
  BY <1>4, <1>6 DEF Surjection
<1> DEFINE p == [n \in page |-> Place(n, S)]
<1>8. p \in [page -> I] /\ \A m, n \in page : p[m] = p[n] => m = n
  BY <1>2, <1>3, <1>4
<1>9. page \subseteq S
  BY <1>2
<1>10. Cardinality(page) \in Nat
  BY <1>1, <1>9, FS_Subset, FS_CardinalityType
<1>11. IsFiniteSet(page) /\ Cardinality(page) <= Page
  <2>1. p \in Injection(page, I)
    BY <1>8, Zenon DEF Injection, IsInjective
  <2> HIDE DEF p, page, I
  <2> QED BY <1>1, <2>1, FS_Injection
<1>12. ASSUME NEW n \in S, Place(n, S) >= start + Page PROVE ~(Cardinality(page) < Page)
  <2>1. Place(n, S) \in Nat /\ Place(n, S) < c
    BY PlacesDiffer
  <2>2. \A k \in I : k \in 0..(c - 1)
    BY <1>1, <1>12, <2>1, BoundAssumption
  <2>3. \A k \in I : \E m \in page : p[m] = k
    BY <1>2, <1>7, <2>2
  <2>4. p \in Surjection(page, I)
    BY <1>8, <2>3, Zenon DEF Surjection
  <2> HIDE DEF p, page, I
  <2>5. Cardinality(I) <= Cardinality(page)
    BY <1>11, <2>4, FS_Surjection
  <2> QED BY <1>1, <1>10, <2>5, BoundAssumption
<1> QED BY <1>9, <1>10, <1>11, <1>12

-----------------------------------------------------------------------------
\* Google Drive.

EntryFields(e) == e = Entry(e.id, e.name, e.parent, e.dir) /\ e.dir \in BOOLEAN

\* The root is that of the drive or the JKSV directory, and m_parent is the
\* root or a directory in it.  Directories are where JKSV makes them.
GooglePlaces ==
    /\ root # Base => root \in Live /\ IsTop(root) /\ drive[root].name = Jksv
    /\ state # "ready" => root = Base /\ parent = Base
    /\ parent # root => /\ parent \in Live /\ drive[parent].is = "dir" /\ drive[parent].parent = root
                        /\ drive[parent].name # Jksv
    /\ \A n \in Live : IsMid(n) /\ drive[n].is = "dir" =>
          drive[drive[n].parent].name = Jksv /\ drive[n].name # Jksv

\* An entry tells what its node is; only a file whose deletion was not
\* answered is still listed.
GoogleEntry(e) ==
    /\ EntryFields(e) /\ Born(e.id)
    /\ e.id \in Live => /\ drive[e.id].name = e.name /\ drive[e.id].parent = e.parent
                        /\ e.dir <=> drive[e.id].is = "dir"
    /\ e.dir \/ ~unsure => e.id \in Live

GoogleList ==
    /\ \A e \in list : GoogleEntry(e)
    /\ state = "ready" /\ root = Base => \A e \in list : ~(e.dir /\ e.parent = Base /\ e.name = Jksv)

\* What comes before the page to be read is listed.
ReadByDrive ==
    /\ reading.start \in Nat /\ reading.present = Live
    /\ \A n \in Live : Place(n, Live) < reading.start => \E e \in list : e.id = n

GoogleInv == GooglePlaces /\ GoogleList /\ (state = "reading" => ReadByDrive)

\* The invariant of the whole, for one of the three drives.
Sound == TreeInv /\ unsure \in BOOLEAN /\ DownloadFetchesListed
GoogleSound == kind = "google" /\ Sound /\ GoogleInv

\* Entries stay true when nothing is taken away.
LEMMA GoogleEntriesStay ==
  ASSUME NEW L, \A e \in L : GoogleEntry(e), unsure' \in {unsure, TRUE}, unsure \in BOOLEAN,
         \A m : Born(m) => Born(m)', Live \subseteq Live', \A m \in Live : drive'[m] = drive[m],
         \A m \in Live' \ Live : ~Born(m)
  PROVE  \A e \in L : GoogleEntry(e)'
<1> SUFFICES ASSUME NEW e \in L PROVE GoogleEntry(e)'
  OBVIOUS
<1>1. GoogleEntry(e)
  OBVIOUS
<1>2. Born(e.id)' /\ (e.id \in Live' => e.id \in Live)
  BY <1>1 DEF GoogleEntry
<1> QED BY <1>1, <1>2 DEF GoogleEntry, EntryFields

\* Menus open and close, a connection starts or fails, something that changes
\* neither the drive nor the list: the invariant stays.
LEMMA GoogleRests ==
  ASSUME GoogleSound, UNCHANGED <<kind, drive>>, unsure' \in {unsure, TRUE}, DownloadFetchesListed',
         \/ UNCHANGED <<list, root, parent, state, reading>>
         \/ OpenDirectory \/ ReturnToRoot \/ ConnectionFails
         \/ DriveConnects \/ DriveSignsIn
  PROVE  GoogleSound'
<1> USE DEF GoogleSound, Sound
<1>1. TreeInv' /\ Live' = Live /\ (\A m : Born(m) => Born(m)') /\ drive' = drive
  BY Rests
<1>2. \A e \in list : GoogleEntry(e)'
  BY <1>1, GoogleEntriesStay DEF GoogleInv, GoogleList
<1>3. DownloadFetchesListed' /\ unsure' \in BOOLEAN /\ kind' = "google"
  OBVIOUS
<1>4. \A n : IsTop(n)' = IsTop(n) /\ IsMid(n)' = IsMid(n)
  BY <1>1 DEF IsTop, IsMid
<1>5. CASE UNCHANGED <<list, root, parent, state, reading>>
  <2>1. GooglePlaces'
    BY <1>1, <1>4, <1>5 DEF GoogleInv, GooglePlaces
  <2>2. GoogleList'
    BY <1>2, <1>5 DEF GoogleInv, GoogleList
  <2>3. (state = "reading" => ReadByDrive)'
    <3>1. \A n \in Live : Place(n, Live)' = Place(n, Live)
      BY <1>1 DEF Place, Before
    <3> QED BY <1>1, <1>5, <3>1 DEF GoogleInv, ReadByDrive
  <2> QED BY <1>1, <1>3, <2>1, <2>2, <2>3 DEF GoogleInv
<1>6. CASE OpenDirectory
  <2>1. PICK e \in list : e.parent = parent /\ e.dir /\ parent' = e.id
    BY <1>6 DEF OpenDirectory, Listing
  <2>2. parent = root /\ root' = root /\ list' = list /\ state = "ready" /\ state' = "ready"
    BY <1>6 DEF OpenDirectory, Operation
  <2>3. /\ e.id \in Live /\ drive[e.id].is = "dir" /\ drive[e.id].name = e.name /\ drive[e.id].parent = e.parent
    BY <2>1 DEF GoogleInv, GoogleList, GoogleEntry
  <2>4. drive[e.id].name # Jksv
    <3>1. CASE root = Base
      BY <2>1, <2>2, <2>3, <3>1 DEF GoogleInv, GoogleList
    <3>2. CASE root # Base
      <4>1. IsMid(e.id)
        BY <2>1, <2>2, <2>3, <3>2, Places DEF IsMid, IsTop, GoogleInv, GooglePlaces
      <4> QED BY <2>3, <4>1 DEF GoogleInv, GooglePlaces
    <3> QED BY <3>1, <3>2
  <2>5. GooglePlaces'
    BY <1>1, <1>4, <2>1, <2>2, <2>3, <2>4 DEF GoogleInv, GooglePlaces
  <2>6. GoogleList'
    BY <1>2, <2>2 DEF GoogleInv, GoogleList
  <2> QED BY <1>1, <1>3, <2>2, <2>5, <2>6 DEF GoogleInv
<1>7. CASE ReturnToRoot
  <2>1. parent' = root /\ root' = root /\ list' = list /\ state = "ready" /\ state' = "ready"
    BY <1>7 DEF ReturnToRoot, Operation
  <2>2. GooglePlaces'
    BY <1>1, <1>4, <2>1 DEF GoogleInv, GooglePlaces
  <2>3. GoogleList'
    BY <1>2, <2>1 DEF GoogleInv, GoogleList
  <2> QED BY <1>1, <1>3, <2>1, <2>2, <2>3 DEF GoogleInv
<1>8. CASE ConnectionFails \/ DriveConnects \/ DriveSignsIn
  <2>1. /\ state # "ready" /\ state' # "ready" /\ list' = list /\ root = Base /\ parent = Base
        /\ root' = Base /\ parent' = Base
    BY <1>8 DEF ConnectionFails, DriveConnects, DriveSignsIn, GetsRootId, GoogleInv, GooglePlaces
  <2>2. GooglePlaces'
    BY <1>1, <1>4, <2>1 DEF GoogleInv, GooglePlaces
  <2>3. GoogleList'
    BY <1>2, <2>1 DEF GoogleInv, GoogleList
  <2>4. (state = "reading" => ReadByDrive)'
    <3>1. CASE DriveConnects
      <4>1. reading' = [start |-> 0, present |-> Live] /\ reading'.start = 0 /\ reading'.present = Live
        BY <3>1 DEF DriveConnects
      <4>2. \A n \in Live' : ~(Place(n, Live)' < 0)
        <5>1. \A n \in Live : Place(n, Live) \in Nat
          BY PlacesDiffer
        <5>2. \A n \in Live : Place(n, Live)' = Place(n, Live)
          BY <1>1 DEF Place, Before
        <5> QED BY <1>1, <5>1, <5>2
      <4> QED BY <1>1, <4>1, <4>2 DEF ReadByDrive
    <3>2. CASE ConnectionFails \/ DriveSignsIn
      BY <3>2 DEF ConnectionFails, DriveSignsIn
    <3> QED BY <1>8, <3>1, <3>2
  <2> QED BY <1>1, <1>3, <2>2, <2>3, <2>4 DEF GoogleInv
<1> QED BY <1>5, <1>6, <1>7, <1>8

\* What a download brought stays what it was.
LEMMA DownloadStays ==
  ASSUME DownloadFetchesListed, got' \in {got, <<>>}, unsure' \in {unsure, TRUE}, unsure \in BOOLEAN
  PROVE  DownloadFetchesListed'
BY DEF DownloadFetchesListed

\* One page of the listing: with the last one, everything that was on the drive
\* when it began is listed.
LEMMA GoogleReads ==
  ASSUME GoogleSound, ReadDrivePage
  PROVE  GoogleSound' /\ (state' = "unrooted" => reading.present \subseteq {e.id : e \in list'})
<1> USE DEF GoogleSound, Sound
<1>1. /\ UNCHANGED <<kind, drive, root, parent, unsure, got>>
      /\ state = "reading" /\ reading.start \in Nat /\ reading.present = Live
  BY DEF ReadDrivePage, GoogleInv, ReadByDrive
<1>2. TreeInv' /\ Live' = Live /\ (\A m : Born(m) => Born(m)') /\ drive' = drive
  BY <1>1, Rests
<1> DEFINE page == PageOf(Live, reading.start)
           c == Cardinality(page)
           all == Cardinality(Live)
<1>3. /\ list' = list \cup {EntryOf(n, drive[n].parent) : n \in page}
      /\ \/ all - reading.start > Page /\ state' = "reading" /\ reading' = [reading EXCEPT !.start = @ + c]
         \/ ~(all - reading.start > Page) /\ state' = "unrooted" /\ reading' = <<>>
  BY DEF ReadDrivePage, Processed, HasNextPage
<1>4. page \subseteq Live /\ c \in Nat /\ c <= Page
  BY <1>1, PageSize
<1>5. page = {n \in Live : Place(n, Live) \in reading.start..(reading.start + Page - 1)}
  BY DEF PageOf
<1>6. all \in Nat /\ \A n \in Live : Place(n, Live) \in Nat /\ Place(n, Live) < all
  BY PlacesDiffer
<1> HIDE DEF page, c, all
<1>7. ASSUME NEW n \in page, NEW e, e = EntryOf(n, drive[n].parent) PROVE GoogleEntry(e)' /\ e.id = n
  <2>1. n \in Live /\ Born(n)' /\ n # Base
    BY <1>2, <1>4, LiveIsBorn, Places
  <2>2. e.id = n /\ e.name = drive[n].name /\ e.parent = drive[n].parent /\ e.dir = IsDir(n)
        /\ e = Entry(e.id, e.name, e.parent, e.dir)
    BY <1>7 DEF EntryOf, Entry, IdOf
  <2>5. IsDir(n) \in BOOLEAN
    BY DEF IsDir
  <2>6. EntryFields(e)
    BY <2>2, <2>5, Zenon DEF EntryFields
  <2>3. e.dir <=> drive[n].is = "dir"
    BY <2>1, <2>2, Zenon DEF IsDir
  <2>4. GoogleEntry(e)'
    BY <1>2, <2>1, <2>2, <2>3, <2>6 DEF GoogleEntry, EntryFields
  <2> QED BY <2>2, <2>4
<1>8. \A e \in list' : GoogleEntry(e)'
  <2>1. \A e \in list : GoogleEntry(e)'
    BY <1>1, <1>2, GoogleEntriesStay DEF GoogleInv, GoogleList
  <2>2. \A e \in list' : e \in list \/ \E n \in page : e = EntryOf(n, drive[n].parent)
    BY <1>3
  <2> QED BY <1>7, <2>1, <2>2
<1>9. ASSUME NEW n \in Live, Place(n, Live) < reading.start + Page PROVE \E e \in list' : e.id = n
  <2>1. CASE Place(n, Live) < reading.start
    <3>1. \E e \in list : e.id = n
      BY <1>1, <2>1 DEF GoogleInv, ReadByDrive
    <3>2. list \subseteq list'
      BY <1>3
    <3> QED BY <3>1, <3>2
  <2>2. CASE ~(Place(n, Live) < reading.start)
    <3>1. n \in page
      BY <1>1, <1>5, <1>6, <1>9, <2>2, BoundAssumption
    <3>2. EntryOf(n, drive[n].parent) \in list'
      BY <1>3, <3>1
    <3> QED BY <1>7, <3>1, <3>2
  <2> QED BY <2>1, <2>2
<1>10. GooglePlaces'
  BY <1>1, <1>2, <1>3 DEF GoogleInv, GooglePlaces, IsMid, IsTop
<1>11. GoogleList'
  BY <1>3, <1>8 DEF GoogleList
<1>12. ASSUME state' = "reading" PROVE ReadByDrive'
  <2>1. reading' = [reading EXCEPT !.start = @ + c]
    BY <1>3, <1>12
  <2>2. reading'.start = reading.start + c /\ reading'.present = Live
    BY <1>1, <2>1
  <2>3. \A n \in Live : Place(n, Live)' = Place(n, Live)
    BY <1>2 DEF Place, Before
  <2>4. \A n \in Live : Place(n, Live) < reading.start + c => \E e \in list' : e.id = n
    BY <1>1, <1>4, <1>6, <1>9, BoundAssumption
  <2> QED BY <1>1, <1>2, <1>4, <2>2, <2>3, <2>4 DEF ReadByDrive
<1>13. ASSUME state' = "unrooted" PROVE reading.present \subseteq {e.id : e \in list'}
  <2>1. \A n \in Live : Place(n, Live) < reading.start + Page
    BY <1>1, <1>3, <1>6, <1>13, BoundAssumption
  <2> QED BY <1>1, <1>9, <2>1
<1>14. DownloadFetchesListed' /\ unsure' \in BOOLEAN /\ kind' = "google"
  BY <1>1 DEF DownloadFetchesListed
<1> QED BY <1>2, <1>3, <1>10, <1>11, <1>12, <1>13, <1>14 DEF GoogleInv

\* What JKSV adds.
LEMMA GoogleGrows ==
  ASSUME GoogleSound, NEW n \in Fresh, NEW is \in {"dir", "file"}, NEW name \in NameOnDrive,
         drive' = [drive EXCEPT ![n] = Thing(is, name, parent)], unsure' \in {unsure, TRUE},
         \/ parent = Base /\ root = Base /\ is = "dir"
         \/ parent = root /\ root # Base /\ is = "dir" /\ name # Jksv
         \/ parent # root /\ is = "file",
         root' \in {root} \cup IF root = Base /\ parent = Base /\ name = Jksv THEN {n} ELSE {},
         parent' = IF root' = root THEN parent ELSE n,
         kind' = kind, DownloadFetchesListed', state' = "ready",
         NEW new, EntryFields(new), new.id = n, new.name = name, new.parent = parent,
         new.dir <=> is = "dir", list' \in {list, list \cup {new}},
         root' = Base => /\ list' # list => name # Jksv
                         /\ \A e \in list : ~(e.dir /\ e.parent = Base /\ e.name = Jksv)
  PROVE  GoogleSound'
<1> USE DEF GoogleSound, Sound
<1>1. /\ root # Base => root \in Live /\ drive[root].is = "dir" /\ IsTop(root) /\ drive[root].name = Jksv
      /\ parent # root => /\ parent \in Live /\ drive[parent].is = "dir" /\ drive[parent].parent = root
                          /\ drive[parent].name # Jksv
  BY Places DEF GoogleInv, GooglePlaces
<1>2. /\ TreeInv' /\ Live' = Live \cup {n} /\ n \notin Live
      /\ drive'[n].is = is /\ drive'[n].name = name /\ drive'[n].parent = parent
      /\ \A m \in Live : drive'[m] = drive[m] /\ m # n
      /\ \A m : Born(m) => Born(m)'
  <2>1. PICK d \in Live \cup {Base} : d = parent
    BY <1>1
  <2>2. \/ d = Base /\ is = "dir"
        \/ /\ d \in Live /\ drive[d].is = "dir"
           /\ drive[d].parent = Base \/ is = "file"
    BY <1>1, <2>1 DEF IsTop
  <2>3. drive' = [drive EXCEPT ![n] = Thing(is, name, d)]
    BY <2>1
  <2>4. /\ TreeInv' /\ Live' = Live \cup {n} /\ n \notin Live
        /\ drive'[n].is = is /\ drive'[n].name = name /\ drive'[n].parent = d
        /\ \A m \in Live : drive'[m] = drive[m] /\ m # n
        /\ \A m : Born(m) => Born(m)'
    BY ONLY TreeInv, BoundAssumption, NameAssumption, n \in Fresh, is \in {"dir", "file"}, name \in NameOnDrive, <2>2, <2>3, Grows
  <2> QED BY <2>1, <2>4
<1>3. n # Base /\ n \in Node /\ ~Born(n) /\ Base \notin Live
  BY FreshNode, Places
<1>4. \A m \in Live : IsTop(m)' = IsTop(m) /\ IsMid(m)' = IsMid(m)
  BY <1>2, Places DEF IsTop, IsMid
<1>5. GooglePlaces'
  <2>1. root' # Base => root' \in Live' /\ IsTop(root)' /\ drive'[root'].name = Jksv
    BY <1>1, <1>2, <1>3, <1>4 DEF IsTop
  <2>2. parent' # root' => /\ parent' \in Live' /\ drive'[parent'].is = "dir" /\ drive'[parent'].parent = root'
                           /\ drive'[parent'].name # Jksv
    BY <1>1, <1>2
  <2>3. \A m \in Live : IsMid(m)' /\ drive'[m].is = "dir" =>
                          drive'[drive'[m].parent].name = Jksv /\ drive'[m].name # Jksv
    BY <1>2, <1>4, Places DEF GoogleInv, GooglePlaces, IsMid
  <2>4. IsMid(n)' /\ drive'[n].is = "dir" => drive'[drive'[n].parent].name = Jksv /\ drive'[n].name # Jksv
    BY <1>1, <1>2 DEF IsMid, IsTop
  <2> QED BY <1>2, <2>1, <2>2, <2>3, <2>4 DEF GooglePlaces
<1>6. \A e \in list : GoogleEntry(e)'
  BY <1>2, <1>3, GoogleEntriesStay DEF GoogleInv, GoogleList
<1>8. Born(n)'
  BY <1>2, <1>3 DEF Born, Unborn
<1>9. GoogleEntry(new)'
  BY <1>2, <1>8 DEF GoogleEntry, EntryFields
<1>10. GoogleList'
  <2>1. \A e \in list' : e \in list \/ (e = new /\ list' # list)
    OBVIOUS
  <2>2. \A e \in list' : GoogleEntry(e)'
    BY <1>6, <1>9, <2>1
  <2>3. root' = Base => ~(new \in list' /\ new \notin list /\ new.dir /\ new.parent = Base /\ new.name = Jksv)
    BY <2>1
  <2> QED BY <2>1, <2>2, <2>3 DEF GoogleList
<1>11. unsure' \in BOOLEAN /\ kind' = "google"
  OBVIOUS
<1> QED BY <1>2, <1>5, <1>10, <1>11 DEF GoogleInv

\* JKSV moves to its own directory when the listing has one, and makes it
\* when it has none.
LEMMA GoogleFindsRoot ==
  ASSUME GoogleSound, DriveFindsRoot
  PROVE  GoogleSound'
<1> USE DEF GoogleSound, Sound
<1>1. /\ state = "unrooted" /\ state' = "ready" /\ UNCHANGED <<kind, reading, got>>
      /\ root = Base /\ parent = Base
  BY DEF DriveFindsRoot, GoogleInv, GooglePlaces
<1> DEFINE jksv == DirectoriesNamed(Jksv)
<1>2. jksv = {e \in list : e.dir /\ e.parent = Base /\ e.name = Jksv}
  BY <1>1 DEF DirectoriesNamed
<1> HIDE DEF jksv
<1>4. CASE UNCHANGED <<drive, list, unsure>> /\ (\/ jksv = {} /\ UNCHANGED <<root, parent>>
                                                 \/ \E e \in jksv : root' = e.id /\ parent' = e.id)
  <2>1. TreeInv' /\ Live' = Live /\ (\A m : Born(m) => Born(m)') /\ drive' = drive
    BY <1>4, Rests
  <2>2. \A e \in list : GoogleEntry(e)'
    BY <1>4, <2>1, GoogleEntriesStay DEF GoogleInv, GoogleList
  <2>3. \A e \in jksv : e.id \in Live /\ drive[e.id].parent = Base /\ drive[e.id].name = Jksv
    BY <1>2 DEF GoogleInv, GoogleList, GoogleEntry
  <2>4. GooglePlaces'
    BY <1>1, <1>4, <2>1, <2>3 DEF GoogleInv, GooglePlaces, IsMid, IsTop
  <2>5. Base \notin Live
    BY Places
  <2>6. GoogleList'
    BY <1>1, <1>2, <1>4, <2>2, <2>3, <2>5 DEF GoogleList
  <2>7. DownloadFetchesListed'
    BY <1>1, <1>4, DownloadStays
  <2> QED BY <1>1, <1>4, <2>1, <2>4, <2>6, <2>7 DEF GoogleInv
<1>5. CASE \E n \in Fresh :
             /\ jksv = {} /\ NewDirectory(n, Jksv)
             /\ \/ /\ Answered /\ root' = n /\ parent' = n
                   /\ list' = list \cup {Entry(n, Jksv, parent, TRUE)}
                \/ AnswerLost /\ UNCHANGED <<root, parent>>
  <2>1. PICK n \in Fresh :
             /\ jksv = {} /\ NewDirectory(n, Jksv)
             /\ \/ /\ Answered /\ root' = n /\ parent' = n
                   /\ list' = list \cup {Entry(n, Jksv, parent, TRUE)}
                \/ AnswerLost /\ UNCHANGED <<root, parent>>
    BY <1>5
  <2>2. n # Base
    BY FreshNode
  <2>3. drive' = [drive EXCEPT ![n] = Thing("dir", Jksv, parent)]
    BY <2>1 DEF NewDirectory
  <2>4. \A e \in list : ~(e.dir /\ e.parent = Base /\ e.name = Jksv)
    BY <1>2, <2>1
  <2>5. PICK new : new = Entry(n, Jksv, parent, TRUE)
    OBVIOUS
  <2>6. EntryFields(new) /\ new.id = n /\ new.name = Jksv /\ new.parent = parent /\ (new.dir <=> "dir" = "dir")
    BY <2>5 DEF Entry, EntryFields
  <2>7. list' \in {list, list \cup {new}} /\ unsure' \in {unsure, TRUE} /\ (root' = Base => list' = list)
    BY <1>1, <2>1, <2>2, <2>5 DEF Answered, AnswerLost
  <2>8. root' \in {root} \cup (IF root = Base /\ parent = Base /\ Jksv = Jksv THEN {n} ELSE {})
        /\ parent' = IF root' = root THEN parent ELSE n
    BY <1>1, <2>1, <2>2
  <2>9. DownloadFetchesListed'
    BY <1>1, <2>7, DownloadStays
  <2>10. Jksv \in NameOnDrive
    BY DEF NameOnDrive
  <2> QED BY ONLY GoogleSound, <1>1, <2>3, <2>4, <2>6, <2>7, <2>8, <2>9, <2>10, n \in Fresh, BoundAssumption, NameAssumption, GoogleGrows
<1> QED BY <1>4, <1>5 DEF DriveFindsRoot, Answered, jksv

\* A title's directory is made in the root.
LEMMA GoogleCreates ==
  ASSUME GoogleSound, DriveCreates
  PROVE  GoogleSound'
<1>1. /\ state = "ready" /\ kind = "google" /\ UNCHANGED <<kind, root, parent, state>> /\ got' = <<>> /\ parent = root
  BY DEF DriveCreates, Changes, Operation
<1>2. PICK name \in Name, n \in Fresh :
        /\ NewDirectory(n, name)
        /\ \/ Answered /\ list' = list \cup {Entry(n, name, parent, TRUE)}
           \/ AnswerLost
  BY DEF DriveCreates
<1>3. drive' = [drive EXCEPT ![n] = Thing("dir", name, parent)] /\ name \in NameOnDrive /\ name # Jksv
  BY <1>2, NameAssumption DEF NewDirectory, NameOnDrive
<1>4. PICK new : new = Entry(n, name, parent, TRUE)
  OBVIOUS
<1>5. EntryFields(new) /\ new.id = n /\ new.name = name /\ new.parent = parent /\ (new.dir <=> "dir" = "dir")
  BY <1>4 DEF Entry, EntryFields
<1>6. list' \in {list, list \cup {new}} /\ unsure' \in {unsure, TRUE}
  BY <1>2, <1>4 DEF Answered, AnswerLost
<1>7. root' \in {root} \cup (IF root = Base /\ parent = Base /\ name = Jksv THEN {n} ELSE {})
      /\ parent' = IF root' = root THEN parent ELSE n
  BY <1>1
<1>8. DownloadFetchesListed'
  BY <1>1, <1>6, DownloadStays DEF GoogleSound, Sound
<1>9. root' = Base => \A e \in list : ~(e.dir /\ e.parent = Base /\ e.name = Jksv)
  BY <1>1 DEF GoogleSound, GoogleInv, GoogleList
<1>10. \/ parent = Base /\ root = Base /\ "dir" = "dir"
       \/ parent = root /\ root # Base /\ "dir" = "dir" /\ name # Jksv
  BY <1>1, <1>3
<1> QED BY ONLY GoogleSound, <1>1, <1>3, <1>5, <1>6, <1>7, <1>8, <1>9, <1>10, n \in Fresh, BoundAssumption, NameAssumption, GoogleGrows

\* A backup is uploaded to the directory of a title.
LEMMA GoogleUploads ==
  ASSUME GoogleSound, DriveUploads
  PROVE  GoogleSound'
<1>1. /\ state = "ready" /\ kind = "google" /\ UNCHANGED <<kind, root, parent, state>> /\ got' = <<>> /\ parent # root
  BY DEF DriveUploads, Changes, Operation
<1>2. PICK name \in Name, n \in Fresh :
        /\ drive' = [drive EXCEPT ![n] = Thing("file", name, parent)]
        /\ \/ Answered /\ list' = list \cup {Entry(n, name, parent, FALSE)}
           \/ AnswerLost
  BY DEF DriveUploads
<1>3. name \in NameOnDrive /\ name # Jksv
  BY <1>2, NameAssumption DEF NameOnDrive
<1>4. PICK new : new = Entry(n, name, parent, FALSE)
  OBVIOUS
<1>5. EntryFields(new) /\ new.id = n /\ new.name = name /\ new.parent = parent /\ (new.dir <=> "file" = "dir")
  BY <1>4 DEF Entry, EntryFields
<1>6. list' \in {list, list \cup {new}} /\ unsure' \in {unsure, TRUE}
  BY <1>2, <1>4 DEF Answered, AnswerLost
<1>7. root' \in {root} \cup (IF root = Base /\ parent = Base /\ name = Jksv THEN {n} ELSE {})
      /\ parent' = IF root' = root THEN parent ELSE n
  BY <1>1
<1>8. DownloadFetchesListed'
  BY <1>1, <1>6, DownloadStays DEF GoogleSound, Sound
<1>9. root' = Base => \A e \in list : ~(e.dir /\ e.parent = Base /\ e.name = Jksv)
  BY <1>1 DEF GoogleSound, GoogleInv, GoogleList
<1> QED BY ONLY GoogleSound, <1>1, <1>2, <1>3, <1>5, <1>6, <1>7, <1>8, <1>9, n \in Fresh, BoundAssumption, NameAssumption, GoogleGrows

\* Only files are deleted, so nothing but the file goes.
LEMMA GoogleDeletes ==
  ASSUME GoogleSound, DriveDeletes
  PROVE  GoogleSound'
<1> USE DEF GoogleSound, Sound
<1>1. /\ state = "ready" /\ UNCHANGED <<kind, root, parent, state>> /\ got' = <<>> /\ parent # root
  BY DEF DriveDeletes, Changes, Operation
<1>2. PICK e \in list :
        /\ e.parent = parent /\ Reaches(e.id) # {}
        /\ drive' = Without({e.id} \cup Below(e.id))
        /\ \/ Answered /\ list' = list \ {e}
           \/ AnswerLost
  BY DEF DriveDeletes, Listing
<1>3. GoogleEntry(e)
  BY DEF GoogleInv, GoogleList
<1>4. PICK n : n = e.id
  OBVIOUS
<1>5. n \in Live
  <2>1. n # Base /\ n \in Live \cup {Base}
    BY <1>2, <1>3, <1>4, BoundAssumption DEF Reaches, GoogleEntry, Born, Node, Base
  <2> QED BY <2>1
<1>6. drive[n].name = e.name /\ drive[n].parent = parent /\ (e.dir <=> drive[n].is = "dir")
  BY <1>2, <1>3, <1>4, <1>5 DEF GoogleEntry
<1>7. /\ parent \in Live /\ drive[parent].parent = root /\ drive[parent].name # Jksv
      /\ root # Base => root \in Live /\ drive[root].name = Jksv /\ IsTop(root)
  BY <1>1 DEF GoogleInv, GooglePlaces
<1>8. drive[n].is = "file"
  <2>1. CASE root = Base
    <3>1. IsMid(n)
      BY <1>5, <1>6, <1>7, <2>1, Places DEF IsMid, IsTop
    <3>2. drive[n].is # "dir"
      BY <1>5, <1>6, <1>7, <3>1 DEF GoogleInv, GooglePlaces
    <3> QED BY <1>5, <3>2 DEF Live
  <2>2. CASE root # Base
    <3>1. IsLow(n)
      BY <1>5, <1>6, <1>7, <2>2, Places DEF IsMid, IsTop, IsLow
    <3> QED BY <1>5, <3>1, Places
  <2> QED BY <2>1, <2>2
<1>9. \A m \in Live : drive[m].parent # n
  BY <1>5, <1>8, Places DEF IsTop
<1>10. Below(n) = {}
  <2>1. {} \in SUBSET Live /\ \A m \in Live : drive[m].parent = n \/ drive[m].parent \in {} => m \in {}
    BY <1>9
  <2>2. Below(n) \subseteq {}
    BY <1>5, <2>1, BelowIsClosed
  <2> QED BY <2>2
<1>11. Closed({n}) /\ drive' = Without({n})
  <2>1. Closed({n} \cup Below(n))
    BY <1>5, BelowIsClosed
  <2>2. {n} \cup Below(n) = {n}
    BY <1>10
  <2> QED BY <1>2, <1>4, <2>1, <2>2
<1>12. /\ TreeInv' /\ Live' = Live \ {n}
       /\ \A m \in Live \ {n} : drive'[m] = drive[m]
       /\ \A m : Born(m) => Born(m)'
  BY <1>11, Shrinks
<1>13. unsure' \in {unsure, TRUE} /\ DownloadFetchesListed'
  BY <1>1, <1>2, DownloadStays DEF Answered, AnswerLost
<1>14. GooglePlaces'
  <2>1. parent # n /\ root # n
    <3>1. drive[parent].is = "dir"
      BY <1>1 DEF GoogleInv, GooglePlaces
    <3>2. root \in Live => drive[root].is = "dir"
      BY <1>7, Places
    <3> QED BY <1>5, <1>8, <3>1, <3>2
  <2>2. \A m \in Live' : IsTop(m)' = IsTop(m) /\ IsMid(m)' = IsMid(m) /\ (IsMid(m) => drive[m].parent \in Live')
    BY <1>9, <1>12, Places DEF IsTop, IsMid
  <2> QED BY <1>1, <1>7, <1>12, <2>1, <2>2 DEF GoogleInv, GooglePlaces
<1>15. ASSUME NEW o \in list' PROVE o \in list /\ GoogleEntry(o)'
  <2>1. o \in list /\ GoogleEntry(o)
    BY <1>2 DEF GoogleInv, GoogleList, Answered, AnswerLost
  <2>2. Born(o.id)'
    BY <1>12, <2>1 DEF GoogleEntry
  <2>3. (o.dir \/ ~unsure' => o.id \in Live')
    <3>1. CASE o.id # n
      BY <1>12, <1>13, <2>1, <3>1 DEF GoogleEntry
    <3>2. CASE o.id = n
      <4>1. o.name = e.name /\ o.parent = e.parent /\ (o.dir <=> e.dir) /\ ~o.dir /\ o.dir \in BOOLEAN /\ e.dir \in BOOLEAN
        BY <1>2, <1>3, <1>5, <1>6, <1>8, <2>1, <3>2 DEF GoogleEntry, EntryFields
      <4>2. o = Entry(e.id, e.name, e.parent, o.dir) /\ e = Entry(e.id, e.name, e.parent, e.dir)
        BY <1>3, <1>4, <2>1, <3>2, <4>1, Zenon DEF GoogleEntry, EntryFields
      <4>3. o.dir = e.dir
        BY <4>1, Zenon
      <4>4. o = e
        BY <4>2, <4>3, Zenon
      <4>5. unsure' = TRUE
        BY <1>2, <4>4 DEF Answered, AnswerLost
      <4> QED BY <4>1, <4>5
    <3> QED BY <3>1, <3>2
  <2> QED BY <1>12, <2>1, <2>2, <2>3 DEF GoogleEntry, EntryFields
<1>16. GoogleList'
  BY <1>1, <1>15 DEF GoogleList, GoogleInv
<1> QED BY <1>1, <1>12, <1>13, <1>14, <1>16 DEF GoogleInv

\* JKSV is closed: the list is empty and the root that of the drive.
LEMMA GoogleStarts ==
  ASSUME GoogleSound, Restart
  PROVE  GoogleSound'
<1> USE DEF GoogleSound, Sound
<1>1. UNCHANGED <<kind, drive>> /\ state' = "off" /\ list' = {} /\ got' = <<>> /\ unsure' = FALSE
      /\ root' = Base /\ parent' = Base
  BY DEF Restart, IdOf
<1>2. TreeInv' /\ Live' = Live /\ drive' = drive
  BY <1>1, Rests
<1>3. GooglePlaces'
  BY <1>1, <1>2 DEF GoogleInv, GooglePlaces, IsMid, IsTop
<1>4. GoogleList' /\ DownloadFetchesListed'
  BY <1>1 DEF GoogleList, DownloadFetchesListed
<1> QED BY <1>1, <1>2, <1>3, <1>4 DEF GoogleInv

\* Every step of JKSV on Google Drive.
LEMMA GoogleSteps ==
  ASSUME GoogleSound, [Next]_vars
  PROVE  /\ GoogleSound'
         /\ state = "reading" /\ state' \in {"ready", "unrooted"} => reading.present \subseteq {e.id : e \in list'}
<1>1. kind = "google" /\ kind # "baidu" /\ kind # "webdav"
  BY DEF GoogleSound
<1>2. ~BaiduNext
  BY <1>1 DEF BaiduNext, BaiduConnects, ReadPage, BaiduCreates, BaiduUploads, BaiduPatches, BaiduDownloads,
     BaiduDeletes, BaiduRenames, SysmoduleWrites, Changes
<1>3. ~DavNext
  BY <1>1 DEF DavNext, DavConnects, ReadCollection, DavCreates, DavUploads, DavPatches, DavDownloads,
     DavDeletes, DavRenames, Changes
<1>4. unsure \in BOOLEAN /\ DownloadFetchesListed
  BY DEF GoogleSound, Sound
<1>5. CASE ReadDrivePage
  <2>1. state' # "ready"
    BY <1>5 DEF ReadDrivePage
  <2> QED BY <1>5, <2>1, GoogleReads
<1>6. CASE DriveFindsRoot \/ DriveCreates \/ DriveUploads \/ DriveDeletes \/ Restart
  <2>1. state # "reading"
    BY <1>6 DEF DriveFindsRoot, DriveCreates, DriveUploads, DriveDeletes, Changes, Operation, Restart
  <2> QED BY <1>6, <2>1, GoogleFindsRoot, GoogleCreates, GoogleUploads, GoogleDeletes, GoogleStarts
<1>7. CASE UNCHANGED vars \/ DrivePatches \/ DriveDownloads
  <2>1. UNCHANGED <<kind, drive, list, root, parent, state, reading, unsure>>
    BY <1>7 DEF vars, connection, DrivePatches, DriveDownloads, Changes, Operation, Answered
  <2>2. DownloadFetchesListed'
    <3>1. CASE got' = got \/ got' = <<>>
      BY <1>4, <2>1, <3>1, DownloadStays
    <3>2. CASE \E x : got' = [asked |-> x, was |-> x]
      BY <3>2 DEF DownloadFetchesListed
    <3> QED BY <1>7, <3>1, <3>2 DEF vars, DrivePatches, DriveDownloads, Changes
  <2>3. GoogleSound'
    BY <1>4, <2>1, <2>2, GoogleRests
  <2>4. state' = "reading" \/ state # "reading"
    BY <2>1
  <2> QED BY <2>1, <2>3
<1>8. CASE OpenDirectory \/ ReturnToRoot \/ ConnectionFails \/ DriveConnects \/ DriveSignsIn
  <2>1. UNCHANGED <<kind, drive, unsure>> /\ got' \in {got, <<>>}
    BY <1>8 DEF OpenDirectory, ReturnToRoot, ConnectionFails, DriveConnects, DriveSignsIn, Operation
  <2>2. DownloadFetchesListed'
    BY <1>4, <2>1, DownloadStays
  <2>3. GoogleSound'
    BY <1>4, <1>8, <2>1, <2>2, GoogleRests
  <2>4. ~(state = "reading" /\ state' \in {"ready", "unrooted"})
    BY <1>8 DEF OpenDirectory, ReturnToRoot, ConnectionFails, DriveConnects, DriveSignsIn, Operation
  <2> QED BY <2>3, <2>4
<1> QED BY <1>2, <1>3, <1>5, <1>6, <1>7, <1>8 DEF Next, DriveNext

\* Sequences of one and of two elements.
LEMMA Pairs ==
  ASSUME NEW S, NEW a \in S, NEW b \in S
  PROVE  /\ <<a>> \in Seq(S) /\ <<a, b>> \in Seq(S) /\ Append(<<a>>, b) = <<a, b>>
<1>1. <<a>> \in Seq(S) /\ <<a, b>> \in Seq(S) /\ Len(<<a>>) = 1 /\ Len(<<a, b>>) = 2
      /\ <<a>>[1] = a /\ <<a, b>>[1] = a /\ <<a, b>>[2] = b
  OBVIOUS
<1> DEFINE s == <<a>>
           t == <<a, b>>
           u == Append(s, b)
<1> HIDE DEF s, t
<1>2. u \in Seq(S) /\ Len(u) = 2 /\ u[1] = a /\ u[2] = b
  BY <1>1 DEF s
<1>3. t \in Seq(S) /\ Len(t) = 2 /\ t[1] = a /\ t[2] = b
  BY <1>1 DEF t
<1> HIDE DEF u
<1>4. u = t
  BY <1>2, <1>3, SeqEqual
<1> QED BY <1>1, <1>4 DEF u, t, s

\* What is in two sequences that are joined.
LEMMA ElementsOfJoined ==
  ASSUME NEW S, NEW s \in Seq(S), NEW t \in Seq(S)
  PROVE  ToSet(s \o t) = ToSet(s) \cup ToSet(t)
<1> DEFINE u == s \o t
<1>1. u \in Seq(S) /\ Len(u) = Len(s) + Len(t) /\ Len(s) \in Nat /\ Len(t) \in Nat
      /\ \A i \in 1..(Len(s) + Len(t)) : u[i] = IF i <= Len(s) THEN s[i] ELSE t[i - Len(s)]
  BY ConcatProperties
<1> HIDE DEF u
<1>2. \A r \in Seq(S) : ToSet(r) = {r[i] : i \in 1..Len(r)}
  BY DEF ToSet
<1>3. ASSUME NEW x PROVE x \in ToSet(u) <=> x \in ToSet(s) \cup ToSet(t)
  <2>1. x \in ToSet(u) => x \in ToSet(s) \cup ToSet(t)
    <3> SUFFICES ASSUME NEW i \in 1..(Len(s) + Len(t)), x = u[i] PROVE x \in ToSet(s) \cup ToSet(t)
      BY <1>1, <1>2
    <3>1. i <= Len(s) => i \in 1..Len(s)
      BY <1>1
    <3>2. ~(i <= Len(s)) => i - Len(s) \in 1..Len(t)
      BY <1>1
    <3> QED BY <1>1, <1>2, <3>1, <3>2
  <2>2. x \in ToSet(s) => x \in ToSet(u)
    <3> SUFFICES ASSUME NEW i \in 1..Len(s), x = s[i] PROVE x \in ToSet(u)
      BY <1>2
    <3>1. i \in 1..(Len(s) + Len(t)) /\ i <= Len(s)
      BY <1>1
    <3> QED BY <1>1, <1>2, <3>1
  <2>3. x \in ToSet(t) => x \in ToSet(u)
    <3> SUFFICES ASSUME NEW i \in 1..Len(t), x = t[i] PROVE x \in ToSet(u)
      BY <1>2
    <3>1. i + Len(s) \in 1..(Len(s) + Len(t)) /\ ~(i + Len(s) <= Len(s)) /\ (i + Len(s)) - Len(s) = i
      BY <1>1
    <3> QED BY <1>1, <1>2, <3>1
  <2> QED BY <2>1, <2>2, <2>3
<1> QED BY <1>3 DEF u

\* A sequence that is not empty is its head and its tail.
LEMMA ElementsOfLonger ==
  ASSUME NEW S, NEW s \in Seq(S), s # <<>>
  PROVE  ToSet(s) = {Head(s)} \cup ToSet(Tail(s)) /\ Head(s) \in S /\ Tail(s) \in Seq(S)
<1>1. Head(s) = s[1] /\ Tail(s) \in Seq(S) /\ Len(s) \in Nat \ {0} /\ Len(Tail(s)) = Len(s) - 1 /\ Head(s) \in S
  BY HeadTailProperties
<1>2. \A i \in 1..(Len(s) - 1) : Tail(s)[i] = s[i + 1]
  BY <1>1, HeadTailProperties
<1>3. \A r \in Seq(S) : ToSet(r) = {r[i] : i \in 1..Len(r)}
  BY DEF ToSet
<1>4. ASSUME NEW i \in 1..Len(s) PROVE s[i] = Head(s) \/ s[i] \in ToSet(Tail(s))
  <2>1. i = 1 \/ (i - 1 \in 1..(Len(s) - 1) /\ (i - 1) + 1 = i)
    BY <1>1
  <2> QED BY <1>1, <1>2, <1>3, <2>1
<1>5. ASSUME NEW i \in 1..(Len(s) - 1) PROVE Tail(s)[i] \in ToSet(s)
  <2>1. i + 1 \in 1..Len(s)
    BY <1>1
  <2> QED BY <1>2, <1>3, <2>1
<1>6. Head(s) \in ToSet(s)
  <2>1. 1 \in 1..Len(s)
    BY <1>1
  <2> QED BY <1>1, <1>3, <2>1
<1> QED BY <1>1, <1>3, <1>4, <1>5, <1>6

\* Sequences that are equal end with the same element.
LEMMA SameAppended ==
  ASSUME NEW S, NEW s \in Seq(S), NEW t \in Seq(S), NEW a \in S, NEW b \in S, Append(s, a) = Append(t, b)
  PROVE  s = t /\ a = b
OBVIOUS

\* What is in a sequence of one element.
LEMMA ElementsOfOne ==
  ASSUME NEW S, NEW x \in S
  PROVE  <<x>> \in Seq(S) /\ <<x>> # <<>> /\ ToSet(<<x>>) = {x} /\ Head(<<x>>) = x /\ Tail(<<x>>) = <<>>
<1> DEFINE s == <<x>>
<1>1. s \in Seq(S) /\ Len(s) = 1 /\ s[1] = x /\ DOMAIN s = 1..1 /\ Head(s) = x /\ Tail(s) = <<>>
  OBVIOUS
<1> HIDE DEF s
<1>2. ToSet(s) = {x}
  BY <1>1 DEF ToSet
<1>3. s # <<>>
  BY <1>1
<1> QED BY <1>1, <1>2, <1>3 DEF s

-----------------------------------------------------------------------------
\* WebDav.

\* A path of a title's directory, with or without empty segments.
IsTitle(p) == p \in Seq(Nat) /\ \E x \in NameOnDrive : Segments(p) = <<x>>

\* The entry of a title, of a backup of a title, and of what is in that.
TitleEntry(e) == e.parent = <<>> /\ e.dir /\ e.id \in Seq(Nat) /\ Segments(e.id) = <<e.name>>
BackupEntry(e) == IsTitle(e.parent) /\ \E p : IsTitle(p) /\ e.id = Append(p, e.name)
DeepEntry(e) == e.parent \in Seq(Nat) /\ Len(Segments(e.parent)) = 2
DavEntry(e) ==
    /\ EntryFields(e) /\ e.name \in NameOnDrive
    /\ TitleEntry(e) \/ BackupEntry(e) \/ DeepEntry(e)

DavPlaces ==
    /\ root = <<>> /\ (parent = <<>> \/ IsTitle(parent))
    /\ state \in {"off", "reading"} => parent = <<>>
    /\ state = "off" => list = {}

\* Each title that is listed is on the drive, and is listed once.
DavList ==
    /\ \A e \in list : DavEntry(e)
    /\ ~unsure => /\ \A e \in list : e.parent = <<>> => \E n \in Live : IsTop(n) /\ drive[n].name = e.name
                  /\ \A e, o \in list : e.parent = <<>> /\ o.parent = <<>> /\ e.name = o.name => e = o

\* What is to be read are directories; the titles have their shortest paths.
ReadByDav ==
    /\ reading.stack \in Seq(Seq(NameOnDrive)) /\ reading.stack # <<>>
    /\ \A p \in ToSet(reading.stack) : p = <<>> \/ \E d \in Live : PathOf(d) = p /\ drive[d].is = "dir"
    /\ \A e \in list : e.parent = <<>> => e.id = <<e.name>>

DavInv == DavPlaces /\ DavList /\ (state = "reading" => ReadByDav)
DavSound == kind = "webdav" /\ Sound /\ DavInv

\* Names and paths of the drive have no empty segment.
LEMMA NoEmptyNames ==
  /\ NameOnDrive \subseteq Nat \ {0}
  /\ \A p \in Seq(NameOnDrive) : p \in Seq(Nat) /\ Segments(p) = p
<1>1. NameOnDrive \subseteq Nat \ {0}
  BY NameAssumption DEF NameOnDrive
<1>2. \A p \in Seq(NameOnDrive) : p \in Seq(Nat \ {0}) /\ p \in Seq(Nat)
  BY <1>1, SeqMonotonic
<1> QED BY <1>1, <1>2, SegmentsOfPath

\* Empty segments at the end of a path do not count, a name does.
LEMMA LongerPaths ==
  ASSUME NEW p \in Seq(Nat), NEW x \in NameOnDrive
  PROVE  /\ Append(p, 0) \in Seq(Nat) /\ Segments(Append(p, 0)) = Segments(p)
         /\ Append(p, x) \in Seq(Nat) /\ Segments(Append(p, x)) = Append(Segments(p), x)
         /\ p \o <<Empty, x>> = Append(Append(p, 0), x)
<1>1. x \in Nat /\ x # 0
  BY NoEmptyNames
<1>2. /\ Segments(Append(p, 0)) = Segments(p)
      /\ Segments(Append(p, x)) = Append(Segments(p), x)
  BY <1>1, SegmentsStep DEF Keep, Empty
<1>3. Append(p, 0) \in Seq(Nat) /\ Append(p, x) \in Seq(Nat)
  BY <1>1
<1>4. p \o <<Empty, x>> = Append(Append(p, 0), x)
  <2> DEFINE t == <<0, x>>
  <2>1. t \in Seq(Nat) /\ Len(t) = 2 /\ t[1] = 0 /\ t[2] = x
    BY <1>1
  <2>2. <<Empty, x>> = t
    BY DEF Empty
  <2> HIDE DEF t
  <2> DEFINE u == p \o t
             v == Append(Append(p, 0), x)
  <2>3. u \in Seq(Nat) /\ Len(u) = Len(p) + 2 /\ \A i \in 1..(Len(p) + 2) : u[i] = IF i <= Len(p) THEN p[i] ELSE t[i - Len(p)]
    <3>1. u \in Seq(Nat) /\ Len(u) = Len(p) + Len(t) /\ \A i \in 1..(Len(p) + Len(t)) : u[i] = IF i <= Len(p) THEN p[i] ELSE t[i - Len(p)]
      BY <2>1, ConcatProperties, Zenon
    <3> QED BY <2>1, <3>1
  <2>4. v \in Seq(Nat) /\ Len(v) = Len(p) + 2 /\ \A i \in 1..(Len(p) + 2) :
             v[i] = IF i <= Len(p) THEN p[i] ELSE IF i = Len(p) + 1 THEN 0 ELSE x
    BY <1>1
  <2>5. Len(p) \in Nat
    OBVIOUS
  <2> HIDE DEF u, v
  <2>6. \A i \in 1..Len(u) : u[i] = v[i]
    <3> SUFFICES ASSUME NEW i \in 1..(Len(p) + 2) PROVE u[i] = v[i]
      BY <2>3
    <3>1. u[i] = (IF i <= Len(p) THEN p[i] ELSE t[i - Len(p)])
          /\ v[i] = IF i <= Len(p) THEN p[i] ELSE IF i = Len(p) + 1 THEN 0 ELSE x
      BY <2>3, <2>4, Zenon
    <3>2. ~(i <= Len(p)) => \/ i = Len(p) + 1 /\ i - Len(p) = 1
                            \/ i # Len(p) + 1 /\ i - Len(p) = 2
      BY <2>5
    <3> HIDE DEF t
    <3> QED BY <2>1, <3>1, <3>2
  <2>7. u = v
    BY <2>3, <2>4, <2>6, SeqEqual
  <2> QED BY <2>2, <2>7 DEF u, v
<1> QED BY <1>2, <1>3, <1>4

\* Where requests for a title and for a backup arrive.
LEMMA ReachesPaths ==
  ASSUME TreeInv, kind # "google"
  PROVE  /\ \A id : Reaches(id) = {n \in Live \cup {Base} : PathOf(n) = Segments(id)}
         /\ PathOf(Base) = <<>> /\ Base \notin Live
         /\ \A p, n : IsTitle(p) /\ n \in Reaches(p) => n \in Live /\ IsTop(n) /\ Segments(p) = <<drive[n].name>>
         /\ \A p, x, n : IsTitle(p) /\ x \in NameOnDrive /\ n \in Reaches(Append(p, x)) =>
                n \in Live /\ IsMid(n)
<1>1. \A id : Reaches(id) = {n \in Live \cup {Base} : PathOf(n) = Segments(id)}
  BY DEF Reaches
<1>2. PathOf(Base) = <<>> /\ Base \notin Live
  BY Paths, Places DEF PathsStep
<1>3. Len(PathOf(Base)) = 0
  BY <1>2
<1>4. ASSUME NEW p, NEW n, IsTitle(p), n \in Reaches(p) PROVE n \in Live /\ IsTop(n) /\ Segments(p) = <<drive[n].name>>
  <2>1. PICK x \in NameOnDrive : Segments(p) = <<x>>
    BY <1>4 DEF IsTitle
  <2>2. Len(Segments(p)) = 1
    BY <2>1
  <2>3. n \in Live \cup {Base} /\ PathOf(n) = Segments(p)
    BY <1>1, <1>4
  <2>4. n # Base
    <3> SUFFICES ASSUME n = Base PROVE FALSE
      OBVIOUS
    <3>1. Len(PathOf(n)) = 0
      BY <1>3
    <3> QED BY ONLY <2>2, <2>3, <3>1
  <2>5. n \in Live
    BY ONLY <2>3, <2>4
  <2>6. /\ IsTop(n) => PathOf(n) = <<drive[n].name>>
        /\ IsMid(n) => Len(PathOf(n)) = 2
        /\ IsLow(n) => Len(PathOf(n)) = 3
    BY <2>5, ShapesOfPaths DEF PathShapes
  <2>7. IsTop(n)
    <3> SUFFICES ASSUME ~IsTop(n) PROVE FALSE
      OBVIOUS
    <3>1. Len(PathOf(n)) = 1 /\ (Len(PathOf(n)) = 2 \/ Len(PathOf(n)) = 3)
      BY <2>2, <2>3, <2>6 DEF IsLow
    <3> QED BY ONLY <3>1
  <2>8. Segments(p) = <<drive[n].name>>
    BY <2>3, <2>6, <2>7
  <2> QED BY <2>5, <2>7, <2>8
<1>5. ASSUME NEW p, NEW x \in NameOnDrive, NEW n, IsTitle(p), n \in Reaches(Append(p, x)) PROVE n \in Live /\ IsMid(n)
  <2>1. PICK y \in NameOnDrive : p \in Seq(Nat) /\ Segments(p) = <<y>>
    BY <1>5 DEF IsTitle
  <2>2. Segments(Append(p, x)) = Append(<<y>>, x) /\ Append(<<y>>, x) = <<y, x>>
    <3>1. Segments(Append(p, x)) = Append(Segments(p), x)
      BY <2>1, LongerPaths
    <3>2. Append(<<y>>, x) = <<y, x>>
      BY Pairs
    <3> QED BY <2>1, <3>1, <3>2
  <2>3. Len(Segments(Append(p, x))) = 2
    BY <2>2
  <2>4. n \in Live \cup {Base} /\ PathOf(n) = Segments(Append(p, x))
    BY <1>1, <1>5
  <2>5. n \in Live
    <3>1. n = Base => Len(PathOf(n)) = 0
      BY <1>3
    <3> QED BY ONLY <2>3, <2>4, <3>1
  <2>6. (IsTop(n) => Len(PathOf(n)) = 1) /\ (IsLow(n) => Len(PathOf(n)) = 3)
    BY <2>5, ShapesOfPaths DEF PathShapes
  <2> QED BY <2>3, <2>4, <2>5, <2>6 DEF IsLow
<1>6. \A p, n : IsTitle(p) /\ n \in Reaches(p) => n \in Live /\ IsTop(n) /\ Segments(p) = <<drive[n].name>>
  BY <1>4, Zenon
<1>7. \A p, x, n : IsTitle(p) /\ x \in NameOnDrive /\ n \in Reaches(Append(p, x)) => n \in Live /\ IsMid(n)
  BY <1>5, Zenon
<1> QED BY <1>1, <1>2, <1>6, <1>7, Zenon

\* A set as a sequence.
LEMMA ElementsOfSet ==
  ASSUME NEW S, IsFiniteSet(S)
  PROVE  SetToSeq(S) \in Seq(S) /\ ToSet(SetToSeq(S)) = S
<1> DEFINE c == Cardinality(S)
<1>1. c \in Nat /\ \E f \in [1..c -> S] : IsInjective(f)
  BY FS_CardinalityType DEF ExistsBijection, Bijection, Injection
<1>2. PICK f : f = SetToSeq(S)
  OBVIOUS
<1>3. f \in [1..c -> S] /\ IsInjective(f)
  BY <1>1, <1>2, Zenon DEF SetToSeq
<1>4. IsFiniteSet(1..c) /\ Cardinality(1..c) = c
  BY <1>1, FS_Interval
<1>5. f \in Injection(1..c, S)
  BY <1>3, Zenon DEF Injection
<1> HIDE DEF c
<1>6. f \in Surjection(1..c, S)
  BY <1>4, <1>5, FS_Injection DEF c
<1>7. \A x \in S : \E i \in 1..c : f[i] = x
  BY <1>6 DEF Surjection
<1>8. f \in Seq(S)
  BY <1>1, <1>3
<1>9. ToSet(f) = S
  BY <1>3, <1>7 DEF ToSet
<1> QED BY <1>2, <1>8, <1>9

\* Steps after which every title is listed as before.
LEMMA DavKeeps ==
  ASSUME DavSound, TreeInv', kind' = kind, root' = root, DownloadFetchesListed', unsure' \in {unsure, TRUE},
         \A n \in Live : IsTop(n) => n \in Live' /\ IsTop(n)' /\ drive'[n].name = drive[n].name,
         parent' = <<>> \/ parent' = parent \/ IsTitle(parent'),
         state' \in {"ready", "failed"} \/ (state' = state /\ state # "reading" /\ parent' = parent /\ list' = list),
         \A e \in list' : e \in list \/ (DavEntry(e) /\ e.parent # <<>>)
  PROVE  DavSound'
<1> USE DEF DavSound, Sound
<1>1. DavPlaces'
  BY DEF DavPlaces, DavInv
<1>2. \A e \in list' : DavEntry(e)'
  BY DEF DavInv, DavList, DavEntry
<1>3. \A e \in list' : e.parent = <<>> => e \in list
  OBVIOUS
<1>4. unsure' \in BOOLEAN /\ (~unsure' => ~unsure)
  OBVIOUS
<1>5. DavList'
  <2>1. ~unsure' => \A e \in list' : e.parent = <<>> => \E n \in Live' : IsTop(n)' /\ drive'[n].name = e.name
    BY <1>3, <1>4 DEF DavInv, DavList
  <2>2. ~unsure' => \A e, o \in list' : e.parent = <<>> /\ o.parent = <<>> /\ e.name = o.name => e = o
    BY <1>3, <1>4 DEF DavInv, DavList
  <2> QED BY <1>2, <2>1, <2>2 DEF DavList, DavEntry
<1> QED BY <1>1, <1>4, <1>5 DEF DavInv

\* A title is on the drive when it is listed, so the directory of its name is.
LEMMA DavBrowses ==
  ASSUME DavSound, OpenDirectory \/ ReturnToRoot \/ ConnectionFails \/ DavDownloads
  PROVE  DavSound'
<1>1. /\ UNCHANGED <<kind, drive, list, root, unsure>> /\ state' \in {"ready", "failed"}
  BY DEF OpenDirectory, ReturnToRoot, ConnectionFails, DavDownloads, Operation
<1>2. TreeInv /\ DownloadFetchesListed /\ unsure \in BOOLEAN
  BY DEF DavSound, Sound
<1>3. TreeInv' /\ Live' = Live
  BY <1>1, <1>2, Rests
<1>4. DownloadFetchesListed'
  <2>1. CASE DavDownloads
    BY <2>1 DEF DavDownloads, DownloadFetchesListed
  <2>2. CASE OpenDirectory \/ ReturnToRoot \/ ConnectionFails
    BY <1>1, <1>2, <2>2, DownloadStays DEF OpenDirectory, ReturnToRoot, ConnectionFails
  <2> QED BY <2>1, <2>2
<1>5. parent' = <<>> \/ parent' = parent \/ IsTitle(parent')
  <2>1. CASE OpenDirectory
    <3>1. PICK e \in list : e.parent = <<>> /\ parent' = e.id
      BY <2>1 DEF OpenDirectory, Listing, DavSound, DavInv, DavPlaces
    <3>2. DavEntry(e)
      BY DEF DavSound, DavInv, DavList
    <3>3. TitleEntry(e)
      <4>1. Len(Segments(<<>>)) = 0 /\ ~IsTitle(<<>>)
        BY SegmentsStep DEF IsTitle
      <4> QED BY <3>1, <3>2, <4>1 DEF DavEntry, BackupEntry, DeepEntry
    <3> QED BY <3>1, <3>2, <3>3 DEF TitleEntry, IsTitle, DavEntry
  <2>2. CASE ReturnToRoot
    BY <2>2 DEF ReturnToRoot, DavSound, DavInv, DavPlaces
  <2>3. CASE ConnectionFails \/ DavDownloads
    BY <2>3 DEF ConnectionFails, DavDownloads
  <2> QED BY <2>1, <2>2, <2>3
<1>6. \A n \in Live : IsTop(n) => n \in Live' /\ IsTop(n)' /\ drive'[n].name = drive[n].name
  BY <1>1, <1>3 DEF IsTop
<1> QED BY <1>1, <1>3, <1>4, <1>5, <1>6, DavKeeps

\* A backup is uploaded to the directory of a title: titles are listed as before.
LEMMA DavUploadSound ==
  ASSUME DavSound, DavUploads
  PROVE  DavSound'
<1> USE DEF DavSound, Sound
<1>1. /\ state = "ready" /\ UNCHANGED <<kind, root, parent, state>> /\ got' = <<>> /\ parent # root
      /\ root = <<>> /\ IsTitle(parent)
  BY DEF DavUploads, Changes, Operation, DavInv, DavPlaces
<1>2. PICK name, d, entry :
        /\ name \in Name /\ d \in Reaches(parent)
        /\ entry = Entry(CreatedId(name), name, parent, FALSE)
        /\ \/ /\ \/ UNCHANGED drive
                 \/ \E n \in Fresh : drive' = [drive EXCEPT ![n] = Thing("file", name, d)]
              /\ \/ Answered /\ list' = list \cup {entry}
                 \/ AnswerLost
           \/ /\ unsure' = TRUE /\ list' = list \cup {entry} /\ UNCHANGED drive
  BY DEF DavUploads
<1> name \in Name /\ d \in Reaches(parent)
  BY <1>2
<1>3. d \in Live /\ IsTop(d)
  BY <1>1, <1>2, ReachesPaths
<1>4. TreeInv' /\ \A n \in Live : n \in Live' /\ drive'[n] = drive[n]
  <2>1. CASE UNCHANGED drive
    BY <2>1, Rests
  <2>2. CASE \E n \in Fresh : drive' = [drive EXCEPT ![n] = Thing("file", name, d)]
    <3>1. PICK n \in Fresh : drive' = [drive EXCEPT ![n] = Thing("file", name, d)]
      BY <2>2
    <3>2. name \in NameOnDrive /\ drive[d].is = "dir"
      BY <1>3, Places DEF NameOnDrive
    <3> QED BY ONLY TreeInv, BoundAssumption, NameAssumption, n \in Fresh, <1>3, <3>1, <3>2, Grows
  <2> QED BY <1>2, <2>1, <2>2
<1>5. unsure' \in {unsure, TRUE} /\ \A e \in list' : e \in list \/ e = entry
  BY <1>2 DEF Answered, AnswerLost
<1>6. DavEntry(entry) /\ entry.parent # <<>>
  <2>1. /\ name \in NameOnDrive /\ parent # <<>>
        /\ EntryFields(entry) /\ entry.name = name /\ entry.parent = parent /\ entry.id = CreatedId(name)
    BY <1>1, <1>2 DEF Entry, EntryFields, NameOnDrive
  <2>2. parent \in Seq(Nat)
    BY <1>1 DEF IsTitle
  <2>3. PICK p : p = Append(parent, 0)
    OBVIOUS
  <2>4. entry.id = Append(p, name) /\ IsTitle(p)
    BY <1>1, <2>1, <2>2, <2>3, LongerPaths DEF IsTitle, CreatedId
  <2> QED BY <1>1, <2>1, <2>4 DEF DavEntry, BackupEntry
<1>7. \A n \in Live : IsTop(n) => n \in Live' /\ IsTop(n)' /\ drive'[n].name = drive[n].name
  BY <1>4 DEF IsTop
<1>8. DownloadFetchesListed'
  BY <1>1, <1>5, DownloadStays
<1> QED BY <1>1, <1>4, <1>5, <1>6, <1>7, <1>8, DavKeeps

\* Opened is a title, so what is listed in it is the backup of a title.
LEMMA DavBackups ==
  ASSUME DavSound, parent # root, NEW e \in Listing
  PROVE  /\ IsTitle(parent) /\ e \in list /\ e.parent = parent /\ e.parent # <<>> /\ e.name \in NameOnDrive
         /\ \E p : IsTitle(p) /\ e.id = Append(p, e.name)
<1>1. IsTitle(parent) /\ e \in list /\ e.parent = parent /\ e.parent # <<>>
  BY DEF DavSound, DavInv, DavPlaces, Listing
<1>2. DavEntry(e)
  BY <1>1 DEF DavSound, DavInv, DavList
<1>3. ~DeepEntry(e)
  <2>1. PICK x \in NameOnDrive : Segments(parent) = <<x>>
    BY <1>1 DEF IsTitle
  <2> QED BY <1>1, <2>1 DEF DeepEntry
<1> QED BY <1>1, <1>2, <1>3 DEF DavEntry, TitleEntry, BackupEntry

\* A backup is overwritten: its path stands for the file as before.
LEMMA DavPatchSound ==
  ASSUME DavSound, DavPatches
  PROVE  DavSound'
<1> USE DEF DavSound, Sound
<1>1. /\ state = "ready" /\ UNCHANGED <<kind, root, parent, state, list, unsure>> /\ got' = <<>> /\ parent # root
  BY DEF DavPatches, Changes, Operation, Answered
<1>2. PICK e \in Listing :
        \/ UNCHANGED drive
        \/ \E d \in Reaches(Front(e.id)), n \in Fresh : drive' = [drive EXCEPT ![n] = Thing("file", e.name, d)]
  BY DEF DavPatches
<1>3. TreeInv' /\ \A n \in Live : n \in Live' /\ drive'[n] = drive[n]
  <2>1. CASE UNCHANGED drive
    BY <2>1, Rests
  <2>2. CASE \E d \in Reaches(Front(e.id)), n \in Fresh : drive' = [drive EXCEPT ![n] = Thing("file", e.name, d)]
    <3>1. PICK p : IsTitle(p) /\ e.id = Append(p, e.name) /\ e.name \in NameOnDrive
      BY <1>1, DavBackups
    <3>2. Front(e.id) = p
      <4>1. p \in Seq(Nat) /\ e.name \in Nat
        BY <3>1, NoEmptyNames DEF IsTitle
      <4>2. Append(p, e.name) \in Seq(Nat) /\ Len(Append(p, e.name)) = Len(p) + 1 /\ Len(p) \in Nat
            /\ \A i \in 1..Len(p) : Append(p, e.name)[i] = p[i]
        BY <4>1
      <4>3. SubSeq(Append(p, e.name), 1, Len(p)) = p
        BY <4>1, <4>2
      <4>4. (Len(p) + 1) - 1 = Len(p)
        BY <4>2
      <4> QED BY <3>1, <4>2, <4>3, <4>4 DEF Front
    <3>3. PICK d \in Reaches(p), n \in Fresh : drive' = [drive EXCEPT ![n] = Thing("file", e.name, d)]
      BY <2>2, <3>2
    <3>4. d \in Live /\ IsTop(d) /\ drive[d].is = "dir"
      BY <3>1, ReachesPaths, Places
    <3> QED BY ONLY TreeInv, BoundAssumption, NameAssumption, n \in Fresh, <3>1, <3>3, <3>4, Grows
  <2> QED BY <1>2, <2>1, <2>2
<1>4. \A n \in Live : IsTop(n) => n \in Live' /\ IsTop(n)' /\ drive'[n].name = drive[n].name
  BY <1>3 DEF IsTop
<1>5. DownloadFetchesListed'
  BY <1>1, DownloadStays
<1> QED BY <1>1, <1>3, <1>4, <1>5, DavKeeps

\* A backup is deleted, and what the server has below its path with it.
LEMMA DavDeleteSound ==
  ASSUME DavSound, DavDeletes
  PROVE  DavSound'
<1> USE DEF DavSound, Sound
<1>1. /\ state = "ready" /\ UNCHANGED <<kind, root, parent, state>> /\ got' = <<>> /\ parent # root
  BY DEF DavDeletes, Changes, Operation
<1>2. PICK e \in Listing : \E n \in Reaches(e.id) :
        /\ drive' = Without({n} \cup Below(n))
        /\ (Answered /\ list' \subseteq list) \/ AnswerLost
  BY DEF DavDeletes
<1>3. PICK n \in Reaches(e.id) :
        /\ drive' = Without({n} \cup Below(n))
        /\ (Answered /\ list' \subseteq list) \/ AnswerLost
  BY <1>2
<1>4. n \in Live /\ IsMid(n)
  <2>1. PICK p : IsTitle(p) /\ e.id = Append(p, e.name) /\ e.name \in NameOnDrive
    BY <1>1, DavBackups
  <2> QED BY <1>3, <2>1, ReachesPaths
<1> DEFINE R == {n} \cup Below(n)
<1>5. \A m \in R : m \in Live /\ ~IsTop(m)
  <2>1. PICK S : S = {m \in Live : ~IsTop(m)}
    OBVIOUS
  <2>2. \A m \in Live : drive[m].parent = n \/ drive[m].parent \in S => m \in S
    BY <1>4, <2>1, Places DEF IsTop
  <2>3. Below(n) \subseteq S
    BY <1>4, <2>1, <2>2, BelowIsClosed
  <2> QED BY <1>4, <2>1, <2>3 DEF IsMid
<1>6. Closed(R) /\ drive' = Without(R)
  BY <1>3, <1>4, BelowIsClosed
<1> HIDE DEF R
<1>7. /\ TreeInv' /\ Live' = Live \ R
      /\ \A m \in Live \ R : drive'[m] = drive[m]
  BY <1>6, Shrinks
<1>8. \A m \in Live : IsTop(m) => m \in Live' /\ IsTop(m)' /\ drive'[m].name = drive[m].name
  BY <1>5, <1>7 DEF IsTop
<1>9. unsure' \in {unsure, TRUE} /\ list' \subseteq list
  BY <1>3 DEF Answered, AnswerLost
<1>10. DownloadFetchesListed'
  BY <1>1, <1>9, DownloadStays
<1> QED BY <1>1, <1>7, <1>8, <1>9, <1>10, DavKeeps

\* The base directory is not the directory of a title.
LEMMA EmptyIsNoTitle == Len(Segments(<<>>)) = 0 /\ ~IsTitle(<<>>)
<1>1. Segments(<<>>) = <<>> /\ Len(<<>>) = 0 /\ \A x \in NameOnDrive : Len(<<x>>) = 1
  BY SegmentsStep
<1> QED BY <1>1 DEF IsTitle

\* A title's directory with an empty segment before its name.
LEMMA DavCreateSound ==
  ASSUME DavSound, DavCreates
  PROVE  DavSound'
<1> USE DEF DavSound, Sound
<1>1. /\ state = "ready" /\ UNCHANGED <<kind, root, parent, state>> /\ got' = <<>> /\ parent = root
      /\ root = <<>>
  BY DEF DavCreates, Changes, Operation, DavInv, DavPlaces
<1>2. PICK name, n, new :
        /\ name \in Name /\ n \in Fresh
        /\ new = Entry(CreatedId(name), name, parent, TRUE)
        /\ DirectoriesNamed(name) = {}
        /\ drive' = [drive EXCEPT ![n] = Thing("dir", name, Base)]
        /\ \/ Answered /\ list' = list \cup {new}
           \/ AnswerLost
  BY DEF DavCreates
<1> name \in Name /\ n \in Fresh
  BY <1>2
<1>3. name \in NameOnDrive
  BY DEF NameOnDrive
<1>4. /\ TreeInv' /\ Live' = Live \cup {n} /\ drive'[n].name = name /\ drive'[n].parent = Base
      /\ \A m \in Live : drive'[m] = drive[m]
  BY ONLY TreeInv, BoundAssumption, NameAssumption, n \in Fresh, <1>2, <1>3, Grows
<1>5. EntryFields(new) /\ new.name = name /\ new.parent = <<>> /\ new.id = CreatedId(name) /\ new.dir
  BY <1>1, <1>2 DEF Entry, EntryFields
<1>6. DavEntry(new)
  <2> DEFINE p == Append(<<>>, 0)
  <2>1. <<>> \in Seq(Nat) /\ Segments(<<>>) = <<>> /\ CreatedId(name) = <<>> \o <<Empty, name>>
    BY <1>1, SegmentsStep DEF CreatedId
  <2>2. CreatedId(name) = Append(p, name) /\ p \in Seq(Nat) /\ Segments(p) = <<>>
    BY <1>3, <2>1, LongerPaths
  <2> HIDE DEF p
  <2>3. Append(p, name) \in Seq(Nat) /\ Segments(Append(p, name)) = Append(<<>>, name)
    BY <1>3, <2>2, LongerPaths
  <2>4. Append(<<>>, name) = <<name>>
    BY <1>3
  <2> QED BY <1>3, <1>5, <2>2, <2>3, <2>4 DEF DavEntry, TitleEntry
<1>7. unsure' \in {unsure, TRUE} /\ \A e \in list' : e \in list \/ (e = new /\ list' # list)
  BY <1>2 DEF Answered, AnswerLost
<1>8. \A e \in list : e.parent = <<>> => e.name # name
  <2>1. \A e \in list : DavEntry(e)
    BY DEF DavInv, DavList
  <2>2. \A e \in list : e.parent = <<>> => e.dir
    <3> QED BY <2>1, EmptyIsNoTitle DEF DavEntry, TitleEntry, BackupEntry, DeepEntry
  <2> QED BY <1>1, <1>2, <2>2 DEF DirectoriesNamed
<1>9. DavPlaces'
  BY <1>1 DEF DavInv, DavPlaces
<1>10. DavList'
  <2>1. \A e \in list' : DavEntry(e)'
    BY <1>6, <1>7 DEF DavInv, DavList, DavEntry
  <2>4. ~unsure' => ~unsure
    BY <1>7
  <2>2. ASSUME ~unsure', NEW e \in list', e.parent = <<>> PROVE \E m \in Live' : IsTop(m)' /\ drive'[m].name = e.name
    <3>1. CASE e \in list
      <4>1. PICK m \in Live : IsTop(m) /\ drive[m].name = e.name
        BY <2>4, <2>2, <3>1 DEF DavInv, DavList
      <4> QED BY <1>4, <4>1 DEF IsTop
    <3>2. CASE e = new
      BY <1>4, <1>5, <3>2 DEF IsTop
    <3> QED BY <1>7, <3>1, <3>2
  <2>3. ASSUME ~unsure', NEW e \in list', NEW o \in list', e.parent = <<>>, o.parent = <<>>, e.name = o.name PROVE e = o
    <3>1. CASE e \in list /\ o \in list
      BY <2>4, <2>3, <3>1 DEF DavInv, DavList
    <3>2. CASE e = new \/ o = new
      BY <1>5, <1>7, <1>8, <2>3, <3>2
    <3> QED BY <1>7, <3>1, <3>2
  <2> QED BY <2>1, <2>2, <2>3 DEF DavList, DavEntry
<1>11. DownloadFetchesListed' /\ unsure' \in BOOLEAN
  BY <1>1, <1>7, DownloadStays
<1> QED BY <1>1, <1>4, <1>9, <1>10, <1>11 DEF DavInv

\* MOVE, of a title's directory.
LEMMA DavRenameSound ==
  ASSUME DavSound, DavRenames
  PROVE  DavSound'
<1> USE DEF DavSound, Sound
<1>1. /\ state = "ready" /\ UNCHANGED <<kind, root, parent, state>> /\ got' = <<>> /\ parent = root
      /\ root = <<>>
  BY DEF DavRenames, Changes, Operation, DavInv, DavPlaces
<1>2. PICK e, name, n, replaced :
        /\ e \in Listing /\ name \in Name
        /\ n \in Reaches(e.id) /\ e.dir /\ name # e.name /\ replaced = Named(Base, name)
        /\ drive' = [Without(replaced \cup UNION {Below(m) : m \in replaced}) EXCEPT ![n].name = name]
        /\ \/ list' = MovedAway(e, name) /\ unsure' = (unsure \/ replaced # {})
           \/ AnswerLost
  BY DEF DavRenames
<1> e \in Listing /\ name \in Name
  BY <1>2
<1>3. name \in NameOnDrive
  BY DEF NameOnDrive
<1>4. Len(Segments(<<>>)) = 0 /\ ~IsTitle(<<>>)
  BY EmptyIsNoTitle
<1>5. /\ e \in list /\ DavEntry(e) /\ e.parent = <<>> /\ TitleEntry(e) /\ IsTitle(e.id) /\ Segments(e.id) = <<e.name>>
  <2>1. e \in list /\ DavEntry(e) /\ e.parent = <<>>
    BY <1>1 DEF Listing, DavInv, DavList
  <2>2. TitleEntry(e)
    BY <1>4, <2>1 DEF DavEntry, BackupEntry, DeepEntry
  <2> QED BY <2>1, <2>2 DEF TitleEntry, IsTitle, DavEntry
<1>6. n \in Live /\ IsTop(n) /\ drive[n].name = e.name
  <2>1. n \in Live /\ IsTop(n) /\ <<e.name>> = <<drive[n].name>>
    BY <1>2, <1>5, ReachesPaths
  <2> QED BY <2>1
<1> DEFINE R == replaced \cup UNION {Below(m) : m \in replaced}
<1>7. replaced = {m \in Live : IsTop(m) /\ drive[m].name = name}
  BY <1>2 DEF Named, ChildrenOf, IsTop
<1>8. Closed(R)
  <2>1. \A m \in replaced : m \in Live /\ Closed({m} \cup Below(m))
    BY <1>7, BelowIsClosed
  <2> QED BY <2>1 DEF Closed
<1>9. \A m \in R : m \in replaced \/ ~IsTop(m)
  <2> SUFFICES ASSUME NEW o \in replaced, NEW m \in Below(o) PROVE ~IsTop(m)
    OBVIOUS
  <2>1. PICK S : S = {k \in Live : ~IsTop(k)}
    OBVIOUS
  <2>2. o \in Live /\ Base \notin Live
    BY <1>7, Places
  <2>3. \A k \in Live : drive[k].parent = o \/ drive[k].parent \in S => k \in S
    BY <2>1, <2>2 DEF IsTop
  <2>4. Below(o) \subseteq S
    BY <2>1, <2>2, <2>3, BelowIsClosed
  <2> QED BY <2>1, <2>4
<1>10. n \in Live \ R /\ drive' = [Without(R) EXCEPT ![n].name = name]
  BY <1>2, <1>6, <1>7, <1>9
<1>11. replaced = {} => R = {}
  OBVIOUS
<1> HIDE DEF R
<1>12. /\ TreeInv' /\ Live' = Live \ R
       /\ drive'[n].name = name /\ drive'[n].parent = drive[n].parent
       /\ \A m \in Live \ R : m # n => drive'[m] = drive[m]
  BY <1>3, <1>6, <1>8, <1>10, Renames
<1>13. unsure' \in BOOLEAN /\ (unsure => unsure') /\ (~unsure' => ~unsure /\ replaced = {} /\ list' = MovedAway(e, name))
  BY <1>2 DEF AnswerLost
<1>14. PICK new : new = Append(<<>>, name)
  OBVIOUS
<1>15. new = <<name>> /\ new \in Seq(Nat) /\ Segments(new) = <<name>> /\ IsTitle(new) /\ new # <<>>
  <2>1. <<>> \in Seq(Nat) /\ Segments(<<>>) = <<>>
    BY SegmentsStep
  <2>2. new \in Seq(Nat) /\ Segments(new) = Append(<<>>, name)
    BY <1>3, <1>14, <2>1, LongerPaths
  <2>3. Append(<<>>, name) = <<name>>
    BY <1>3
  <2> QED BY <1>3, <1>4, <1>14, <2>2, <2>3 DEF IsTitle
<1>16. MovedAway(e, name) = {IF o = e THEN Entry(new, name, o.parent, o.dir)
                             ELSE IF o.parent = e.id THEN [o EXCEPT !.parent = new] ELSE o : o \in list}
  BY <1>1, <1>14 DEF MovedAway
<1>17. ASSUME NEW f \in MovedAway(e, name)
       PROVE  \/ f.parent = <<>> /\ f.name = name /\ f = Entry(new, name, <<>>, e.dir) /\ DavEntry(f)
              \/ f \in list /\ f # e
              \/ f.parent # <<>> /\ DavEntry(f)
  <2>1. PICK o \in list : f = IF o = e THEN Entry(new, name, o.parent, o.dir)
                              ELSE IF o.parent = e.id THEN [o EXCEPT !.parent = new] ELSE o
    BY <1>16
  <2>2. CASE o = e
    <3>1. /\ f = Entry(new, name, <<>>, e.dir)
          /\ f.id = new /\ f.name = name /\ f.parent = <<>> /\ f.dir = e.dir /\ EntryFields(f)
      BY <1>5, <2>1, <2>2 DEF Entry, EntryFields, DavEntry
    <3> QED BY <1>2, <1>3, <1>15, <3>1 DEF DavEntry, TitleEntry
  <2>3. CASE o # e /\ o.parent = e.id
    <3>1. DavEntry(o)
      BY DEF DavInv, DavList
    <3>2. BackupEntry(o)
      <4>1. o.parent # <<>> /\ Len(Segments(o.parent)) = 1
        BY <1>4, <1>5, <2>3
      <4> QED BY <3>1, <4>1 DEF DavEntry, TitleEntry, DeepEntry
    <3>3. f = [o EXCEPT !.parent = new] /\ o = Entry(o.id, o.name, o.parent, o.dir) /\ o.dir \in BOOLEAN
      BY <2>1, <2>3, <3>1 DEF DavEntry, EntryFields
    <3>4. f = Entry(o.id, o.name, new, o.dir)
      BY <3>3 DEF Entry
    <3>5. f.id = o.id /\ f.name = o.name /\ f.parent = new /\ EntryFields(f)
      BY <3>3, <3>4 DEF Entry, EntryFields
    <3> QED BY <1>15, <3>1, <3>2, <3>5 DEF DavEntry, BackupEntry
  <2>4. CASE o # e /\ o.parent # e.id
    BY <2>1, <2>4
  <2> QED BY <2>2, <2>3, <2>4
<1>18. \A f \in list' : DavEntry(f)'
  <2>1. \A f \in list : DavEntry(f)
    BY DEF DavInv, DavList
  <2>2. list' = MovedAway(e, name) \/ list' = list
    BY <1>2 DEF AnswerLost
  <2> QED BY <1>17, <2>1, <2>2 DEF DavEntry
<1>19. ASSUME ~unsure', NEW f \in list', f.parent = <<>> PROVE \E m \in Live' : IsTop(m)' /\ drive'[m].name = f.name
  <2>1. f \in MovedAway(e, name) /\ Live' = Live /\ R = {}
    BY <1>11, <1>12, <1>13, <1>19
  <2>2. CASE f.name = name
    BY <1>6, <1>12, <2>1, <2>2 DEF IsTop
  <2>3. CASE f.name # name
    <3>1. f \in list /\ f # e
      BY <1>17, <1>19, <2>1, <2>3
    <3>2. f.name # e.name /\ \E m \in Live : IsTop(m) /\ drive[m].name = f.name
      BY <1>5, <1>13, <1>19, <3>1 DEF DavInv, DavList
    <3> QED BY <1>6, <1>12, <2>1, <3>2 DEF IsTop
  <2> QED BY <2>2, <2>3
<1>20. ASSUME ~unsure', NEW f \in list', NEW g \in list', f.parent = <<>>, g.parent = <<>>, f.name = g.name PROVE f = g
  <2>1. ASSUME NEW h \in list', h.parent = <<>>
        PROVE  \/ h.name = name /\ h = Entry(new, name, <<>>, e.dir)
               \/ h \in list /\ h.name # name
    <3>1. h \in MovedAway(e, name) /\ ~unsure /\ replaced = {}
      BY <1>13, <1>20
    <3>2. h \in list => h.name # name
      <4>1. h \in list => \E m \in Live : IsTop(m) /\ drive[m].name = h.name
        BY <2>1, <3>1 DEF DavInv, DavList
      <4> QED BY <1>7, <3>1, <4>1
    <3> QED BY <1>17, <2>1, <3>1, <3>2
  <2>2. ~unsure
    BY <1>13, <1>20
  <2> QED BY <1>20, <2>1, <2>2 DEF DavInv, DavList
<1>21. DavPlaces'
  BY <1>1 DEF DavInv, DavPlaces
<1>22. DavList'
  BY <1>18, <1>19, <1>20 DEF DavList, DavEntry
<1>23. DownloadFetchesListed'
  BY <1>1 DEF DownloadFetchesListed
<1> QED BY <1>1, <1>12, <1>13, <1>21, <1>22, <1>23 DEF DavInv

\* What is listed in the base directory are titles.
LEMMA OnlyTitles == \A e : e.parent = <<>> => ~BackupEntry(e) /\ ~DeepEntry(e)
<1> SUFFICES ASSUME NEW e, e.parent = <<>> PROVE ~BackupEntry(e) /\ ~DeepEntry(e)
  OBVIOUS
<1>1. PICK p : p = e.parent /\ p = <<>>
  OBVIOUS
<1>2. Len(Segments(p)) = 0 /\ ~IsTitle(p)
  BY <1>1, EmptyIsNoTitle, Zenon
<1> QED BY <1>1, <1>2 DEF BackupEntry, DeepEntry

\* One directory of the listing.
LEMMA DavReads ==
  ASSUME DavSound, ReadCollection
  PROVE  DavSound'
<1> USE DEF DavSound, Sound
<1>1. /\ state = "reading" /\ UNCHANGED <<kind, drive, root, parent, unsure, got>> /\ root = <<>> /\ parent = <<>>
      /\ ReadByDav
  BY DEF ReadCollection, DavInv, DavPlaces
<1>2. TreeInv' /\ Live' = Live
  BY <1>1, Rests
<1>3. PICK above, inside, below, stack :
        /\ above = Head(reading.stack) /\ inside = PropFinds(above)
        /\ below = SetToSeq({PathOf(n) : n \in {m \in inside : IsDir(m)}})
        /\ \/ /\ list' = list \cup {EntryOf(n, above) : n \in inside}
              /\ stack = below \o Tail(reading.stack)
           \/ list' = list /\ stack = Tail(reading.stack)
        /\ IF stack = <<>> THEN state' = "ready" /\ reading' = <<>>
           ELSE state' = state /\ reading' = [stack |-> stack]
  BY DEF ReadCollection
<1>4. /\ above \in Seq(NameOnDrive) /\ Tail(reading.stack) \in Seq(Seq(NameOnDrive))
      /\ ToSet(reading.stack) = {above} \cup ToSet(Tail(reading.stack))
  BY <1>1, <1>3, ElementsOfLonger DEF ReadByDav
<1>5. above = <<>> \/ \E d \in Live : PathOf(d) = above /\ drive[d].is = "dir"
  BY <1>1, <1>4 DEF ReadByDav
\* What is inside hangs in a directory of that path.
<1>6. ASSUME NEW n \in inside
      PROVE  /\ n \in Live /\ \E d \in Live \cup {Base} : drive[n].parent = d /\ PathOf(d) = above
             /\ PathOf(n) = Append(above, drive[n].name) /\ drive[n].name \in NameOnDrive
  <2>1. PICK d \in Reaches(above) : n \in ChildrenOf(d)
    BY <1>3 DEF PropFinds
  <2>2. d \in Live \cup {Base} /\ PathOf(d) = above
    BY <1>4, NoEmptyNames, ReachesPaths
  <2>3. n \in Live /\ drive[n].parent = d
    BY <2>1 DEF ChildrenOf
  <2>4. drive[n].name \in NameOnDrive
    BY <2>3, Places DEF IsThing
  <2> QED BY <2>2, <2>3, <2>4, Paths DEF PathsStep
<1>7. PICK P : P = {PathOf(n) : n \in {m \in inside : IsDir(m)}}
  OBVIOUS
<1>8. IsFiniteSet(P) /\ P \subseteq Seq(NameOnDrive)
  <2> DEFINE D == {m \in inside : IsDir(m)}
             f == [n \in D |-> PathOf(n)]
  <2>1. D \in SUBSET Live
    BY <1>6
  <2>2. IsFiniteSet(D)
    BY <2>1, LiveIsFinite, FS_Subset
  <2>3. f \in Surjection(D, P)
    BY <1>7 DEF Surjection
  <2>4. \A n \in D : PathOf(n) \in Seq(NameOnDrive)
    BY <2>1, ShapesOfPaths DEF PathShapes
  <2>5. IsFiniteSet(P)
    BY <2>2, <2>3, FS_Surjection
  <2> QED BY <1>7, <2>4, <2>5
<1>9. below \in Seq(Seq(NameOnDrive)) /\ ToSet(below) = P
  <2>1. below \in Seq(P) /\ ToSet(below) = P
    BY <1>3, <1>7, <1>8, ElementsOfSet
  <2> QED BY <1>8, <2>1, SeqMonotonic
<1>10. stack \in Seq(Seq(NameOnDrive)) /\ ToSet(stack) \subseteq P \cup ToSet(Tail(reading.stack))
  <2>1. /\ below \o Tail(reading.stack) \in Seq(Seq(NameOnDrive))
        /\ ToSet(below \o Tail(reading.stack)) = P \cup ToSet(Tail(reading.stack))
    BY <1>4, <1>9, ElementsOfJoined, ConcatProperties
  <2> QED BY <1>3, <1>4, <2>1
<1>11. ASSUME NEW n \in inside, NEW e, e = EntryOf(n, above)
       PROVE  /\ DavEntry(e) /\ e.parent = above /\ e.name = drive[n].name
              /\ above = <<>> => /\ IsTop(n) /\ e = Entry(<<drive[n].name>>, drive[n].name, <<>>, TRUE)
                                 /\ e.id = <<e.name>>
  <2>1. n \in Live /\ n # Base /\ PathOf(n) = Append(above, drive[n].name) /\ drive[n].name \in NameOnDrive
    BY <1>6, Places
  <2>2. /\ e = Entry(PathOf(n), drive[n].name, above, IsDir(n))
    BY <1>11 DEF EntryOf, IdOf
  <2>3. e.id = PathOf(n) /\ e.name = drive[n].name /\ e.parent = above /\ e.dir = IsDir(n)
        /\ e = Entry(e.id, e.name, e.parent, e.dir)
    BY <2>2 DEF Entry
  <2>4. IsDir(n) \in BOOLEAN
    BY DEF IsDir
  <2>5. EntryFields(e)
    BY <2>3, <2>4, Zenon DEF EntryFields
  <2>6. PICK d \in Live \cup {Base} : drive[n].parent = d /\ PathOf(d) = above
    BY <1>6
  <2>7. above \in Seq(Nat) /\ Segments(above) = above /\ PathOf(n) \in Seq(NameOnDrive)
    BY <1>4, <2>1, NoEmptyNames, ShapesOfPaths DEF PathShapes
  <2>8. CASE IsTop(n)
    <3>1. above = <<>> /\ PathOf(n) = <<drive[n].name>>
      BY <2>1, <2>6, <2>8, ReachesPaths, ShapesOfPaths DEF IsTop, PathShapes
    <3>2. IsDir(n) = TRUE
      BY <2>1, <2>8, Places DEF IsDir
    <3>3. e = Entry(<<drive[n].name>>, drive[n].name, <<>>, TRUE)
      BY <2>2, <3>1, <3>2, Zenon
    <3>4. e.dir /\ e.id \in Seq(Nat) /\ Segments(e.id) = <<e.name>>
      BY <2>3, <2>7, <3>1, <3>2, NoEmptyNames
    <3> QED BY <2>1, <2>3, <2>5, <2>8, <3>1, <3>3, <3>4 DEF DavEntry, TitleEntry
  <2>9. CASE IsMid(n)
    <3>1. d \in Live /\ IsTop(d) /\ above = <<drive[d].name>> /\ drive[d].name \in NameOnDrive
      BY <2>1, <2>6, <2>9, ShapesOfPaths, Places DEF IsMid, IsTop, PathShapes, IsThing
    <3>2. IsTitle(above)
      BY <2>7, <3>1 DEF IsTitle
    <3>3. e.id = Append(above, e.name)
      BY <2>1, <2>3
    <3> QED BY <2>1, <2>3, <2>5, <3>2, <3>3, EmptyIsNoTitle DEF DavEntry, BackupEntry
  <2>10. CASE IsLow(n)
    <3>1. d \in Live /\ IsMid(d)
      BY <2>1, <2>6, <2>10, Places DEF IsMid, IsTop, IsLow
    <3>2. Len(above) = 2
      BY <2>6, <3>1, ShapesOfPaths DEF PathShapes
    <3>3. e.parent \in Seq(Nat) /\ Segments(e.parent) = above
      BY <2>3, <2>7
    <3>4. DeepEntry(e)
      BY <3>2, <3>3 DEF DeepEntry
    <3> QED BY <2>1, <2>3, <2>5, <3>4, OnlyTitles DEF DavEntry
  <2> QED BY <2>8, <2>9, <2>10 DEF IsLow
<1>12. \A e \in list' : e \in list \/ \E n \in inside : e = EntryOf(n, above)
  BY <1>3
<1>13. \A e \in list' : DavEntry(e)
  BY <1>11, <1>12 DEF DavInv, DavList
<1>14. ASSUME NEW e \in list', e.parent = <<>> PROVE e.id = <<e.name>> /\ TitleEntry(e)
  <2>1. DavEntry(e)
    BY <1>13
  <2>2. TitleEntry(e)
    BY <1>14, <2>1, OnlyTitles DEF DavEntry
  <2>3. CASE e \in list
    BY <1>1, <1>14, <2>2, <2>3 DEF ReadByDav
  <2>4. CASE e \notin list
    BY <1>11, <1>12, <1>14, <2>2, <2>4
  <2> QED BY <2>3, <2>4
<1>15. DavList'
  <2>1. ASSUME ~unsure', NEW e \in list', e.parent = <<>> PROVE \E m \in Live' : IsTop(m)' /\ drive'[m].name = e.name
    <3>1. CASE e \in list
      BY <1>1, <1>2, <2>1, <3>1 DEF DavInv, DavList, IsTop
    <3>2. CASE e \notin list
      <4>1. PICK n \in inside : e = EntryOf(n, above)
        BY <1>12, <3>2
      <4> QED BY <1>1, <1>2, <1>6, <1>11, <2>1, <4>1 DEF IsTop
    <3> QED BY <3>1, <3>2
  <2>2. ASSUME NEW e \in list', NEW o \in list', e.parent = <<>>, o.parent = <<>>, e.name = o.name PROVE e = o
    <3>1. EntryFields(e) /\ EntryFields(o)
      BY <1>13 DEF DavEntry
    <3>2. e.id = o.id /\ e.dir /\ o.dir
      BY <1>14, <2>2 DEF TitleEntry
    <3>3. e.dir = o.dir
      BY <3>1, <3>2, Zenon DEF EntryFields
    <3> QED BY <2>2, <3>1, <3>2, <3>3, Zenon DEF EntryFields
  <2>3. \A e \in list' : DavEntry(e)'
    BY <1>13 DEF DavEntry
  <2> QED BY <2>1, <2>2, <2>3 DEF DavList
<1>16. state' = "reading" => ReadByDav'
  <2> SUFFICES ASSUME state' = "reading" PROVE ReadByDav'
    OBVIOUS
  <2>1. reading'.stack = stack /\ stack # <<>>
    BY <1>3
  <2>2. ASSUME NEW p \in ToSet(stack) PROVE p = <<>> \/ \E d \in Live : PathOf(d) = p /\ drive[d].is = "dir"
    <3>1. CASE p \in P
      <4>1. PICK n \in inside : IsDir(n) /\ p = PathOf(n)
        BY <1>7, <3>1
      <4>2. n \in Live /\ n # Base
        BY <1>6, Places
      <4> QED BY <4>1, <4>2 DEF IsDir
    <3>2. CASE p \in ToSet(Tail(reading.stack))
      BY <1>1, <1>4, <3>2 DEF ReadByDav
    <3> QED BY <1>10, <3>1, <3>2
  <2>3. \A d : PathOf(d)' = PathOf(d)
    BY <1>1, Rests
  <2> QED BY <1>1, <1>2, <1>10, <1>14, <2>1, <2>2, <2>3 DEF ReadByDav
<1>17. DavPlaces'
  BY <1>1, <1>3 DEF DavPlaces
<1>18. DownloadFetchesListed'
  BY <1>1 DEF DownloadFetchesListed
<1> QED BY <1>1, <1>2, <1>15, <1>16, <1>17, <1>18 DEF DavInv

\* JKSV is closed, or its next start connects: nothing is listed.
LEMMA DavStarts ==
  ASSUME DavSound, Restart \/ DavConnects \/ UNCHANGED vars
  PROVE  DavSound'
<1> USE DEF DavSound, Sound
<1>1. UNCHANGED <<kind, drive>>
  BY DEF Restart, DavConnects, vars
<1>2. TreeInv' /\ Live' = Live /\ \A n : PathOf(n)' = PathOf(n)
  BY <1>1, Rests
<1>3. PathOf(Base)' = <<>>
  BY <1>2, ReachesPaths
<1>4. CASE Restart
  <2>1. state' = "off" /\ list' = {} /\ got' = <<>> /\ unsure' = FALSE /\ root' = IdOf(Base)' /\ parent' = IdOf(Base)'
    BY <1>1, <1>2, <1>4 DEF Restart, IdOf
  <2>2. IdOf(Base)' = <<>>
    BY <1>1, <1>3 DEF IdOf
  <2>3. DavPlaces' /\ DavList' /\ DownloadFetchesListed'
    BY <2>1, <2>2 DEF DavPlaces, DavList, DownloadFetchesListed
  <2> QED BY <1>1, <1>2, <2>1, <2>3 DEF DavInv
<1>5. CASE DavConnects
  <2>1. /\ state = "off" /\ state' = "reading" /\ reading' = [stack |-> <<root>>]
        /\ UNCHANGED <<list, root, parent, unsure, got>> /\ list = {} /\ root = <<>> /\ parent = <<>>
    BY <1>5 DEF DavConnects, DavInv, DavPlaces
  <2>2. DavPlaces' /\ DavList' /\ DownloadFetchesListed'
    BY <2>1 DEF DavPlaces, DavList, DownloadFetchesListed
  <2>3. ReadByDav'
    <3>1. PICK s : s = <<root>> /\ reading'.stack = s
      BY <2>1
    <3>2. s \in Seq(Seq(NameOnDrive)) /\ s # <<>> /\ ToSet(s) = {<<>>}
      <4>1. <<>> \in Seq(NameOnDrive)
        OBVIOUS
      <4>2. s = <<root>> /\ root \in Seq(NameOnDrive)
        BY <2>1, <3>1, <4>1
      <4> QED BY <2>1, <4>2, ElementsOfOne
    <3> QED BY <2>1, <3>1, <3>2 DEF ReadByDav
  <2> QED BY <1>1, <1>2, <2>1, <2>2, <2>3 DEF DavInv
<1>6. CASE UNCHANGED vars
  <2>1. UNCHANGED <<list, root, parent, state, reading, unsure, got>>
    BY <1>6 DEF vars, connection
  <2>2. DavPlaces' /\ DownloadFetchesListed'
    BY <2>1 DEF DavInv, DavPlaces, DownloadFetchesListed
  <2>3. DavList'
    BY <1>1, <1>2, <2>1 DEF DavInv, DavList, DavEntry, IsTop
  <2>4. state = "reading" => ReadByDav'
    BY <1>1, <1>2, <2>1 DEF DavInv, ReadByDav
  <2> QED BY <1>1, <1>2, <2>1, <2>2, <2>3, <2>4 DEF DavInv
<1> QED BY <1>4, <1>5, <1>6

\* Every step of JKSV on WebDav.
LEMMA DavSteps ==
  ASSUME DavSound, [Next]_vars
  PROVE  DavSound'
<1>1. kind = "webdav" /\ kind # "baidu" /\ kind # "google"
  BY DEF DavSound
<1>2. ~BaiduNext
  BY <1>1 DEF BaiduNext, BaiduConnects, ReadPage, BaiduCreates, BaiduUploads, BaiduPatches, BaiduDownloads,
     BaiduDeletes, BaiduRenames, SysmoduleWrites, Changes
<1>3. ~DriveNext
  BY <1>1 DEF DriveNext, DriveConnects, ReadDrivePage, DriveSignsIn, DriveFindsRoot, DriveCreates, DriveUploads,
     DrivePatches, DriveDownloads, DriveDeletes, Changes
<1> QED BY <1>2, <1>3, DavBrowses, DavUploadSound, DavPatchSound, DavDeleteSound, DavCreateSound, DavRenameSound,
       DavReads, DavStarts DEF Next, DavNext

-----------------------------------------------------------------------------
\* Baidu Netdisk.

\* No two things in a directory have the same name.
UniqueNames == \A m, n \in Live : drive[m].parent = drive[n].parent /\ drive[m].name = drive[n].name => m = n

\* A directory or a file is at this path.
Stands(p, dir) == \E n \in Live : PathOf(n) = p /\ (dir <=> drive[n].is = "dir")

\* A path that is not the base directory's has one name at its end.
LEMMA SameNamed ==
  \A p, q \in Seq(NameOnDrive), x, y \in NameOnDrive : Append(p, x) = Append(q, y) => p = q /\ x = y
BY SameAppended

\* A node and the directory it is in.
LEMMA PathAndParent ==
  ASSUME TreeInv, NEW n \in Live
  PROVE  \E d \in Live \cup {Base} :
            /\ drive[n].parent = d /\ PathOf(n) = Append(PathOf(d), drive[n].name)
            /\ PathOf(d) \in Seq(NameOnDrive) /\ drive[n].name \in NameOnDrive
            /\ PathOf(Base) = <<>> /\ (d = Base <=> IsTop(n)) /\ (IsMid(n) => IsTop(d)) /\ (IsLow(n) => IsMid(d))
<1>1. PICK d \in Live \cup {Base} : drive[n].parent = d
  BY Places DEF IsTop
<1>2. PathOf(n) = Append(PathOf(d), drive[n].name) /\ PathOf(Base) = <<>>
  BY <1>1, Paths DEF PathsStep
<1>3. PathOf(d) \in Seq(NameOnDrive)
  <2>1. <<>> \in Seq(NameOnDrive)
    OBVIOUS
  <2> QED BY <1>2, <2>1, ShapesOfPaths DEF PathShapes
<1>4. drive[n].name \in NameOnDrive
  BY Places DEF IsThing
<1>5. (d = Base <=> IsTop(n)) /\ (IsMid(n) => IsTop(d)) /\ (IsLow(n) => IsMid(d))
  BY <1>1, Places DEF IsTop, IsMid, IsLow
<1> QED BY <1>1, <1>2, <1>3, <1>4, <1>5

\* A path is that of one node.
LEMMA OnePath ==
  ASSUME TreeInv, UniqueNames
  PROVE  \A m, n \in Live \cup {Base} : PathOf(m) = PathOf(n) => m = n
<1>1. PathOf(Base) = <<>> /\ Len(PathOf(Base)) = 0
  BY Paths DEF PathsStep
<1>2. \A n \in Live : /\ IsTop(n) => Len(PathOf(n)) = 1
                      /\ IsMid(n) => Len(PathOf(n)) = 2
                      /\ IsLow(n) => Len(PathOf(n)) = 3
                      /\ IsTop(n) \/ IsMid(n) \/ IsLow(n)
  BY ShapesOfPaths DEF PathShapes, IsLow
<1>3. ASSUME NEW m \in Live, NEW n \in Live, PathOf(m) = PathOf(n), NEW d \in Live \cup {Base},
             drive[m].parent = d, \A c \in Live \cup {Base} : drive[n].parent = c /\ PathOf(d) = PathOf(c) => d = c
      PROVE  m = n
  <2>1. PICK c \in Live \cup {Base} :
          /\ drive[n].parent = c /\ PathOf(n) = Append(PathOf(c), drive[n].name)
          /\ PathOf(c) \in Seq(NameOnDrive) /\ drive[n].name \in NameOnDrive
    BY PathAndParent
  <2>2. /\ PathOf(m) = Append(PathOf(d), drive[m].name)
        /\ PathOf(d) \in Seq(NameOnDrive) /\ drive[m].name \in NameOnDrive
    BY <1>3, PathAndParent
  <2>3. PathOf(d) = PathOf(c) /\ drive[m].name = drive[n].name
    BY <1>3, <2>1, <2>2, SameAppended
  <2> QED BY <1>3, <2>1, <2>3 DEF UniqueNames
<1>4. \A m, n \in Live : PathOf(m) = PathOf(n) => (IsTop(m) <=> IsTop(n)) /\ (IsMid(m) <=> IsMid(n)) /\ (IsLow(m) <=> IsLow(n))
  BY <1>2
<1>5. ASSUME NEW m \in Live, NEW n \in Live, PathOf(m) = PathOf(n), IsTop(m) PROVE m = n
  BY <1>3, <1>4, <1>5 DEF IsTop
<1>6. ASSUME NEW m \in Live, NEW n \in Live, PathOf(m) = PathOf(n), IsMid(m) PROVE m = n
  <2>1. PICK d \in Live : drive[m].parent = d /\ IsTop(d)
    BY <1>6, Places DEF IsMid
  <2>2. IsMid(n)
    BY <1>4, <1>6
  <2>3. \A c \in Live \cup {Base} : drive[n].parent = c => c \in Live
    BY <2>2, Places DEF IsMid
  <2> QED BY <1>3, <1>5, <1>6, <2>1, <2>3
<1>7. ASSUME NEW m \in Live, NEW n \in Live, PathOf(m) = PathOf(n), IsLow(m) PROVE m = n
  <2>1. PICK d \in Live : drive[m].parent = d /\ IsMid(d)
    BY <1>7, Places DEF IsMid, IsLow
  <2>2. IsLow(n)
    BY <1>4, <1>7
  <2>3. \A c \in Live \cup {Base} : drive[n].parent = c => c \in Live
    BY <2>2, Places DEF IsLow
  <2> QED BY <1>3, <1>6, <1>7, <2>1, <2>3
<1>8. \A n \in Live : PathOf(n) # PathOf(Base)
  BY <1>1, <1>2
<1> QED BY <1>2, <1>5, <1>6, <1>7, <1>8

\* How many names of the directory at p come before x.
NamesBefore(p, x) == {y \in NameOnDrive : y < x /\ \E n \in Live : PathOf(n) = Append(p, y)}
Rank(p, x) == Cardinality(NamesBefore(p, x))

\* Ranks are numbers.
LEMMA NamesAreFinite ==
  TreeInv => \A p \in Seq(NameOnDrive), x \in NameOnDrive : IsFiniteSet(NamesBefore(p, x)) /\ Rank(p, x) \in Nat
<1> SUFFICES ASSUME TreeInv, NEW p \in Seq(NameOnDrive), NEW x \in NameOnDrive
             PROVE  IsFiniteSet(NamesBefore(p, x)) /\ Rank(p, x) \in Nat
  OBVIOUS
<1> DEFINE names == {drive[n].name : n \in Live}
           f == [n \in Live |-> drive[n].name]
<1>1. f \in Surjection(Live, names)
  BY DEF Surjection
<1>2. IsFiniteSet(names)
  BY <1>1, LiveIsFinite, FS_Surjection
<1>3. ASSUME NEW y \in NamesBefore(p, x) PROVE y \in names
  <2>1. PICK n \in Live : PathOf(n) = Append(p, y)
    BY <1>3 DEF NamesBefore
  <2>4. y \in NameOnDrive
    BY <1>3 DEF NamesBefore
  <2>2. PICK d \in Live \cup {Base} : /\ PathOf(n) = Append(PathOf(d), drive[n].name)
                                      /\ PathOf(d) \in Seq(NameOnDrive) /\ drive[n].name \in NameOnDrive
    BY PathAndParent
  <2>3. y = drive[n].name
    <3>1. Append(p, y) = Append(PathOf(d), drive[n].name)
      BY <2>1, <2>2
    <3>2. PICK q, z : q = PathOf(d) /\ z = drive[n].name
      OBVIOUS
    <3>3. q \in Seq(NameOnDrive) /\ z \in NameOnDrive /\ Append(p, y) = Append(q, z)
      BY <2>2, <3>1, <3>2
    <3> QED BY ONLY p \in Seq(NameOnDrive), <2>4, <3>2, <3>3, SameNamed
  <2> QED BY <2>3
<1> HIDE DEF names
<1>4. IsFiniteSet(NamesBefore(p, x))
  BY <1>2, <1>3, FS_Subset
<1> QED BY <1>4, FS_CardinalityType DEF Rank

\* The same after a step.
LEMMA NamesNext ==
  TreeInv' => (\A p \in Seq(NameOnDrive), x \in NameOnDrive : IsFiniteSet(NamesBefore(p, x)) /\ Rank(p, x) \in Nat)'
BY NamesAreFinite, PTL

\* The place of a node in the listing of its directory.
LEMMA PlaceIsRank ==
  ASSUME TreeInv, UniqueNames, NEW d \in Live \cup {Base}, NEW n \in ChildrenOf(d)
  PROVE  Place(n, ChildrenOf(d)) = Rank(PathOf(d), drive[n].name)
<1> DEFINE S == {m \in ChildrenOf(d) : Before(m, n)}
           T == NamesBefore(PathOf(d), drive[n].name)
           f == [m \in S |-> drive[m].name]
<1>1. \A m \in ChildrenOf(d) : m \in Live /\ drive[m].parent = d /\ drive[m].name \in NameOnDrive /\ drive[m].name \in Nat
                               /\ m \in Nat /\ PathOf(m) = Append(PathOf(d), drive[m].name)
  BY Places, Paths, BoundAssumption DEF ChildrenOf, IsThing, Live, Node, PathsStep
<1>2. \A m \in S : drive[m].name < drive[n].name
  BY <1>1 DEF Before, UniqueNames
<1>3. \A m \in S : f[m] \in T
  BY <1>1, <1>2 DEF NamesBefore
<1>4. ASSUME NEW y \in T PROVE \E m \in S : f[m] = y
  <2>1. PICK m \in Live : PathOf(m) = Append(PathOf(d), y) /\ y \in NameOnDrive /\ y < drive[n].name
    BY DEF NamesBefore
  <2>2. PICK c \in Live \cup {Base} : /\ drive[m].parent = c /\ PathOf(m) = Append(PathOf(c), drive[m].name)
                                      /\ PathOf(c) \in Seq(NameOnDrive) /\ drive[m].name \in NameOnDrive
    BY PathAndParent
  <2>3. PathOf(d) \in Seq(NameOnDrive)
    <3>1. <<>> \in Seq(NameOnDrive)
      OBVIOUS
    <3> QED BY <3>1, Paths, ShapesOfPaths DEF PathsStep, PathShapes
  <2>4. PathOf(c) = PathOf(d) /\ drive[m].name = y
    <3>1. Append(PathOf(c), drive[m].name) = Append(PathOf(d), y)
      BY <2>1, <2>2
    <3>2. PICK p, q, x : p = PathOf(c) /\ q = PathOf(d) /\ x = drive[m].name
      OBVIOUS
    <3>3. p \in Seq(NameOnDrive) /\ q \in Seq(NameOnDrive) /\ x \in NameOnDrive /\ Append(p, x) = Append(q, y)
      BY <2>2, <2>3, <3>1, <3>2
    <3> QED BY ONLY <2>1, <3>2, <3>3, SameNamed
  <2>5. c = d
    BY <2>4, OnePath
  <2>6. m \in S
    BY <2>1, <2>2, <2>4, <2>5 DEF ChildrenOf, Before
  <2> QED BY <2>4, <2>6
<1>5. \A l, m \in S : f[l] = f[m] => l = m
  BY <1>1 DEF UniqueNames
<1>6. IsFiniteSet(S)
  BY <1>1, LiveIsFinite, FS_Subset
<1>7. f \in [S -> T]
  BY <1>3
<1>8. f \in Injection(S, T) /\ f \in Surjection(S, T)
  BY <1>4, <1>5, <1>7, Zenon DEF Injection, IsInjective, Surjection
<1>9. Cardinality(T) = Cardinality(S)
  <2> HIDE DEF S, T, f
  <2> QED BY <1>6, <1>8, FS_Bijection DEF ExistsBijection, Bijection
<1> QED BY <1>9 DEF Place, Rank

-----------------------------------------------------------------------------
\* The root is the base directory; what is opened is a title.
BaiduPlaces == root = <<>> /\ (parent = <<>> \/ \E x \in NameOnDrive : parent = <<x>>)

\* The id of an item is where it is; as long as every answer arrived, a file
\* or directory stands there.
BaiduEntry(e) ==
    /\ EntryFields(e) /\ e.parent \in Seq(NameOnDrive) /\ e.name \in NameOnDrive
    /\ e.id = Append(e.parent, e.name)
BaiduList == \A e \in list : BaiduEntry(e) /\ (~unsure => Stands(e.id, e.dir))

\* A number that is known for a path is that of the file there, or of one that
\* is no longer.
Knows(n, p) == Born(n) /\ (~unsure /\ n \in Live => PathOf(n) = p)
BaiduNumbers == \A p \in DOMAIN fsIds : \E n : n = fsIds[p] /\ Knows(n, p)

\* What is listed, and a directory from which x is still to be read.
Listed == {e.id : e \in list}
Due(p, x) ==
    \/ p = Head(reading.stack) /\ Rank(p, x) >= reading.start
    \/ p \in ToSet(reading.found) \cup ToSet(Tail(reading.stack))

\* What was at p when the listing began is listed or due.
Found(p, x) ==
    Append(p, x) \in reading.present =>
        /\ \E dir \in BOOLEAN : Stands(Append(p, x), dir)
        /\ p = <<>> \/ p \in reading.present
        /\ p = <<>> \/ p \in Listed => Append(p, x) \in Listed \/ Due(p, x)

ReadByBaidu ==
    /\ reading = [stack |-> reading.stack, start |-> reading.start, found |-> reading.found, present |-> reading.present]
    /\ reading.start \in Nat
    /\ reading.stack \in Seq(Seq(NameOnDrive)) /\ reading.stack # <<>>
    /\ reading.found \in Seq(Seq(NameOnDrive))
    /\ \A p \in ToSet(reading.stack) \cup ToSet(reading.found) : p = <<>> \/ Stands(p, TRUE)
    /\ \A p \in Seq(NameOnDrive), x \in NameOnDrive : Found(p, x)
    /\ \A q \in reading.present : \E p \in Seq(NameOnDrive), x \in NameOnDrive : q = Append(p, x)

BaiduInv == BaiduPlaces /\ BaiduList /\ BaiduNumbers /\ UniqueNames /\ (state = "reading" => ReadByBaidu)
BaiduSound == kind = "baidu" /\ Sound /\ BaiduInv

\* Something is where there was something.
StandsStill == \A p, dir : Stands(p, dir) => Stands(p, dir)'
\* A node that is not new is where it was, or is gone.
OldStay == \A o : Born(o) => Born(o)' /\ (o \in Live' => o \in Live /\ PathOf(o)' = PathOf(o))

\* Something that is added where its name is free.
LEMMA BaiduAdds ==
  ASSUME TreeInv, UniqueNames, NEW n \in Fresh, NEW is \in {"dir", "file"}, NEW name \in NameOnDrive,
         NEW d \in Live \cup {Base}, Named(d, name) = {},
         \/ d = Base /\ is = "dir"
         \/ /\ d \in Live /\ drive[d].is = "dir"
            /\ drive[d].parent = Base \/ is = "file",
         drive' = [drive EXCEPT ![n] = Thing(is, name, d)]
  PROVE  /\ TreeInv' /\ UniqueNames' /\ StandsStill /\ OldStay
         /\ Born(n)' /\ n \in Live' /\ PathOf(n)' = Append(PathOf(d), name)
         /\ drive'[n].is = is
<1>1. /\ TreeInv' /\ Live' = Live \cup {n} /\ n \notin Live /\ n \in Node
      /\ drive'[n].is = is /\ drive'[n].name = name /\ drive'[n].parent = d
      /\ \A m \in Live : drive'[m] = drive[m] /\ PathOf(m)' = PathOf(m) /\ m # n
      /\ PathOf(n)' = Append(PathOf(d), name)
      /\ \A m : Born(m) => Born(m)'
  BY ONLY TreeInv, BoundAssumption, NameAssumption, n \in Fresh, is \in {"dir", "file"}, name \in NameOnDrive,
     d \in Live \cup {Base}, drive' = [drive EXCEPT ![n] = Thing(is, name, d)],
     \/ d = Base /\ is = "dir"
     \/ /\ d \in Live /\ drive[d].is = "dir"
        /\ drive[d].parent = Base \/ is = "file", Grows
<1>2. UniqueNames'
  BY <1>1 DEF UniqueNames, Named, ChildrenOf
<1>3. StandsStill
  BY <1>1 DEF StandsStill, Stands
<1>4. ~Born(n) /\ Born(n)'
  BY <1>1, FreshNode DEF Born, Live, Unborn
<1>5. OldStay
  BY <1>1, <1>4 DEF OldStay
<1> QED BY <1>1, <1>2, <1>3, <1>4, <1>5

\* A file that is stored anew.
LEMMA BaiduOverwrites ==
  ASSUME TreeInv, UniqueNames, NEW n \in Live, drive[n].is = "file", NEW m \in {n} \cup Fresh,
         drive' = Overwritten(n, m)
  PROVE  /\ TreeInv' /\ UniqueNames' /\ StandsStill /\ OldStay
         /\ Born(m)' /\ m \in Live' /\ PathOf(m)' = PathOf(n)
<1>1. /\ TreeInv' /\ Live' = (Live \ {n}) \cup {m} /\ m \in Node
      /\ m \in Live => m = n
      /\ drive'[m] = drive[n] /\ PathOf(m)' = PathOf(n)
      /\ \A o \in Live \ {n} : drive'[o] = drive[o] /\ PathOf(o)' = PathOf(o)
      /\ \A o : Born(o) => Born(o)'
  BY Overwrites DEF Overwritten
<1>2. UniqueNames'
  BY <1>1 DEF UniqueNames
<1>3. StandsStill
  BY <1>1 DEF StandsStill, Stands
<1>4. m # n => ~Born(m)
  BY FreshNode
<1>5. OldStay
  BY <1>1, <1>4 DEF OldStay
<1>6. Born(m)'
  BY <1>1 DEF Born, Live, Unborn
<1> QED BY <1>1, <1>2, <1>3, <1>5, <1>6

\* Nothing happens on the drive.
LEMMA BaiduRests ==
  ASSUME TreeInv, UniqueNames, UNCHANGED drive
  PROVE  TreeInv' /\ UniqueNames' /\ StandsStill /\ OldStay /\ Live' = Live
<1>1. TreeInv' /\ Live' = Live /\ (\A n : PathOf(n)' = PathOf(n)) /\ \A m : Born(m) => Born(m)'
  BY Rests
<1>2. UniqueNames'
  BY <1>1 DEF UniqueNames
<1>3. StandsStill
  BY <1>1 DEF StandsStill, Stands
<1>4. OldStay
  BY <1>1 DEF OldStay
<1> QED BY <1>1, <1>2, <1>3, <1>4

\* Items and numbers stay true when everything stays where it is.
LEMMA BaiduStays ==
  ASSUME BaiduSound, StandsStill, OldStay, unsure' \in {unsure, TRUE}
  PROVE  /\ \A e \in list : BaiduEntry(e) /\ (~unsure' => Stands(e.id, e.dir)')
         /\ \A n, p : Knows(n, p) => Knows(n, p)'
         /\ \A p \in DOMAIN fsIds : \E n : n = fsIds[p] /\ Knows(n, p)'
<1>1. unsure \in BOOLEAN /\ (~unsure' => ~unsure)
  BY DEF BaiduSound, Sound
<1>2. \A e \in list : BaiduEntry(e) /\ (~unsure' => Stands(e.id, e.dir)')
  BY <1>1 DEF BaiduSound, BaiduInv, BaiduList, StandsStill
<1>3. \A n, p : Knows(n, p) => Knows(n, p)'
  BY <1>1 DEF Knows, OldStay
<1>4. \A p \in DOMAIN fsIds : \E n : n = fsIds[p] /\ Knows(n, p)'
  BY <1>3 DEF BaiduSound, BaiduInv, BaiduNumbers
<1> QED BY <1>2, <1>3, <1>4

\* What is to be read stays so while the sysmodule writes.
LEMMA ReadStays ==
  ASSUME TreeInv, TreeInv', ReadByBaidu, StandsStill, UNCHANGED <<list, reading>>
  PROVE  ReadByBaidu'
<1>1. ASSUME NEW p \in Seq(NameOnDrive), NEW x \in NameOnDrive
      PROVE  Rank(p, x) \in Nat /\ Rank(p, x)' \in Nat /\ Rank(p, x) <= Rank(p, x)'
  <2>1. IsFiniteSet(NamesBefore(p, x)) /\ IsFiniteSet(NamesBefore(p, x)') /\ Rank(p, x) \in Nat /\ Rank(p, x)' \in Nat
    BY NamesAreFinite, NamesNext
  <2>2. \A q : (\E n \in Live : PathOf(n) = q) => \E n \in Live' : PathOf(n)' = q
    <3>1. \A q : (\E n \in Live : PathOf(n) = q) => Stands(q, TRUE) \/ Stands(q, FALSE)
      BY DEF Stands
    <3>2. \A q, dir : Stands(q, dir)' => \E n \in Live' : PathOf(n)' = q
      BY DEF Stands
    <3> QED BY <3>1, <3>2 DEF StandsStill
  <2>3. NamesBefore(p, x) \subseteq NamesBefore(p, x)'
    BY <2>2 DEF NamesBefore
  <2>4. Rank(p, x) = Cardinality(NamesBefore(p, x)) /\ Rank(p, x)' = Cardinality(NamesBefore(p, x)')
    BY DEF Rank
  <2> QED BY <2>1, <2>3, <2>4, FS_Subset
<1>2. reading.start \in Nat
  BY DEF ReadByBaidu
<1>3. \A p \in Seq(NameOnDrive), x \in NameOnDrive : Due(p, x) => Due(p, x)'
  <2> SUFFICES ASSUME NEW p \in Seq(NameOnDrive), NEW x \in NameOnDrive, Due(p, x) PROVE Due(p, x)'
    OBVIOUS
  <2> QED BY <1>1, <1>2 DEF Due
<1>4. Listed' = Listed
  BY DEF Listed
<1>5. \A p : Stands(p, TRUE) => Stands(p, TRUE)'
  BY DEF StandsStill
<1>6. \A p : (\E dir \in BOOLEAN : Stands(p, dir)) => \E dir \in BOOLEAN : Stands(p, dir)'
  BY DEF StandsStill
<1>7. ASSUME NEW p \in ToSet(reading.stack) \cup ToSet(reading.found) PROVE p = <<>> \/ Stands(p, TRUE)'
  <2>1. p = <<>> \/ Stands(p, TRUE)
    BY DEF ReadByBaidu
  <2> QED BY <1>5, <2>1
<1>8. ASSUME NEW p \in Seq(NameOnDrive), NEW x \in NameOnDrive PROVE Found(p, x)'
  <2>1. Found(p, x)
    BY DEF ReadByBaidu
  <2> HIDE DEF StandsStill, ReadByBaidu
  <2> QED BY <1>3, <1>4, <1>6, <2>1 DEF Found
<1>9. /\ reading = [stack |-> reading.stack, start |-> reading.start, found |-> reading.found, present |-> reading.present]
      /\ reading.stack \in Seq(Seq(NameOnDrive)) /\ reading.stack # <<>>
      /\ reading.found \in Seq(Seq(NameOnDrive))
      /\ \A q \in reading.present : \E p \in Seq(NameOnDrive), x \in NameOnDrive : q = Append(p, x)
  BY DEF ReadByBaidu
<1>10. reading' = reading
  OBVIOUS
<1> QED BY ONLY <1>2, <1>7, <1>8, <1>9, <1>10 DEF ReadByBaidu

\* The node at a path.
LEMMA NodeOfPath ==
  ASSUME TreeInv, UniqueNames, kind = "baidu", NEW n \in Live \cup {Base}
  PROVE  Reaches(PathOf(n)) = {n} /\ NodeAt(PathOf(n)) = n /\ PathOf(n) \in Seq(NameOnDrive)
<1>1. PathOf(n) \in Seq(NameOnDrive)
  <2>1. <<>> \in Seq(NameOnDrive)
    OBVIOUS
  <2> QED BY <2>1, Paths, ShapesOfPaths DEF PathsStep, PathShapes
<1>2. Segments(PathOf(n)) = PathOf(n)
  BY <1>1, NoEmptyNames
<1>3. Reaches(PathOf(n)) = {m \in Live \cup {Base} : PathOf(m) = PathOf(n)}
  BY <1>2 DEF Reaches
<1>4. Reaches(PathOf(n)) = {n}
  BY <1>3, OnePath
<1> QED BY <1>1, <1>4 DEF NodeAt

\* Paths whose beginnings come in order are all reached.
LEMMA AllReached ==
  ASSUME NEW P, NEW L,
         \A q \in P : /\ Len(q) = 1 \/ Len(q) = 2 \/ Len(q) = 3
                     /\ \E p \in Seq(NameOnDrive), x \in NameOnDrive :
                          q = Append(p, x) /\ (p = <<>> \/ p \in P) /\ (p = <<>> \/ p \in L => q \in L)
  PROVE  P \subseteq L
<1>1. ASSUME NEW q \in P
      PROVE  \E p : /\ Len(q) = Len(p) + 1 /\ Len(p) \in Nat /\ (Len(p) = 0 => p = <<>>)
                    /\ p = <<>> \/ p \in P
                    /\ p = <<>> \/ p \in L => q \in L
  <2>1. PICK p \in Seq(NameOnDrive), x \in NameOnDrive :
           q = Append(p, x) /\ (p = <<>> \/ p \in P) /\ (p = <<>> \/ p \in L => q \in L)
    OBVIOUS
  <2>2. Len(q) = Len(p) + 1 /\ Len(p) \in Nat /\ (Len(p) = 0 => p = <<>>)
    BY <2>1
  <2> QED BY <2>1, <2>2
<1>2. \A q \in P : Len(q) = 1 => q \in L
  <2> SUFFICES ASSUME NEW q \in P, Len(q) = 1 PROVE q \in L
    OBVIOUS
  <2>1. PICK p : Len(q) = Len(p) + 1 /\ Len(p) \in Nat /\ (Len(p) = 0 => p = <<>>) /\ (p = <<>> => q \in L)
    BY <1>1
  <2>2. Len(p) = 0
    BY <2>1
  <2> QED BY <2>1, <2>2
<1>3. ASSUME NEW k \in {2, 3}, \A q \in P : Len(q) = k - 1 => q \in L
      PROVE  \A q \in P : Len(q) = k => q \in L
  <2> SUFFICES ASSUME NEW q \in P, Len(q) = k PROVE q \in L
    OBVIOUS
  <2>1. PICK p : /\ Len(q) = Len(p) + 1 /\ Len(p) \in Nat
                 /\ p = <<>> \/ p \in P
                 /\ p = <<>> \/ p \in L => q \in L
    BY <1>1
  <2>2. Len(p) = k - 1
    BY <2>1
  <2> QED BY <1>3, <2>1, <2>2
<1>4. (\A q \in P : Len(q) = 2 => q \in L) /\ \A q \in P : Len(q) = 3 => q \in L
  <2>1. \A q \in P : Len(q) = 2 => q \in L
    BY <1>2, <1>3
  <2> QED BY <1>3, <2>1
<1> QED BY <1>2, <1>4

\* What is listed before the last page, and what is due after it.
LEMMA BaiduReads ==
  ASSUME BaiduSound, ReadPage
  PROVE  BaiduSound' /\ (state' = "ready" => reading.present \subseteq {e.id : e \in list'})
<1> USE DEF BaiduSound, Sound
<1>1. /\ state = "reading" /\ UNCHANGED <<kind, drive, root, parent, unsure, got>> /\ ReadByBaidu
      /\ kind = "baidu" /\ TreeInv /\ UniqueNames /\ unsure \in BOOLEAN
  BY DEF ReadPage, BaiduInv
<1>2. /\ TreeInv' /\ UniqueNames' /\ StandsStill /\ OldStay /\ Live' = Live
      /\ (\A n : PathOf(n)' = PathOf(n)) /\ drive' = drive
  BY <1>1, BaiduRests, Rests
<1>20. PICK above, c : above = Head(reading.stack) /\ c = NodeAt(above)
  OBVIOUS
<1>21. PICK page : page = PageOf(ChildrenOf(c), reading.start)
  OBVIOUS
<1>22. PICK paths, dirs : paths = {PathOf(n) : n \in page} /\ dirs = {PathOf(n) : n \in {m \in page : IsDir(m)}}
  OBVIOUS
<1>23. PICK found : found = reading.found \o SetToSeq(dirs)
  OBVIOUS
<1>24. PICK stack : stack = found \o Tail(reading.stack)
  OBVIOUS
<1>3. /\ above = Head(reading.stack) /\ c = NodeAt(above)
        /\ page = PageOf(ChildrenOf(c), reading.start)
        /\ paths = {PathOf(n) : n \in page}
        /\ dirs = {PathOf(n) : n \in {m \in page : IsDir(m)}}
        /\ found = reading.found \o SetToSeq(dirs)
        /\ stack = found \o Tail(reading.stack)
        /\ list' = list \cup {EntryOf(n, above) : n \in page}
        /\ fsIds' = [p \in DOMAIN fsIds \cup paths |-> IF p \in paths THEN NodeAt(p) ELSE fsIds[p]]
        /\ \/ PageIsLast(page) /\ stack = <<>> /\ reading' = <<>> /\ state' = "ready"
           \/ /\ PageIsLast(page) /\ stack # <<>> /\ state' = "reading"
              /\ reading' = [reading EXCEPT !.stack = stack, !.start = 0, !.found = <<>>]
           \/ /\ ~PageIsLast(page) /\ state' = "reading"
              /\ reading' = [reading EXCEPT !.start = @ + Cardinality(page), !.found = found]
  BY <1>20, <1>21, <1>22, <1>23, <1>24 DEF ReadPage
<1>4. /\ above \in Seq(NameOnDrive) /\ Tail(reading.stack) \in Seq(Seq(NameOnDrive))
      /\ ToSet(reading.stack) = {above} \cup ToSet(Tail(reading.stack))
  BY <1>1, <1>3, ElementsOfLonger DEF ReadByBaidu
<1>5. c \in Live \cup {Base} /\ PathOf(c) = above
  <2>1. above = <<>> \/ Stands(above, TRUE)
    BY <1>1, <1>4 DEF ReadByBaidu
  <2>2. PathOf(Base) = <<>>
    BY Paths DEF PathsStep
  <2>3. PICK d \in Live \cup {Base} : PathOf(d) = above
    BY <2>1, <2>2 DEF Stands
  <2> QED BY <1>1, <1>3, <2>3, NodeOfPath
<1>6. ChildrenOf(c) \in SUBSET Live /\ reading.start \in Nat
  BY <1>1 DEF ChildrenOf, ReadByBaidu
<1>7. /\ page \subseteq ChildrenOf(c) /\ Cardinality(page) \in Nat /\ Cardinality(page) <= Page
      /\ \A n \in ChildrenOf(c) : Place(n, ChildrenOf(c)) >= reading.start + Page => ~PageIsLast(page)
  BY <1>1, <1>3, <1>6, PageSize DEF PageIsLast
<1>8. ASSUME NEW n \in ChildrenOf(c)
      PROVE  /\ n \in Live /\ n # Base /\ drive[n].parent = c /\ Born(n)
             /\ PathOf(n) = Append(above, drive[n].name) /\ drive[n].name \in NameOnDrive
  <2>1. n \in Live /\ drive[n].parent = c
    BY DEF ChildrenOf
  <2>2. drive[n].name \in NameOnDrive /\ n # Base
    BY <1>1, <2>1, Places DEF IsThing
  <2> QED BY <1>1, <1>5, <2>1, <2>2, Paths, LiveIsBorn DEF PathsStep
<1>9. IsFiniteSet(dirs) /\ dirs \subseteq Seq(NameOnDrive)
  <2> DEFINE D == {m \in page : IsDir(m)}
             f == [n \in D |-> PathOf(n)]
  <2>1. D \in SUBSET Live
    BY <1>7, <1>8
  <2>2. IsFiniteSet(D)
    BY <2>1, LiveIsFinite, FS_Subset
  <2>3. f \in Surjection(D, dirs)
    BY <1>3 DEF Surjection
  <2>4. \A n \in D : PathOf(n) \in Seq(NameOnDrive)
    BY <1>1, <2>1, ShapesOfPaths DEF PathShapes
  <2>5. IsFiniteSet(dirs)
    BY <2>2, <2>3, FS_Surjection
  <2> QED BY <1>3, <2>4, <2>5
<1>10. /\ found \in Seq(Seq(NameOnDrive)) /\ ToSet(found) = ToSet(reading.found) \cup dirs
       /\ stack \in Seq(Seq(NameOnDrive)) /\ ToSet(stack) = ToSet(found) \cup ToSet(Tail(reading.stack))
  <2>1. SetToSeq(dirs) \in Seq(dirs) /\ ToSet(SetToSeq(dirs)) = dirs
    BY <1>9, ElementsOfSet
  <2>2. SetToSeq(dirs) \in Seq(Seq(NameOnDrive))
    BY <1>9, <2>1, SeqMonotonic
  <2>3. reading.found \in Seq(Seq(NameOnDrive))
    BY <1>1 DEF ReadByBaidu
  <2>4. PICK P, r, s, t : P = Seq(NameOnDrive) /\ r = reading.found /\ s = SetToSeq(dirs) /\ t = Tail(reading.stack)
    OBVIOUS
  <2>5. r \in Seq(P) /\ s \in Seq(P) /\ t \in Seq(P) /\ found = r \o s /\ stack = found \o t
    BY <1>3, <1>4, <2>2, <2>3, <2>4
  <2>6. found \in Seq(P) /\ stack \in Seq(P) /\ ToSet(found) = ToSet(r) \cup ToSet(s) /\ ToSet(stack) = ToSet(found) \cup ToSet(t)
    BY ONLY <2>5, ElementsOfJoined, ConcatProperties
  <2> QED BY <2>1, <2>4, <2>6, Zenon
\* What the page brings.
<1>11. ASSUME NEW n \in page, NEW e, e = EntryOf(n, above)
       PROVE  BaiduEntry(e) /\ Stands(e.id, e.dir) /\ e.id = PathOf(n)
  <2>1. /\ n \in Live /\ n # Base /\ PathOf(n) = Append(above, drive[n].name) /\ drive[n].name \in NameOnDrive
    BY <1>7, <1>8
  <2>2. e = Entry(PathOf(n), drive[n].name, above, IsDir(n))
    BY <1>1, <1>11 DEF EntryOf, IdOf
  <2>3. e.id = PathOf(n) /\ e.name = drive[n].name /\ e.parent = above /\ e.dir = IsDir(n)
        /\ e = Entry(e.id, e.name, e.parent, e.dir)
    BY <2>2 DEF Entry
  <2>4. IsDir(n) \in BOOLEAN
    BY DEF IsDir
  <2>5. EntryFields(e)
    BY <2>3, <2>4, Zenon DEF EntryFields
  <2>6. e.dir <=> drive[n].is = "dir"
    BY <2>1, <2>3, Zenon DEF IsDir
  <2>7. Stands(e.id, e.dir)
    BY <2>1, <2>3, <2>6, Zenon DEF Stands
  <2> QED BY <1>4, <2>1, <2>3, <2>5, <2>7 DEF BaiduEntry
<1>12. BaiduList'
  <2>1. \A e \in list : BaiduEntry(e) /\ (~unsure' => Stands(e.id, e.dir)')
    BY <1>1, <1>2, BaiduStays
  <2>2. \A e \in list' : e \in list \/ \E n \in page : e = EntryOf(n, above)
    BY <1>3
  <2>3. ASSUME NEW n \in page, NEW e, e = EntryOf(n, above) PROVE BaiduEntry(e) /\ Stands(e.id, e.dir)'
    BY <1>2, <1>11, <2>3 DEF StandsStill
  <2>4. \A e : BaiduEntry(e)' <=> BaiduEntry(e)
    BY DEF BaiduEntry, EntryFields
  <2> QED BY <2>1, <2>2, <2>3, <2>4 DEF BaiduList
<1>13. BaiduNumbers'
  <2>1. \A p \in DOMAIN fsIds : \E n : n = fsIds[p] /\ Knows(n, p)'
    BY <1>1, <1>2, BaiduStays
  <2>2. ASSUME NEW p \in paths PROVE \E n : n = NodeAt(p) /\ Knows(n, p)'
    <3>1. PICK n \in page : p = PathOf(n)
      BY <1>3
    <3>2. n \in Live /\ Born(n) /\ NodeAt(PathOf(n)) = n
      BY <1>1, <1>7, <1>8, NodeOfPath
    <3>3. Knows(n, p)
      BY <3>1, <3>2 DEF Knows
    <3> QED BY <1>1, <1>2, <3>1, <3>2, <3>3, BaiduStays
  <2>3. DOMAIN fsIds' = DOMAIN fsIds \cup paths
        /\ \A p \in DOMAIN fsIds \cup paths : fsIds'[p] = IF p \in paths THEN NodeAt(p) ELSE fsIds[p]
    BY <1>3
  <2> QED BY <2>1, <2>2, <2>3 DEF BaiduNumbers
\* What is not listed then is in a directory that is still to be read.
<1>14. ASSUME NEW p \in Seq(NameOnDrive), NEW x \in NameOnDrive, Append(p, x) \in reading.present,
              p = <<>> \/ p \in Listed'
       PROVE  \/ Append(p, x) \in Listed'
              \/ p \in ToSet(stack)
              \/ p = above /\ Rank(p, x) \in Nat /\ Rank(p, x) >= reading.start + Page /\ ~PageIsLast(page)
  <2>1. Found(p, x)
    BY <1>1 DEF ReadByBaidu
  <2>2. PICK n \in Live : PathOf(n) = Append(p, x)
    BY <1>14, <2>1 DEF Found, Stands
  <2>3. PICK d \in Live \cup {Base} : /\ drive[n].parent = d /\ PathOf(n) = Append(PathOf(d), drive[n].name)
                                      /\ PathOf(d) \in Seq(NameOnDrive) /\ drive[n].name \in NameOnDrive
    BY <1>1, PathAndParent
  <2>4. PathOf(d) = p /\ drive[n].name = x
    <3>1. PICK q, z : q = PathOf(d) /\ z = drive[n].name
      OBVIOUS
    <3>2. q \in Seq(NameOnDrive) /\ z \in NameOnDrive /\ Append(p, x) = Append(q, z)
      BY <2>2, <2>3, <3>1
    <3> QED BY ONLY p \in Seq(NameOnDrive), x \in NameOnDrive, <3>1, <3>2, SameNamed
  <2>5. \A m \in page : PathOf(m) \in Listed'
    <3>1. \A m \in page : EntryOf(m, above) \in list'
      BY <1>3
    <3> QED BY <1>11, <3>1 DEF Listed
  <2>6. CASE p = <<>> \/ p \in Listed
    <3>1. Append(p, x) \in Listed \/ Due(p, x)
      BY <1>14, <2>1, <2>6 DEF Found
    <3>2. CASE Append(p, x) \in Listed
      BY <1>3, <3>2 DEF Listed
    <3>3. CASE p = above /\ Rank(p, x) >= reading.start
      <4>1. d = c /\ n \in ChildrenOf(c)
        BY <1>1, <1>5, <2>3, <2>4, <3>3, OnePath DEF ChildrenOf
      <4>2. Place(n, ChildrenOf(c)) = Rank(p, x)
        BY <1>1, <1>5, <2>4, <3>3, <4>1, PlaceIsRank
      <4>3. Rank(p, x) \in Nat
        BY <1>1, NamesAreFinite
      <4>4. CASE Rank(p, x) >= reading.start + Page
        BY <1>7, <3>3, <4>1, <4>2, <4>3, <4>4
      <4>5. CASE ~(Rank(p, x) >= reading.start + Page)
        <5>1. n \in page
          BY <1>3, <1>6, <3>3, <4>1, <4>2, <4>3, <4>5, BoundAssumption DEF PageOf
        <5> QED BY <2>2, <2>5, <5>1
      <4> QED BY <4>4, <4>5
    <3>4. CASE p \in ToSet(reading.found) \cup ToSet(Tail(reading.stack))
      BY <1>10, <3>4
    <3> QED BY <1>3, <3>1, <3>2, <3>3, <3>4 DEF Due
  <2>7. CASE p # <<>> /\ p \notin Listed
    <3>1. PICK m \in page : p = PathOf(m)
      BY <1>3, <1>11, <1>14, <2>7 DEF Listed
    <3>2. m \in Live /\ m # Base
      BY <1>7, <1>8
    <3>3. d = m
      BY <1>1, <2>4, <3>1, <3>2, OnePath
    <3>4. IsDir(m)
      BY <1>1, <2>3, <3>2, <3>3, Places DEF IsTop, IsDir
    <3> QED BY <1>3, <1>10, <3>1, <3>4
  <2> QED BY <2>6, <2>7
<1>15. BaiduPlaces' /\ DownloadFetchesListed' /\ unsure' \in BOOLEAN /\ kind' = "baidu"
  BY <1>1 DEF BaiduInv, BaiduPlaces, DownloadFetchesListed
<1>16. /\ \A p : Stands(p, TRUE) => Stands(p, TRUE)'
       /\ \A p \in ToSet(stack) : p = <<>> \/ Stands(p, TRUE)'
  <2>1. \A p : Stands(p, TRUE) => Stands(p, TRUE)'
    BY <1>2 DEF StandsStill
  <2>2. ASSUME NEW p \in dirs PROVE Stands(p, TRUE)
    <3>1. PICK n \in page : IsDir(n) /\ p = PathOf(n)
      BY <1>3
    <3>2. n \in Live /\ n # Base
      BY <1>7, <1>8
    <3> QED BY <3>1, <3>2 DEF IsDir, Stands
  <2>3. ASSUME NEW p \in ToSet(stack) PROVE p = <<>> \/ Stands(p, TRUE)
    <3>1. p \in dirs \/ p \in ToSet(reading.stack) \cup ToSet(reading.found)
      BY <1>4, <1>10
    <3> QED BY <1>1, <2>2, <3>1 DEF ReadByBaidu
  <2> QED BY <2>1, <2>3
<1>17. ASSUME state' = "reading" PROVE ReadByBaidu'
  <2>1. PICK s, k, f : /\ reading'.stack = s /\ reading'.start = k /\ reading'.found = f
                       /\ reading' = [stack |-> s, start |-> k, found |-> f, present |-> reading.present]
                       /\ \/ PageIsLast(page) /\ s = stack /\ stack # <<>> /\ k = 0 /\ f = <<>>
                          \/ ~PageIsLast(page) /\ s = reading.stack /\ k = reading.start + Page /\ f = found
    <3>1. CASE PageIsLast(page)
      <4>1. /\ stack # <<>> /\ reading' = [reading EXCEPT !.stack = stack, !.start = 0, !.found = <<>>]
        BY <1>3, <1>17, <3>1
      <4>2. reading' = [stack |-> stack, start |-> 0, found |-> <<>>, present |-> reading.present]
        BY <1>1, <4>1 DEF ReadByBaidu
      <4> QED BY <3>1, <4>1, <4>2
    <3>2. CASE ~PageIsLast(page)
      <4>1. reading' = [reading EXCEPT !.start = @ + Cardinality(page), !.found = found]
        BY <1>3, <3>2
      <4>2. Cardinality(page) = Page
        BY <1>7, <3>2, BoundAssumption DEF PageIsLast
      <4>3. reading' = [stack |-> reading.stack, start |-> reading.start + Page, found |-> found, present |-> reading.present]
        BY <1>1, <4>1, <4>2 DEF ReadByBaidu
      <4> QED BY <3>2, <4>3
    <3> QED BY <3>1, <3>2
  <2>2. /\ k \in Nat /\ s \in Seq(Seq(NameOnDrive)) /\ s # <<>> /\ f \in Seq(Seq(NameOnDrive))
    <3>1. reading.stack \in Seq(Seq(NameOnDrive)) /\ reading.stack # <<>>
      BY <1>1 DEF ReadByBaidu
    <3>2. <<>> \in Seq(Seq(NameOnDrive))
      OBVIOUS
    <3>3. CASE PageIsLast(page)
      BY <1>10, <2>1, <3>2, <3>3
    <3>4. CASE ~PageIsLast(page)
      <4>1. s = reading.stack /\ k = reading.start + Page /\ f = found
        BY <2>1, <3>4
      <4> QED BY <1>6, <1>10, <3>1, <4>1, BoundAssumption
    <3> QED BY <3>3, <3>4
  <2>3. ToSet(s) \cup ToSet(f) \subseteq ToSet(stack) \cup ToSet(reading.stack)
    <3>1. ToSet(<<>>) = {}
      BY DEF ToSet
    <3> QED BY <1>10, <2>1, <3>1
  <2>4. \A p \in ToSet(s) \cup ToSet(f) : p = <<>> \/ Stands(p, TRUE)'
    <3>1. \A p \in ToSet(reading.stack) : p = <<>> \/ Stands(p, TRUE)'
      BY <1>1, <1>16 DEF ReadByBaidu
    <3> QED BY <1>16, <2>3, <3>1
  <2>5. ToSet(s) = {Head(s)} \cup ToSet(Tail(s))
    BY <2>2, ElementsOfLonger
  <2>6. ASSUME NEW p \in Seq(NameOnDrive), NEW x \in NameOnDrive PROVE Found(p, x)'
    <3> SUFFICES ASSUME Append(p, x) \in reading.present PROVE Found(p, x)'
      BY <2>1 DEF Found
    <3>1. Found(p, x)
      BY <1>1 DEF ReadByBaidu
    <3>2. \E dir \in BOOLEAN : Stands(Append(p, x), dir)'
      BY <1>2, <3>1 DEF Found, StandsStill
    <3>3. p = <<>> \/ p \in reading.present
      BY <3>1 DEF Found
    <3>4. Rank(p, x)' = Rank(p, x)
      <4>1. NamesBefore(p, x)' = NamesBefore(p, x)
        BY <1>2 DEF NamesBefore
      <4> QED BY <4>1 DEF Rank
    <3>5. ASSUME p = <<>> \/ p \in Listed' PROVE Append(p, x) \in Listed' \/ Due(p, x)'
      <4>1. Due(p, x)' <=> \/ p = Head(s) /\ Rank(p, x) >= k
                           \/ p \in ToSet(f) \cup ToSet(Tail(s))
        BY <2>1, <3>4 DEF Due
      <4>2. Rank(p, x) \in Nat
        BY <1>1, NamesAreFinite
      <4>3. CASE PageIsLast(page)
        <5>1. Append(p, x) \in Listed' \/ p \in ToSet(stack)
          BY <1>14, <3>5, <4>3
        <5> QED BY <2>1, <2>5, <4>1, <4>2, <4>3, <5>1
      <4>4. CASE ~PageIsLast(page)
        <5>1. \/ Append(p, x) \in Listed' \/ p \in ToSet(stack)
              \/ p = above /\ Rank(p, x) >= reading.start + Page
          BY <1>14, <3>5
        <5>2. s = reading.stack /\ k = reading.start + Page /\ f = found /\ Head(s) = above
          BY <1>3, <2>1, <4>4
        <5>3. ToSet(stack) = ToSet(f) \cup ToSet(Tail(s))
          BY <1>10, <5>2
        <5> QED BY <4>1, <5>1, <5>2, <5>3
      <4> QED BY <4>3, <4>4
    <3> QED BY <2>1, <3>2, <3>3, <3>5 DEF Found
  <2>7. \A q \in reading.present : \E p \in Seq(NameOnDrive), x \in NameOnDrive : q = Append(p, x)
    BY <1>1 DEF ReadByBaidu
  <2>8. /\ reading' = [stack |-> reading'.stack, start |-> reading'.start, found |-> reading'.found,
                        present |-> reading'.present]
        /\ reading'.present = reading.present /\ reading'.stack = s /\ reading'.start = k /\ reading'.found = f
    BY <2>1
  <2> QED BY ONLY <2>2, <2>4, <2>6, <2>7, <2>8 DEF ReadByBaidu
<1>18. ASSUME state' = "ready" PROVE reading.present \subseteq {e.id : e \in list'}
  <2>1. PageIsLast(page) /\ stack = <<>>
    BY <1>3, <1>18
  <2>2. ToSet(stack) = {}
    BY <2>1 DEF ToSet
  <2>3. \A p \in Seq(NameOnDrive), x \in NameOnDrive :
           Append(p, x) \in reading.present /\ (p = <<>> \/ p \in Listed') => Append(p, x) \in Listed'
    BY <1>14, <2>1, <2>2
  <2>4. ASSUME NEW q \in reading.present
        PROVE  /\ Len(q) = 1 \/ Len(q) = 2 \/ Len(q) = 3
               /\ \E p \in Seq(NameOnDrive), x \in NameOnDrive :
                    q = Append(p, x) /\ (p = <<>> \/ p \in reading.present) /\ (p = <<>> \/ p \in Listed' => q \in Listed')
    <3>1. PICK p \in Seq(NameOnDrive), x \in NameOnDrive : q = Append(p, x)
      BY <1>1 DEF ReadByBaidu
    <3>2. Found(p, x)
      BY <1>1 DEF ReadByBaidu
    <3>3. PICK n \in Live : PathOf(n) = q
      BY <3>1, <3>2 DEF Found, Stands
    <3>4. Len(q) = 1 \/ Len(q) = 2 \/ Len(q) = 3
      <4>1. Len(PathOf(n)) = 1 \/ Len(PathOf(n)) = 2 \/ Len(PathOf(n)) = 3
        BY <1>1, ShapesOfPaths DEF PathShapes, IsLow
      <4> QED BY ONLY <3>3, <4>1
    <3>5. p = <<>> \/ p \in reading.present
      BY <3>1, <3>2 DEF Found
    <3> QED BY <2>3, <3>1, <3>4, <3>5
  <2>5. PICK P, L : P = reading.present /\ L = Listed'
    OBVIOUS
  <2>6. P \subseteq L
    BY ONLY <2>4, <2>5, AllReached
  <2> QED BY <2>5, <2>6 DEF Listed
<1> QED BY <1>2, <1>12, <1>13, <1>15, <1>17, <1>18 DEF BaiduInv

\* Operations that list what stands somewhere, and remember its number.
LEMMA BaiduKeeps ==
  ASSUME BaiduSound, TreeInv', UniqueNames', StandsStill, OldStay, unsure' \in {unsure, TRUE},
         kind' = kind, root' = root, parent' = parent, got' = <<>>, state' = "ready",
         \A e \in list' : e \in list \/ (BaiduEntry(e) /\ Stands(e.id, e.dir)'),
         \/ fsIds' = fsIds
         \/ \E path : fsIds' = Erased(path)
         \/ \E path, n : fsIds' = Remembered(path, n) /\ Knows(n, path)'
  PROVE  BaiduSound'
<1>1. /\ \A e \in list : BaiduEntry(e) /\ (~unsure' => Stands(e.id, e.dir)')
      /\ \A p \in DOMAIN fsIds : \E n : n = fsIds[p] /\ Knows(n, p)'
  BY BaiduStays
<1>2. BaiduPlaces'
  BY DEF BaiduSound, BaiduInv, BaiduPlaces
<1>3. BaiduList'
  <2>1. \A e : BaiduEntry(e)' <=> BaiduEntry(e)
    BY DEF BaiduEntry, EntryFields
  <2> QED BY <1>1, <2>1 DEF BaiduList
<1>4. BaiduNumbers'
  <2>1. CASE fsIds' = fsIds
    BY <1>1, <2>1 DEF BaiduNumbers
  <2>2. CASE \E path : fsIds' = Erased(path)
    <3>1. PICK path : fsIds' = [p \in DOMAIN fsIds \ {path} |-> fsIds[p]]
      BY <2>2 DEF Erased
    <3> QED BY <1>1, <3>1 DEF BaiduNumbers
  <2>3. CASE \E path, n : fsIds' = Remembered(path, n) /\ Knows(n, path)'
    <3>1. PICK path, n : fsIds' = [p \in DOMAIN fsIds \cup {path} |-> IF p = path THEN n ELSE fsIds[p]] /\ Knows(n, path)'
      BY <2>3 DEF Remembered
    <3> QED BY <1>1, <3>1 DEF BaiduNumbers
  <2> QED BY <2>1, <2>2, <2>3
<1>5. DownloadFetchesListed'
  BY DEF DownloadFetchesListed
<1>6. unsure' \in BOOLEAN
  BY DEF BaiduSound, Sound
<1> QED BY <1>2, <1>3, <1>4, <1>5, <1>6 DEF BaiduSound, Sound, BaiduInv

\* Menus open and close, a connection starts or ends, a file is downloaded.
LEMMA BaiduBrowses ==
  ASSUME BaiduSound,
         OpenDirectory \/ ReturnToRoot \/ ConnectionFails \/ Restart \/ BaiduConnects \/ BaiduDownloads \/ UNCHANGED vars
  PROVE  BaiduSound'
<1> USE DEF BaiduSound, Sound
<1>1. UNCHANGED <<kind, drive>>
  BY DEF OpenDirectory, ReturnToRoot, ConnectionFails, Restart, BaiduConnects, BaiduDownloads, Operation, vars
<1>2. /\ TreeInv' /\ UniqueNames' /\ StandsStill /\ OldStay /\ Live' = Live
      /\ (\A n : PathOf(n)' = PathOf(n)) /\ drive' = drive
  BY <1>1, BaiduRests, Rests DEF BaiduInv
<1>3. root = <<>> /\ PathOf(Base) = <<>> /\ PathOf(Base)' = <<>>
  BY <1>2, Paths DEF PathsStep, BaiduInv, BaiduPlaces
<1>4. unsure' \in {unsure, FALSE} /\ (unsure' # unsure => Restart)
  BY DEF OpenDirectory, ReturnToRoot, ConnectionFails, Restart, BaiduConnects, BaiduDownloads, Operation, vars
<1>5. CASE Restart
  <2>1. state' = "off" /\ list' = {} /\ fsIds' = <<>> /\ got' = <<>> /\ unsure' = FALSE
        /\ root' = IdOf(Base)' /\ parent' = IdOf(Base)'
    BY <1>1, <1>2, <1>5 DEF Restart, IdOf
  <2>2. IdOf(Base)' = <<>>
    BY <1>1, <1>3 DEF IdOf
  <2>3. BaiduPlaces' /\ BaiduList' /\ DownloadFetchesListed'
    BY <2>1, <2>2 DEF BaiduPlaces, BaiduList, DownloadFetchesListed
  <2>4. BaiduNumbers'
    BY <2>1 DEF BaiduNumbers
  <2> QED BY <1>1, <1>2, <2>1, <2>3, <2>4 DEF BaiduInv
<1>6. CASE BaiduConnects
  <2>1. /\ state' = "reading" /\ list' = {} /\ fsIds' = <<>> /\ parent' = <<>> /\ root' = <<>>
        /\ UNCHANGED <<unsure, got>>
        /\ reading' = [stack |-> <<root>>, start |-> 0, found |-> <<>>, present |-> {PathOf(n) : n \in Live}]
    BY <1>3, <1>6 DEF BaiduConnects
  <2>2. BaiduPlaces' /\ BaiduList' /\ DownloadFetchesListed'
    BY <2>1 DEF BaiduPlaces, BaiduList, DownloadFetchesListed
  <2>3. BaiduNumbers'
    BY <2>1 DEF BaiduNumbers
  <2>4. ReadByBaidu'
    <3>1. PICK s, P : s = <<root>> /\ P = {PathOf(n) : n \in Live}
      OBVIOUS
    <3>2. /\ reading' = [stack |-> s, start |-> 0, found |-> <<>>, present |-> P]
          /\ reading'.stack = s /\ reading'.start = 0 /\ reading'.found = <<>> /\ reading'.present = P
      BY <2>1, <3>1
    <3>3. <<>> \in Seq(NameOnDrive) /\ <<>> \in Seq(Seq(NameOnDrive))
      OBVIOUS
    <3>4. s \in Seq(Seq(NameOnDrive)) /\ s # <<>> /\ ToSet(s) = {<<>>} /\ Head(s) = <<>>
      <4>1. s = <<root>> /\ root \in Seq(NameOnDrive)
        BY <1>3, <3>1, <3>3
      <4> QED BY <1>3, <4>1, ElementsOfOne
    <3>5. ToSet(<<>>) = {}
      BY DEF ToSet
    <3>6. ASSUME NEW p \in Seq(NameOnDrive), NEW x \in NameOnDrive PROVE Found(p, x)'
      <4> SUFFICES ASSUME Append(p, x) \in P PROVE Found(p, x)'
        BY <3>2 DEF Found
      <4>1. PICK n \in Live : PathOf(n) = Append(p, x)
        BY <3>1
      <4>2. Stands(Append(p, x), TRUE) \/ Stands(Append(p, x), FALSE)
        BY <4>1 DEF Stands
      <4>3. \E dir \in BOOLEAN : Stands(Append(p, x), dir)'
        BY <1>2, <4>2 DEF StandsStill
      <4>4. PICK d \in Live \cup {Base} : /\ drive[n].parent = d /\ PathOf(n) = Append(PathOf(d), drive[n].name)
                                          /\ PathOf(d) \in Seq(NameOnDrive) /\ drive[n].name \in NameOnDrive
        BY PathAndParent
      <4>5. PathOf(d) = p
        <5>1. PICK q, z : q = PathOf(d) /\ z = drive[n].name
          OBVIOUS
        <5>2. q \in Seq(NameOnDrive) /\ z \in NameOnDrive /\ Append(p, x) = Append(q, z)
          BY <4>1, <4>4, <5>1
        <5> QED BY ONLY p \in Seq(NameOnDrive), x \in NameOnDrive, <5>1, <5>2, SameNamed
      <4>6. p = <<>> \/ p \in P
        BY <1>3, <3>1, <4>5
      <4>7. p \notin Listed'
        BY <2>1 DEF Listed
      <4>8. p = <<>> => Due(p, x)'
        <5>1. Rank(p, x)' \in Nat
          BY <1>2, NamesNext
        <5> QED BY <3>2, <3>4, <5>1 DEF Due
      <4> QED BY <3>2, <4>3, <4>6, <4>7, <4>8 DEF Found
    <3>7. \A q \in P : \E p \in Seq(NameOnDrive), x \in NameOnDrive : q = Append(p, x)
      <4> SUFFICES ASSUME NEW n \in Live PROVE \E p \in Seq(NameOnDrive), x \in NameOnDrive : PathOf(n) = Append(p, x)
        BY <3>1
      <4> QED BY PathAndParent
    <3> QED BY ONLY <3>2, <3>3, <3>4, <3>5, <3>6, <3>7 DEF ReadByBaidu
  <2> QED BY <1>1, <1>2, <2>1, <2>2, <2>3, <2>4 DEF BaiduInv
<1>7. CASE OpenDirectory \/ ReturnToRoot \/ ConnectionFails \/ BaiduDownloads \/ UNCHANGED vars
  <2>1. UNCHANGED <<list, root, unsure>>
    BY <1>7 DEF OpenDirectory, ReturnToRoot, ConnectionFails, BaiduDownloads, Operation, vars, connection
  <2>2. /\ \A e \in list : BaiduEntry(e) /\ (~unsure' => Stands(e.id, e.dir)')
        /\ \A n, p : Knows(n, p) => Knows(n, p)'
        /\ \A p \in DOMAIN fsIds : \E n : n = fsIds[p] /\ Knows(n, p)'
    BY <1>2, <2>1, BaiduStays
  <2>3. BaiduList'
    <3>1. \A e : BaiduEntry(e)' <=> BaiduEntry(e)
      BY DEF BaiduEntry, EntryFields
    <3> QED BY <2>1, <2>2, <3>1 DEF BaiduList
  <2>4. BaiduPlaces'
    <3>1. CASE OpenDirectory
      <4>1. PICK e \in list : e.parent = parent /\ parent' = e.id /\ parent = <<>>
        BY <1>3, <3>1 DEF OpenDirectory, Listing
      <4>2. e.name \in NameOnDrive /\ parent' = Append(<<>>, e.name)
        BY <4>1 DEF BaiduInv, BaiduList, BaiduEntry
      <4>3. Append(<<>>, e.name) = <<e.name>>
        OBVIOUS
      <4> QED BY <1>3, <2>1, <4>2, <4>3 DEF BaiduPlaces
    <3>2. CASE ReturnToRoot
      BY <1>3, <2>1, <3>2 DEF ReturnToRoot, BaiduPlaces
    <3>3. CASE ConnectionFails \/ BaiduDownloads \/ UNCHANGED vars
      BY <2>1, <3>3 DEF ConnectionFails, BaiduDownloads, vars, connection, BaiduInv, BaiduPlaces
    <3> QED BY <1>7, <3>1, <3>2, <3>3
  <2>5. CASE BaiduDownloads
    <3>1. PICK e, n :
            /\ e \in list
            /\ n \in NumberOf(e.id) /\ n \in Live /\ fsIds' = Remembered(e.id, n)
            /\ got' = [asked |-> e.id, was |-> PathOf(n)]
      BY <2>5 DEF BaiduDownloads, Listing
    <3> e \in list
      BY <3>1
    <3>2. Knows(n, e.id)
      <4>1. CASE e.id \in DOMAIN fsIds
        BY <3>1, <4>1 DEF BaiduInv, BaiduNumbers, NumberOf
      <4>2. CASE e.id \notin DOMAIN fsIds
        <5>1. BaiduEntry(e) /\ e.id \in Seq(NameOnDrive)
          BY DEF BaiduInv, BaiduList, BaiduEntry
        <5>2. PathOf(n) = e.id
          BY <3>1, <4>2, <5>1, NoEmptyNames DEF NumberOf, Reaches
        <5> QED BY <3>1, <5>2, LiveIsBorn DEF Knows
      <4> QED BY <4>1, <4>2
    <3>3. DownloadFetchesListed'
      BY <2>1, <3>1, <3>2 DEF Knows, DownloadFetchesListed
    <3>4. BaiduNumbers'
      <4>1. Knows(n, e.id)'
        BY <2>2, <3>2
      <4>2. fsIds' = [p \in DOMAIN fsIds \cup {e.id} |-> IF p = e.id THEN n ELSE fsIds[p]]
        BY <3>1 DEF Remembered
      <4> QED BY <2>2, <4>1, <4>2 DEF BaiduNumbers
    <3>5. state' = "ready"
      BY <2>5 DEF BaiduDownloads, Operation
    <3> QED BY <1>1, <1>2, <2>1, <2>3, <2>4, <3>3, <3>4, <3>5 DEF BaiduInv
  <2>6. CASE OpenDirectory \/ ReturnToRoot \/ ConnectionFails \/ UNCHANGED vars
    <3>1. fsIds' = fsIds /\ got' \in {got, <<>>} /\ (state' = "reading" => UNCHANGED vars /\ state = "reading")
      BY <2>6 DEF OpenDirectory, ReturnToRoot, ConnectionFails, Operation, vars, connection
    <3>2. BaiduNumbers'
      BY <2>2, <3>1 DEF BaiduNumbers
    <3>3. DownloadFetchesListed'
      BY <2>1, <3>1, DownloadStays
    <3>4. state' = "reading" => ReadByBaidu'
      BY <1>2, <3>1, ReadStays DEF vars, connection, BaiduInv
    <3> QED BY <1>1, <1>2, <2>1, <2>3, <2>4, <3>2, <3>3, <3>4 DEF BaiduInv
  <2> QED BY <1>7, <2>5, <2>6
<1> QED BY <1>5, <1>6, <1>7

\* The base directory, and what is in a title.
LEMMA BaiduPaths ==
  ASSUME BaiduSound
  PROVE  /\ TreeInv /\ UniqueNames /\ unsure \in BOOLEAN /\ kind = "baidu" /\ root = <<>>
         /\ PathOf(Base) = <<>> /\ NodeAt(<<>>) = Base
         /\ parent # root => \A d \in Reaches(parent) : d \in Live /\ IsTop(d) /\ drive[d].is = "dir" /\ PathOf(d) = parent
         /\ \A e \in list : BaiduEntry(e) /\ \A n \in Reaches(e.id) : n \in Live /\ PathOf(n) = e.id
<1>1. TreeInv /\ UniqueNames /\ unsure \in BOOLEAN /\ kind = "baidu" /\ root = <<>>
  BY DEF BaiduSound, Sound, BaiduInv, BaiduPlaces
<1>2. PathOf(Base) = <<>> /\ Len(PathOf(Base)) = 0
  BY <1>1, Paths DEF PathsStep
<1>3. NodeAt(<<>>) = Base
  BY <1>1, <1>2, NodeOfPath
<1>4. \A p \in Seq(NameOnDrive) : \A n \in Reaches(p) : n \in Live \cup {Base} /\ PathOf(n) = p
  BY <1>1, NoEmptyNames DEF Reaches
<1>5. ASSUME parent # root, NEW d \in Reaches(parent)
      PROVE  d \in Live /\ IsTop(d) /\ drive[d].is = "dir" /\ PathOf(d) = parent
  <2>1. PICK x \in NameOnDrive : parent = <<x>>
    BY <1>1, <1>5 DEF BaiduSound, BaiduInv, BaiduPlaces
  <2>2. parent \in Seq(NameOnDrive) /\ Len(parent) = 1
    BY <2>1
  <2>3. d \in Live /\ PathOf(d) = parent /\ Len(PathOf(d)) = 1
    BY <1>2, <1>4, <1>5, <2>2
  <2>4. IsTop(d)
    <3>1. (IsMid(d) => Len(PathOf(d)) = 2) /\ (IsLow(d) => Len(PathOf(d)) = 3)
      BY <1>1, <2>3, ShapesOfPaths DEF PathShapes
    <3> QED BY <2>3, <3>1 DEF IsLow
  <2> QED BY <1>1, <2>3, <2>4, Places
<1>6. ASSUME NEW e \in list PROVE BaiduEntry(e) /\ \A n \in Reaches(e.id) : n \in Live /\ PathOf(n) = e.id
  <2>1. BaiduEntry(e)
    BY DEF BaiduSound, BaiduInv, BaiduList
  <2>2. PICK p \in Seq(NameOnDrive), x \in NameOnDrive : e.id = Append(p, x)
    BY <2>1 DEF BaiduEntry
  <2>3. e.id \in Seq(NameOnDrive) /\ Len(e.id) # 0
    BY <2>2
  <2> QED BY <1>2, <1>4, <2>1, <2>3
<1> QED BY <1>1, <1>2, <1>3, <1>5, <1>6

\* The item that is listed for what stands in the opened directory.
LEMMA BaiduItem ==
  ASSUME BaiduSound, NEW name \in Name, NEW dir \in BOOLEAN, NEW e, e = Entry(Joined(parent, name), name, parent, dir)
  PROVE  BaiduEntry(e) /\ e.id = Append(parent, name) /\ e.dir = dir /\ name \in NameOnDrive
<1>1. name \in NameOnDrive
  BY DEF NameOnDrive
<1>2. parent \in Seq(NameOnDrive)
  <2>1. <<>> \in Seq(NameOnDrive) /\ \A x \in NameOnDrive : <<x>> \in Seq(NameOnDrive)
    OBVIOUS
  <2> QED BY <2>1 DEF BaiduSound, BaiduInv, BaiduPlaces
<1>3. e.id = Append(parent, name) /\ e.name = name /\ e.parent = parent /\ e.dir = dir
      /\ e = Entry(e.id, e.name, e.parent, e.dir)
  BY DEF Entry, Joined
<1> QED BY <1>1, <1>2, <1>3 DEF BaiduEntry, EntryFields

\* A title's directory is made in the root, whether or not it was there.
LEMMA BaiduCreateSound ==
  ASSUME BaiduSound, BaiduCreates
  PROVE  BaiduSound'
<1>1. /\ state' = "ready" /\ UNCHANGED <<kind, root, parent>> /\ got' = <<>> /\ parent = <<>> /\ TreeInv /\ UniqueNames
      /\ NodeAt(parent) = Base /\ PathOf(Base) = <<>>
  BY BaiduPaths DEF BaiduCreates, Changes, Operation
<1>2. PICK name \in Name : CreatesPath(Joined(parent, name), name)
  BY DEF BaiduCreates
<1>3. PICK path, e : path = Joined(parent, name) /\ e = Entry(path, name, parent, TRUE)
  OBVIOUS
<1>4. BaiduEntry(e) /\ e.id = path /\ e.dir = TRUE /\ path = Append(<<>>, name) /\ name \in NameOnDrive
  <2>1. e = Entry(Joined(parent, name), name, parent, TRUE) /\ path = Append(parent, name)
    BY <1>3 DEF Joined
  <2>2. BaiduEntry(e) /\ e.id = Append(parent, name) /\ e.dir = TRUE /\ name \in NameOnDrive
    BY <2>1, BaiduItem, Zenon
  <2> QED BY <1>1, <2>1, <2>2
<1>5. CASE \E n \in Fresh :
             /\ Named(Base, name) = {} /\ drive' = [drive EXCEPT ![n] = Thing("dir", name, Base)]
             /\ ListsDirectory(path, name, n) \/ AnswerLost
  <2>1. PICK n \in Fresh :
             /\ Named(Base, name) = {} /\ drive' = [drive EXCEPT ![n] = Thing("dir", name, Base)]
             /\ ListsDirectory(path, name, n) \/ AnswerLost
    BY <1>5
  <2>5. /\ TreeInv' /\ UniqueNames' /\ StandsStill /\ OldStay
        /\ Born(n)' /\ n \in Live' /\ PathOf(n)' = Append(PathOf(Base), name) /\ drive'[n].is = "dir"
    BY ONLY BoundAssumption, NameAssumption, n \in Fresh, <1>1, <1>4, <2>1, BaiduAdds
  <2>2. /\ TreeInv' /\ UniqueNames' /\ StandsStill /\ OldStay
        /\ Born(n)' /\ n \in Live' /\ PathOf(n)' = path /\ drive'[n].is = "dir"
    BY <1>1, <1>4, <2>5
  <2>3. Stands(e.id, e.dir)' /\ Knows(n, path)'
    BY <1>4, <2>2 DEF Stands, Knows
  <2>4. /\ unsure' \in {unsure, TRUE} /\ \A o \in list' : o \in list \/ o = e
        /\ fsIds' = fsIds \/ fsIds' = Remembered(path, n)
    BY <1>3, <2>1 DEF ListsDirectory, WithItem, Answered, AnswerLost
  <2> QED BY <1>1, <1>4, <2>2, <2>3, <2>4, BaiduKeeps
<1>6. CASE UNCHANGED drive /\ \E n \in Named(Base, name) : IsDir(n) /\ ListsDirectory(path, name, n)
  <2>1. PICK n \in Named(Base, name) : IsDir(n) /\ ListsDirectory(path, name, n)
    BY <1>6
  <2>2. TreeInv' /\ UniqueNames' /\ StandsStill /\ OldStay
    BY <1>1, <1>6, BaiduRests
  <2>3. n \in Live /\ n # Base /\ drive[n].is = "dir" /\ drive[n].parent = Base /\ drive[n].name = name
    BY <1>1, <2>1, Places DEF Named, ChildrenOf, IsDir
  <2>4. PathOf(n) = path
    BY <1>1, <1>4, <2>3, Paths DEF PathsStep
  <2>5. Stands(e.id, e.dir)' /\ Knows(n, path)'
    <3>1. Stands(e.id, e.dir) /\ Knows(n, path)
      BY <1>4, <2>3, <2>4, LiveIsBorn DEF Stands, Knows
    <3>2. unsure' = unsure
      BY <2>1 DEF ListsDirectory, Answered
    <3> QED BY <2>2, <3>1, <3>2, BaiduStays DEF StandsStill
  <2>6. /\ unsure' = unsure /\ \A o \in list' : o \in list \/ o = e
        /\ fsIds' = Remembered(path, n)
    BY <1>3, <2>1 DEF ListsDirectory, WithItem, Answered
  <2> QED BY <1>1, <1>4, <2>2, <2>5, <2>6, BaiduKeeps
<1> QED BY <1>1, <1>2, <1>3, <1>5, <1>6 DEF CreatesPath

\* A backup is uploaded to the directory of a title: item, number and file agree,
\* whether the answer brought the number or not.
LEMMA BaiduUploadSound ==
  ASSUME BaiduSound, BaiduUploads
  PROVE  BaiduSound'
<1>1. /\ state' = "ready" /\ UNCHANGED <<kind, root, parent>> /\ got' = <<>> /\ parent # root /\ TreeInv /\ UniqueNames
  BY BaiduPaths DEF BaiduUploads, Changes, Operation
<1>2. PICK name, n, d, path :
        /\ name \in Name /\ n \in Fresh /\ d \in Reaches(parent)
        /\ path = Joined(parent, name) /\ Named(d, name) = {}
        /\ UploadFileInternal([drive EXCEPT ![n] = Thing("file", name, d)],
                   {Remembered(path, n), fsIds}, WithItem(path, name, FALSE))
  BY DEF BaiduUploads
<1> name \in Name /\ n \in Fresh /\ d \in Reaches(parent)
  BY <1>2
<1>3. PICK e : e = Entry(path, name, parent, FALSE)
  OBVIOUS
<1>4. BaiduEntry(e) /\ e.id = path /\ e.dir = FALSE /\ path = Append(parent, name) /\ name \in NameOnDrive
  <2>1. e = Entry(Joined(parent, name), name, parent, FALSE) /\ path = Append(parent, name)
    BY <1>2, <1>3 DEF Joined
  <2>2. BaiduEntry(e) /\ e.id = Append(parent, name) /\ e.dir = FALSE /\ name \in NameOnDrive
    BY <2>1, BaiduItem, Zenon
  <2> QED BY <2>1, <2>2
<1>5. d \in Live /\ drive[d].parent = Base /\ drive[d].is = "dir" /\ PathOf(d) = parent
  BY <1>1, BaiduPaths DEF IsTop
<1>6. drive' = [drive EXCEPT ![n] = Thing("file", name, d)]
  BY <1>2 DEF UploadFileInternal
<1>7. /\ TreeInv' /\ UniqueNames' /\ StandsStill /\ OldStay
      /\ Born(n)' /\ n \in Live' /\ PathOf(n)' = path /\ drive'[n].is = "file"
  BY ONLY BoundAssumption, NameAssumption, n \in Fresh, <1>1, <1>2, <1>4, <1>5, <1>6, BaiduAdds
<1>8. Stands(e.id, e.dir)' /\ Knows(n, path)'
  BY <1>4, <1>7 DEF Stands, Knows
<1>9. /\ unsure' \in {unsure, TRUE} /\ \A o \in list' : o \in list \/ o = e
      /\ fsIds' = fsIds \/ fsIds' = Remembered(path, n)
  BY <1>2, <1>3 DEF UploadFileInternal, WithItem, Answered, AnswerLost
<1> QED BY <1>1, <1>4, <1>7, <1>8, <1>9, BaiduKeeps

\* The path stands for the file whatever its number is.
LEMMA BaiduPatchSound ==
  ASSUME BaiduSound, BaiduPatches
  PROVE  BaiduSound'
<1>1. /\ state' = "ready" /\ UNCHANGED <<kind, root, parent>> /\ got' = <<>> /\ parent # root /\ TreeInv /\ UniqueNames
  BY BaiduPaths DEF BaiduPatches, Changes, Operation
<1>2. PICK e, n, m :
        /\ e \in list
        /\ n \in Reaches(e.id) /\ m \in {n} \cup Fresh /\ ~IsDir(n)
        /\ UploadFileInternal(Overwritten(n, m), {Remembered(e.id, m), Erased(e.id), fsIds}, list)
  BY DEF BaiduPatches, Listing
<1> e \in list
  BY <1>2
<1>3. n \in Live /\ PathOf(n) = e.id
  BY <1>2, BaiduPaths
<1>4. drive[n].is = "file"
  BY <1>2, <1>3 DEF IsDir, Live
<1>5. drive' = Overwritten(n, m)
  BY <1>2 DEF UploadFileInternal
<1>6. /\ TreeInv' /\ UniqueNames' /\ StandsStill /\ OldStay
      /\ Born(m)' /\ m \in Live' /\ PathOf(m)' = e.id
  BY <1>1, <1>2, <1>3, <1>4, <1>5, BaiduOverwrites
<1>7. Knows(m, e.id)'
  BY <1>6 DEF Knows
<1>8. /\ unsure' \in {unsure, TRUE} /\ list' = list
      /\ fsIds' = fsIds \/ fsIds' = Remembered(e.id, m) \/ fsIds' = Erased(e.id)
  BY <1>2 DEF UploadFileInternal, Answered, AnswerLost
<1> QED BY <1>1, <1>6, <1>7, <1>8, BaiduKeeps

\* Whatever the sysmodule does, what JKSV lists stays where it is.
LEMMA SysmoduleWritesSound ==
  ASSUME BaiduSound, SysmoduleWrites
  PROVE  BaiduSound'
<1>1. UNCHANGED <<kind, list, root, parent, fsIds, state, reading, unsure, got>> /\ TreeInv /\ UniqueNames
  BY BaiduPaths DEF SysmoduleWrites, connection
<1>2. TreeInv' /\ UniqueNames' /\ StandsStill /\ OldStay
  <2>1. CASE \E n \in Fresh, name \in Name :
               Named(Base, name) = {} /\ drive' = [drive EXCEPT ![n] = Thing("dir", name, Base)]
    <3>1. PICK n \in Fresh, name \in Name :
               Named(Base, name) = {} /\ drive' = [drive EXCEPT ![n] = Thing("dir", name, Base)]
      BY <2>1
    <3>2. name \in NameOnDrive
      BY DEF NameOnDrive
    <3> QED BY ONLY BoundAssumption, NameAssumption, n \in Fresh, <1>1, <3>1, <3>2, BaiduAdds
  <2>2. CASE \E n \in Fresh, name \in Name, d \in ChildrenOf(Base) :
               IsDir(d) /\ Named(d, name) = {} /\ drive' = [drive EXCEPT ![n] = Thing("file", name, d)]
    <3>1. PICK n \in Fresh, name \in Name, d \in ChildrenOf(Base) :
               IsDir(d) /\ Named(d, name) = {} /\ drive' = [drive EXCEPT ![n] = Thing("file", name, d)]
      BY <2>2
    <3>2. name \in NameOnDrive /\ d \in Live /\ drive[d].parent = Base /\ drive[d].is = "dir"
      BY <1>1, <3>1, Places DEF NameOnDrive, ChildrenOf, IsDir
    <3> QED BY ONLY BoundAssumption, NameAssumption, n \in Fresh, <1>1, <3>1, <3>2, BaiduAdds
  <2>3. CASE \E m \in Fresh, n \in Live : ~IsDir(n) /\ drive' = Overwritten(n, m)
    <3>1. PICK m \in Fresh, n \in Live : ~IsDir(n) /\ drive' = Overwritten(n, m)
      BY <2>3
    <3>2. drive[n].is = "file"
      BY <3>1 DEF IsDir, Live
    <3> QED BY <1>1, <3>1, <3>2, BaiduOverwrites
  <2> QED BY <2>1, <2>2, <2>3 DEF SysmoduleWrites
<1>3. /\ \A e \in list : BaiduEntry(e) /\ (~unsure' => Stands(e.id, e.dir)')
      /\ \A p \in DOMAIN fsIds : \E n : n = fsIds[p] /\ Knows(n, p)'
  BY <1>1, <1>2, BaiduStays
<1>4. BaiduList' /\ BaiduNumbers'
  <2>1. \A e : BaiduEntry(e)' <=> BaiduEntry(e)
    BY DEF BaiduEntry, EntryFields
  <2> QED BY <1>1, <1>3, <2>1 DEF BaiduList, BaiduNumbers
<1>5. BaiduPlaces' /\ DownloadFetchesListed' /\ unsure' \in BOOLEAN /\ kind' = "baidu"
  BY <1>1 DEF BaiduSound, Sound, BaiduInv, BaiduPlaces, DownloadFetchesListed
<1>6. state = "reading" => ReadByBaidu'
  BY <1>1, <1>2, ReadStays DEF BaiduSound, BaiduInv
<1> QED BY <1>1, <1>2, <1>4, <1>5, <1>6 DEF BaiduSound, Sound, BaiduInv

\* What it is to begin with a path.
LEMMA PrefixOf ==
  ASSUME NEW S, NEW p \in Seq(S), NEW q \in Seq(S)
  PROVE  IsPrefix(p, q) <=> Len(p) <= Len(q) /\ \A i \in 1..Len(p) : p[i] = q[i]
<1>1. Len(p) \in Nat /\ Len(q) \in Nat /\ (\A i \in 1..Len(p) : p[i] \in S) /\ (\A i \in 1..Len(q) : q[i] \in S)
  OBVIOUS
<1> SUFFICES ASSUME Len(p) <= Len(q)
             PROVE  SubSeq(p, 1, Len(p)) = SubSeq(q, 1, Len(p)) <=> \A i \in 1..Len(p) : p[i] = q[i]
  BY <1>1 DEF IsPrefix
<1> DEFINE k == Len(p)
           s == SubSeq(p, 1, k)
           t == SubSeq(q, 1, k)
<1>2. k \in Nat /\ 1 \in Int /\ k \in Int /\ k - 1 + 1 = k /\ (1 <= k => k - 1 + 1 = k) /\ (~(1 <= k) => k = 0)
  BY <1>1
<1>3. \A i \in 1..k : q[i] \in S /\ p[i] \in S /\ 1 + i - 1 = i
  BY <1>1
<1> HIDE DEF k
<1>4. s \in Seq(S) /\ Len(s) = k /\ \A i \in 1..k : s[i] = p[i]
  BY <1>2, <1>3, SubSeqProperties
<1>5. t \in Seq(S) /\ Len(t) = k /\ \A i \in 1..k : t[i] = q[i]
  BY <1>2, <1>3, SubSeqProperties
<1> HIDE DEF s, t
<1>6. (\A i \in 1..k : p[i] = q[i]) => s = t
  BY <1>4, <1>5, SeqEqual
<1>7. s = t => \A i \in 1..k : p[i] = q[i]
  BY <1>4, <1>5
<1> QED BY <1>6, <1>7 DEF k, s, t

\* A longer path begins with the same.
LEMMA PrefixGrows ==
  ASSUME NEW S, NEW p \in Seq(S), NEW q \in Seq(S), NEW x \in S, IsPrefix(p, q)
  PROVE  IsPrefix(p, Append(q, x))
<1>1. Len(p) <= Len(q) /\ \A i \in 1..Len(p) : p[i] = q[i]
  BY PrefixOf
<1>2. /\ Append(q, x) \in Seq(S) /\ Len(p) \in Nat /\ Len(q) \in Nat
      /\ Len(Append(q, x)) = Len(q) + 1 /\ \A i \in 1..Len(q) : Append(q, x)[i] = q[i]
  OBVIOUS
<1> DEFINE r == Append(q, x)
<1> HIDE DEF r
<1>3. Len(p) <= Len(r) /\ \A i \in 1..Len(p) : p[i] = r[i]
  BY <1>1, <1>2 DEF r
<1> QED BY <1>2, <1>3, PrefixOf DEF r

\* A path begins with itself.
LEMMA PrefixOfItself ==
  ASSUME NEW S, NEW p \in Seq(S)
  PROVE  IsPrefix(p, p)
BY PrefixOf

\* Where a path leads once the directory x of the base directory is z: only the
\* first name of a path changes.
LEMMA MovedSteps ==
  ASSUME NEW S, NEW x \in S, NEW z \in S, NEW old \in Seq(S), Len(old) = 1, old[1] = x,
         NEW new \in Seq(S), Len(new) = 1, new[1] = z
  PROVE  /\ \A q \in Seq(S) : Moved(q, old, new) \in Seq(S)
         /\ Moved(<<>>, old, new) = <<>> /\ Moved(old, old, new) = new
         /\ \A q \in Seq(S) : Len(q) = 1 /\ q[1] # x => Moved(q, old, new) = q
         /\ \A q \in Seq(S), y \in S : q # <<>> => Moved(Append(q, y), old, new) = Append(Moved(q, old, new), y)
<1>1. ASSUME NEW q \in Seq(S), NEW r, r = Moved(q, old, new)
      PROVE  /\ r \in Seq(S) /\ Len(r) = Len(q)
             /\ \A i \in 1..Len(q) : r[i] = IF i = 1 /\ q[1] = x THEN z ELSE q[i]
  <2> DEFINE k == Len(q)
             u == SubSeq(q, 2, k)
             v == new \o u
  <2>2. k \in Nat /\ \A i \in 1..k : q[i] \in S
    OBVIOUS
  <2>3. HasPrefix(q, old) <=> 1 <= k /\ x = q[1]
    <3>1. IsPrefix(old, q) <=> 1 <= k /\ \A i \in 1..1 : old[i] = q[i]
      BY PrefixOf
    <3> QED BY <3>1 DEF HasPrefix
  <2>4. Moved(q, old, new) = IF HasPrefix(q, old) THEN v ELSE q
    BY DEF Moved
  <2>5. ASSUME 1 <= k, x = q[1] PROVE v \in Seq(S) /\ Len(v) = k /\ \A i \in 1..k : v[i] = IF i = 1 THEN z ELSE q[i]
    <3> HIDE DEF k
    <3>1. /\ 2 \in Int /\ k \in Int /\ (\A i \in 2..k : q[i] \in S) /\ (2 <= k => k - 2 + 1 = k - 1)
          /\ (~(2 <= k) => k - 1 = 0) /\ k - 2 + 1 = k - 1
      BY <2>2, <2>5
    <3>2. u \in Seq(S) /\ Len(u) = k - 1 /\ \A i \in 1..(k - 1) : u[i] = q[2 + i - 1]
      <4>1. u \in Seq(S) /\ Len(u) = (IF 2 <= k THEN k - 2 + 1 ELSE 0) /\ \A i \in 1..(k - 2 + 1) : u[i] = q[2 + i - 1]
        BY <3>1, SubSeqProperties
      <4> HIDE DEF u
      <4> QED BY <3>1, <4>1
    <3> HIDE DEF u
    <3>3. v \in Seq(S) /\ Len(v) = 1 + (k - 1) /\ \A i \in 1..(1 + (k - 1)) : v[i] = IF i <= 1 THEN new[i] ELSE u[i - 1]
      <4>1. v \in Seq(S) /\ Len(v) = Len(new) + Len(u)
            /\ \A i \in 1..(Len(new) + Len(u)) : v[i] = IF i <= Len(new) THEN new[i] ELSE u[i - Len(new)]
        BY <3>2, ConcatProperties
      <4> HIDE DEF v
      <4> QED BY <3>2, <4>1
    <3> HIDE DEF v
    <3>4. Len(v) = k
      BY <2>2, <3>3
    <3>5. ASSUME NEW i \in 1..k PROVE v[i] = IF i = 1 THEN z ELSE q[i]
      <4>1. v[i] = IF i <= 1 THEN new[i] ELSE u[i - 1]
        BY <2>2, <3>3
      <4>2. CASE i = 1
        BY <4>1, <4>2
      <4>3. CASE i # 1
        <5>1. ~(i <= 1) /\ i - 1 \in 1..(k - 1) /\ 2 + (i - 1) - 1 = i
          BY <2>2, <4>3
        <5>2. u[i - 1] = q[2 + (i - 1) - 1]
          BY <3>2, <5>1
        <5> QED BY <4>1, <4>3, <5>1, <5>2
      <4> QED BY <4>2, <4>3
    <3> QED BY <3>3, <3>4, <3>5
  <2> HIDE DEF v
  <2>6. CASE 1 <= k /\ x = q[1]
    <3>1. Moved(q, old, new) = v
      BY <2>3, <2>4, <2>6
    <3> QED BY <1>1, <2>5, <2>6, <3>1
  <2>7. CASE ~(1 <= k /\ x = q[1])
    <3>1. Moved(q, old, new) = q
      BY <2>3, <2>4, <2>7
    <3>2. \A i \in 1..k : ~(i = 1 /\ q[1] = x)
      BY <2>2, <2>7
    <3> QED BY <1>1, <3>1, <3>2
  <2> QED BY <2>6, <2>7
<1>2. PICK M : M = [q \in Seq(S) |-> Moved(q, old, new)]
  OBVIOUS
<1>3. \A q \in Seq(S) : /\ M[q] = Moved(q, old, new) /\ M[q] \in Seq(S) /\ Len(M[q]) = Len(q)
                        /\ \A i \in 1..Len(q) : M[q][i] = IF i = 1 /\ q[1] = x THEN z ELSE q[i]
  BY <1>1, <1>2
<1>4. M[<<>>] = <<>>
  <2>1. <<>> \in Seq(S) /\ Len(<<>>) = 0
    OBVIOUS
  <2>2. M[<<>>] \in Seq(S) /\ Len(M[<<>>]) = 0
    BY <1>3, <2>1
  <2> QED BY <2>2
<1>5. ASSUME NEW q \in Seq(S), Len(q) = 1 PROVE (q[1] # x => M[q] = q) /\ (q[1] = x => M[q] = new)
  <2>1. M[q] \in Seq(S) /\ Len(M[q]) = 1 /\ M[q][1] = IF q[1] = x THEN z ELSE q[1]
    BY <1>3, <1>5
  <2>2. PICK m : m = M[q]
    OBVIOUS
  <2> QED BY <1>5, <2>1, <2>2, SeqEqual
<1>6. ASSUME NEW q \in Seq(S), NEW y \in S, q # <<>> PROVE M[Append(q, y)] = Append(M[q], y)
  <2>1. PICK r : r = Append(q, y)
    OBVIOUS
  <2>2. /\ r \in Seq(S) /\ Len(r) = Len(q) + 1 /\ Len(q) \in Nat \ {0} /\ r[Len(q) + 1] = y
        /\ \A i \in 1..Len(q) : r[i] = q[i]
    BY <1>6, <2>1
  <2>3. PICK m, n : m = M[q] /\ n = M[r]
    OBVIOUS
  <2>4. m \in Seq(S) /\ Len(m) = Len(q) /\ \A i \in 1..Len(q) : m[i] = IF i = 1 /\ q[1] = x THEN z ELSE q[i]
    BY <1>3, <2>3
  <2>5. n \in Seq(S) /\ Len(n) = Len(q) + 1 /\ \A i \in 1..(Len(q) + 1) : n[i] = IF i = 1 /\ r[1] = x THEN z ELSE r[i]
    BY <1>3, <2>2, <2>3
  <2>6. PICK a : a = Append(m, y)
    OBVIOUS
  <2>7. a \in Seq(S) /\ Len(a) = Len(q) + 1 /\ a[Len(q) + 1] = y /\ \A i \in 1..Len(q) : a[i] = m[i]
    BY <2>2, <2>4, <2>6
  <2>8. \A i \in 1..Len(n) : n[i] = a[i]
    <3> SUFFICES ASSUME NEW i \in 1..(Len(q) + 1) PROVE n[i] = a[i]
      BY <2>5
    <3>1. 1 \in 1..Len(q) /\ (i \in 1..Len(q) \/ i = Len(q) + 1) /\ (i = Len(q) + 1 => i # 1)
      BY <2>2
    <3> QED BY <2>2, <2>4, <2>5, <2>7, <3>1
  <2>9. n = a
    BY ONLY <2>5, <2>7, <2>8, SeqEqual
  <2> QED BY <2>1, <2>3, <2>6, <2>9
<1>7. \A q \in Seq(S), y \in S : Append(q, y) \in Seq(S)
  OBVIOUS
<1>8. M[<<>>] = Moved(<<>>, old, new) /\ M[old] = Moved(old, old, new)
  <2>1. <<>> \in Seq(S)
    OBVIOUS
  <2> QED BY <1>3, <2>1
<1>9. \A q \in Seq(S) : Moved(q, old, new) \in Seq(S)
  BY <1>3
<1>10. \A q \in Seq(S), y \in S : q # <<>> => Moved(Append(q, y), old, new) = Append(Moved(q, old, new), y)
  <2> SUFFICES ASSUME NEW q \in Seq(S), NEW y \in S, q # <<>> 
               PROVE  Moved(Append(q, y), old, new) = Append(Moved(q, old, new), y)
    OBVIOUS
  <2>1. PICK r, s : r = Append(q, y) /\ s = M[q]
    OBVIOUS
  <2>2. M[r] = Append(s, y) /\ r \in Seq(S)
    BY <1>6, <1>7, <2>1
  <2>3. Moved(r, old, new) = M[r] /\ Moved(q, old, new) = s
    BY <1>3, <2>1, <2>2
  <2> QED BY <2>1, <2>2, <2>3
<1>11. \A q \in Seq(S) : Len(q) = 1 /\ q[1] # x => Moved(q, old, new) = q
  BY <1>3, <1>5
<1> QED BY <1>4, <1>5, <1>8, <1>9, <1>10, <1>11

\* Numbers stay true as long as no node moves.
LEMMA NumbersStay ==
  ASSUME BaiduSound, OldStay, unsure' \in {unsure, TRUE}
  PROVE  \A n, p : Knows(n, p) => Knows(n, p)'
BY DEF Knows, OldStay, BaiduSound, Sound

\* What is dropped from the list is what was deleted.
LEMMA BaiduDeleteSound ==
  ASSUME BaiduSound, BaiduDeletes
  PROVE  BaiduSound'
<1>1. /\ state' = "ready" /\ UNCHANGED <<kind, root, parent>> /\ got' = <<>> /\ TreeInv /\ UniqueNames
      /\ unsure \in BOOLEAN /\ kind = "baidu"
  BY BaiduPaths DEF BaiduDeletes, Changes, Operation
<1>2. PICK e, n :
        /\ e \in list
        /\ n \in Reaches(e.id) /\ drive' = Without({n} \cup Below(n))
        /\ \/ Answered /\ list' = {o \in list : ~HasPrefix(o.id, e.id)} /\ fsIds' = Forget(fsIds, e.id)
           \/ AnswerLost
  BY DEF BaiduDeletes, Listing
<1> e \in list
  BY <1>2
<1>3. n \in Live /\ PathOf(n) = e.id /\ BaiduEntry(e)
  BY <1>2, BaiduPaths
<1>4. PICK R : R = {n} \cup Below(n)
  OBVIOUS
<1>5. Closed(R) /\ drive' = Without(R)
  BY <1>2, <1>3, <1>4, BelowIsClosed
<1>6. /\ TreeInv' /\ Live' = Live \ R
      /\ \A m \in Live \ R : drive'[m] = drive[m] /\ PathOf(m)' = PathOf(m)
      /\ \A m : Born(m) => Born(m)'
  BY <1>1, <1>5, Shrinks
<1>7. UniqueNames' /\ OldStay
  BY <1>1, <1>6 DEF UniqueNames, OldStay
<1>8. \A m \in R : HasPrefix(PathOf(m), e.id)
  <2>1. PICK S \in SUBSET Live : S = {m \in Live : IsPrefix(e.id, PathOf(m))}
    OBVIOUS
  <2>2. e.id \in Seq(NameOnDrive)
    BY <1>1, <1>3, NodeOfPath
  <2>3. n \in S
    BY <1>3, <2>1, <2>2, PrefixOfItself
  <2>4. ASSUME NEW m \in Live, drive[m].parent \in S PROVE m \in S
    <3>1. PICK d \in Live \cup {Base} : /\ drive[m].parent = d /\ PathOf(m) = Append(PathOf(d), drive[m].name)
                                        /\ PathOf(d) \in Seq(NameOnDrive) /\ drive[m].name \in NameOnDrive
      BY <1>1, PathAndParent
    <3>2. IsPrefix(e.id, PathOf(d))
      BY <2>1, <2>4, <3>1
    <3>3. IsPrefix(e.id, PathOf(m))
      BY <2>2, <3>1, <3>2, PrefixGrows
    <3> QED BY <2>1, <3>3
  <2>5. \A m \in Live : drive[m].parent = n \/ drive[m].parent \in S => m \in S
    BY <2>3, <2>4
  <2>6. Below(n) \subseteq S
    BY <1>3, <2>5, BelowIsClosed
  <2> QED BY <1>4, <2>1, <2>3, <2>6 DEF HasPrefix
<1>9. unsure' \in {unsure, TRUE} /\ unsure' \in BOOLEAN
  BY <1>1, <1>2 DEF Answered, AnswerLost
<1>10. BaiduNumbers'
  <2>1. \A m, p : Knows(m, p) => Knows(m, p)'
    BY <1>7, <1>9, NumbersStay
  <2>2. \A p \in DOMAIN fsIds' : p \in DOMAIN fsIds /\ fsIds'[p] = fsIds[p]
    BY <1>2 DEF AnswerLost, Forget
  <2> QED BY <2>1, <2>2 DEF BaiduSound, BaiduInv, BaiduNumbers
<1>11. BaiduList'
  <2>1. ASSUME NEW o \in list' PROVE BaiduEntry(o) /\ (~unsure' => Stands(o.id, o.dir)')
    <3>1. o \in list
      BY <1>2 DEF AnswerLost
    <3>2. BaiduEntry(o) /\ (~unsure => Stands(o.id, o.dir))
      BY <3>1 DEF BaiduSound, BaiduInv, BaiduList
    <3>3. ASSUME ~unsure' PROVE Stands(o.id, o.dir)'
      <4>1. ~unsure /\ ~HasPrefix(o.id, e.id)
        BY <1>2, <1>9, <3>3 DEF Answered, AnswerLost
      <4>2. PICK m \in Live : PathOf(m) = o.id /\ (o.dir <=> drive[m].is = "dir")
        BY <3>2, <4>1 DEF Stands
      <4>3. m \in Live \ R
        BY <1>8, <4>1, <4>2
      <4> QED BY <1>6, <4>2, <4>3 DEF Stands
    <3> QED BY <3>2, <3>3
  <2>2. \A o : BaiduEntry(o)' <=> BaiduEntry(o)
    BY DEF BaiduEntry, EntryFields
  <2> QED BY <2>1, <2>2 DEF BaiduList
<1>12. BaiduPlaces' /\ DownloadFetchesListed'
  BY <1>1 DEF BaiduSound, BaiduInv, BaiduPlaces, DownloadFetchesListed
<1> QED BY <1>1, <1>6, <1>7, <1>9, <1>10, <1>11, <1>12 DEF BaiduSound, Sound, BaiduInv

\* What a renamed directory does to the drive.
LEMMA PathsMove ==
  ASSUME TreeInv, UniqueNames, NEW n \in Live, IsTop(n), NEW x \in NameOnDrive, x = drive[n].name,
         NEW z \in NameOnDrive, Named(Base, z) = {}, drive' = [drive EXCEPT ![n].name = z],
         NEW old \in Seq(NameOnDrive), Len(old) = 1, old[1] = x,
         NEW new \in Seq(NameOnDrive), Len(new) = 1, new[1] = z
  PROVE  /\ TreeInv' /\ UniqueNames' /\ Live' = Live /\ \A m : Born(m) => Born(m)'
         /\ \A m \in Live : PathOf(m)' = Moved(PathOf(m), old, new) /\ drive'[m].is = drive[m].is
<1>1. Moved(old, old, new) = new
  BY MovedSteps
<1>2. /\ TreeInv' /\ Live' = Live
      /\ drive'[n].is = drive[n].is /\ drive'[n].name = z /\ drive'[n].parent = drive[n].parent
      /\ \A m \in Live : m # n => drive'[m] = drive[m]
      /\ \A m : Born(m) => Born(m)'
  <2>1. PICK R : R = {}
    OBVIOUS
  <2>2. Closed(R) /\ n \in Live \ R /\ Live \ R = Live /\ drive' = [Without(R) EXCEPT ![n].name = z]
    BY <2>1, WithoutNothing DEF Closed
  <2>3. /\ TreeInv' /\ Live' = Live \ R
        /\ drive'[n].is = drive[n].is /\ drive'[n].name = z /\ drive'[n].parent = drive[n].parent
        /\ \A m \in Live \ R : m # n => drive'[m] = drive[m]
        /\ \A m : Born(m) => Born(m)'
    BY ONLY TreeInv, BoundAssumption, NameAssumption, <2>2, IsTop(n), z \in NameOnDrive, Renames
  <2>4. \A m \in Live : m # n => m \in Live \ R
    BY <2>2
  <2> QED BY <2>2, <2>3, <2>4
<1>3. \A m \in Live : drive'[m].is = drive[m].is /\ drive'[m].parent = drive[m].parent
                      /\ drive'[m].name = IF m = n THEN z ELSE drive[m].name
  BY <1>2
<1>4. \A m \in Live : IsTop(m) /\ m # n => drive[m].name # x /\ drive[m].name # z
  BY DEF UniqueNames, IsTop, Named, ChildrenOf
<1>5. UniqueNames'
  <2> SUFFICES ASSUME NEW l \in Live, NEW m \in Live, drive[l].parent = drive[m].parent, drive'[l].name = drive'[m].name
               PROVE  l = m
    BY <1>2, <1>3 DEF UniqueNames
  <2> QED BY <1>3, <1>4 DEF UniqueNames, IsTop
<1>6. \A m \in Live : drive[m].name \in NameOnDrive /\ PathOf(m) \in Seq(NameOnDrive) /\ PathOf(m) # <<>>
                      /\ (IsTop(m) => PathOf(m) = <<drive[m].name>>)
  <2>1. \A m \in Live : Len(PathOf(m)) # 0
    BY ShapesOfPaths DEF PathShapes, IsLow
  <2>2. Len(<<>>) = 0
    OBVIOUS
  <2> QED BY <2>1, <2>2, Places, ShapesOfPaths DEF PathShapes, IsThing
<1>7. ASSUME NEW m \in Live, IsTop(m) PROVE PathOf(m)' = Moved(PathOf(m), old, new)
  <2>1. IsTop(m)'
    BY <1>3, <1>7 DEF IsTop
  <2>2. PICK p, q, y : p = PathOf(m) /\ q = PathOf(m)' /\ y = drive'[m].name
    OBVIOUS
  <2>3. q \in Seq(NameOnDrive) /\ q = <<y>>
    BY <1>2, <2>1, <2>2, ShapesNext DEF PathShapes
  <2>4. p \in Seq(NameOnDrive) /\ p = <<drive[m].name>> /\ drive[m].name \in NameOnDrive
    BY <1>6, <1>7, <2>2
  <2>5. Len(p) = 1 /\ p[1] = drive[m].name /\ Len(q) = 1 /\ q[1] = y
    BY <2>3, <2>4
  <2>6. CASE m = n
    <3>1. p = old /\ q = new
      BY ONLY old \in Seq(NameOnDrive), Len(old) = 1, old[1] = x, new \in Seq(NameOnDrive), Len(new) = 1, new[1] = z,
         x = drive[n].name, <1>3, <2>2, <2>3, <2>4, <2>5, <2>6, n \in Live, SeqEqual
    <3> QED BY <1>1, <2>2, <3>1
  <2>7. CASE m # n
    <3>1. y = drive[m].name /\ p = q /\ p[1] # x
      BY <1>3, <1>4, <1>7, <2>2, <2>3, <2>4, <2>5, <2>7
    <3>2. Moved(p, old, new) = p
      <4>1. p \in Seq(NameOnDrive) /\ Len(p) = 1 /\ p[1] # x
        BY <2>4, <2>5, <3>1
      <4> QED BY ONLY x \in NameOnDrive, z \in NameOnDrive, old \in Seq(NameOnDrive), Len(old) = 1, old[1] = x,
                 new \in Seq(NameOnDrive), Len(new) = 1, new[1] = z, <4>1, MovedSteps
    <3> QED BY <2>2, <3>1, <3>2
  <2> QED BY <2>6, <2>7
<1>8. ASSUME NEW m \in Live, NEW d \in Live, drive[m].parent = d, PathOf(d)' = Moved(PathOf(d), old, new)
      PROVE  PathOf(m)' = Moved(PathOf(m), old, new)
  <2>1. PathOf(m) = Append(PathOf(d), drive[m].name)
    BY <1>8, Paths DEF PathsStep
  <2>2. PathOf(m)' = Append(PathOf(d)', drive'[m].name)
    BY <1>2, <1>3, <1>8, PathsNext DEF PathsStep
  <2>3. m # n
    BY <1>8, Places DEF IsTop
  <2>4. drive'[m].name = drive[m].name
    BY <1>3, <2>3
  <2>5. PICK q, y : q = PathOf(d) /\ y = drive[m].name
    OBVIOUS
  <2>6. q \in Seq(NameOnDrive) /\ q # <<>> /\ y \in NameOnDrive
    BY <1>6, <2>5
  <2>7. Moved(Append(q, y), old, new) = Append(Moved(q, old, new), y)
    BY <2>6, MovedSteps
  <2> QED BY <1>8, <2>1, <2>2, <2>4, <2>5, <2>7
<1>9. ASSUME NEW m \in Live, IsMid(m) PROVE PathOf(m)' = Moved(PathOf(m), old, new)
  <2>1. PICK d \in Live : drive[m].parent = d /\ IsTop(d)
    BY <1>9, Places DEF IsMid
  <2> QED BY <1>7, <1>8, <2>1
<1>10. ASSUME NEW m \in Live, IsLow(m) PROVE PathOf(m)' = Moved(PathOf(m), old, new)
  <2>1. PICK d \in Live : drive[m].parent = d /\ IsMid(d)
    BY <1>10, Places DEF IsMid, IsLow
  <2> QED BY <1>8, <1>9, <2>1
<1> QED BY <1>2, <1>3, <1>5, <1>7, <1>9, <1>10 DEF IsLow

\* An item of the new list stands where the old one's thing is now.
LEMMA ItemMoves ==
  ASSUME NEW o, BaiduEntry(o), NEW x \in NameOnDrive, NEW z \in NameOnDrive,
         NEW e, e.id \in Seq(NameOnDrive), Len(e.id) = 1, e.id[1] = x,
         NEW new \in Seq(NameOnDrive), Len(new) = 1, new[1] = z,
         NEW i, i = MovedEntry(o, e, new)
  PROVE  BaiduEntry(i) /\ i.id = Moved(o.id, e.id, new) /\ i.dir = o.dir
<1>1. PICK old, p, q, y : old = e.id /\ p = o.parent /\ q = o.id /\ y = o.name
  OBVIOUS
<1>2. p \in Seq(NameOnDrive) /\ y \in NameOnDrive /\ q = Append(p, y) /\ o.dir \in BOOLEAN
  BY <1>1 DEF BaiduEntry, EntryFields
<1>3. /\ i.id = Moved(q, old, new) /\ i.name = (IF q = old THEN Last(new) ELSE y)
      /\ i.parent = Moved(p, old, new) /\ i.dir = o.dir /\ i = Entry(i.id, i.name, i.parent, i.dir)
  BY <1>1 DEF MovedEntry, Entry
<1>4. Last(new) = z
  BY DEF Last
<1>5. old \in Seq(NameOnDrive) /\ Len(old) = 1 /\ old[1] = x
  BY <1>1
<1>6. Moved(p, old, new) \in Seq(NameOnDrive)
  BY ONLY x \in NameOnDrive, z \in NameOnDrive, new \in Seq(NameOnDrive), Len(new) = 1, new[1] = z, <1>2, <1>5, MovedSteps
<1>7. i.id = Append(i.parent, i.name) /\ i.name \in NameOnDrive
  <2>1. CASE p = <<>>
    <3>1. Moved(p, old, new) = <<>>
      BY ONLY x \in NameOnDrive, z \in NameOnDrive, new \in Seq(NameOnDrive), Len(new) = 1, new[1] = z, <1>5, <2>1, MovedSteps
    <3>2. q \in Seq(NameOnDrive) /\ Len(q) = 1 /\ q[1] = y
      BY <1>2, <2>1
    <3>3. CASE y = x
      <4>1. q = old
        BY ONLY <1>5, <3>2, <3>3, SeqEqual
      <4>2. Moved(q, old, new) = new
        BY ONLY x \in NameOnDrive, z \in NameOnDrive, new \in Seq(NameOnDrive), Len(new) = 1, new[1] = z, <1>5, <4>1, MovedSteps
      <4>3. PICK s : s = Append(<<>>, z)
        OBVIOUS
      <4>4. s \in Seq(NameOnDrive) /\ Len(s) = 1 /\ s[1] = z
        BY <4>3
      <4>5. s = new
        BY ONLY new \in Seq(NameOnDrive), Len(new) = 1, new[1] = z, <4>4, SeqEqual
      <4> QED BY <1>3, <1>4, <3>1, <4>1, <4>2, <4>3, <4>5
    <3>4. CASE y # x
      <4>1. q # old
        BY <1>5, <3>2, <3>4
      <4>2. Moved(q, old, new) = q
        BY ONLY x \in NameOnDrive, z \in NameOnDrive, new \in Seq(NameOnDrive), Len(new) = 1, new[1] = z, <1>5, <3>2, <3>4, MovedSteps
      <4> QED BY <1>2, <1>3, <2>1, <3>1, <4>1, <4>2
    <3> QED BY <3>3, <3>4
  <2>2. CASE p # <<>>
    <3>1. Moved(Append(p, y), old, new) = Append(Moved(p, old, new), y)
      BY ONLY x \in NameOnDrive, z \in NameOnDrive, new \in Seq(NameOnDrive), Len(new) = 1, new[1] = z, <1>2, <1>5, <2>2, MovedSteps
    <3>2. Len(q) # 1
      BY <1>2, <2>2
    <3> QED BY <1>2, <1>3, <1>5, <3>1, <3>2
  <2> QED BY <2>1, <2>2
<1> QED BY <1>1, <1>2, <1>3, <1>6, <1>7 DEF BaiduEntry, EntryFields

\* Items and numbers go with the directory that is renamed.
LEMMA BaiduRenameSound ==
  ASSUME BaiduSound, BaiduRenames
  PROVE  BaiduSound'
<1>1. /\ state' = "ready" /\ UNCHANGED <<kind, root, parent>> /\ got' = <<>> /\ TreeInv /\ UniqueNames
      /\ unsure \in BOOLEAN /\ kind = "baidu" /\ parent = <<>> /\ NodeAt(parent) = Base /\ PathOf(Base) = <<>>
  BY BaiduPaths DEF BaiduRenames, Changes, Operation
<1>2. PICK e, z, n, new :
        /\ e \in list /\ z \in Name
        /\ n \in Reaches(e.id) /\ new = Joined(parent, z) /\ e.parent = parent
        /\ Named(Base, z) = {} /\ drive' = [drive EXCEPT ![n].name = z]
        /\ \/ Answered /\ list' = {MovedEntry(o, e, new) : o \in list} /\ fsIds' = MovedIds(e.id, new)
           \/ AnswerLost
  BY <1>1 DEF BaiduRenames, Listing
<1> e \in list /\ z \in Name
  BY <1>2
<1>3. n \in Live /\ PathOf(n) = e.id /\ BaiduEntry(e)
  BY <1>2, BaiduPaths
<1>4. z \in NameOnDrive /\ new \in Seq(NameOnDrive) /\ Len(new) = 1 /\ new[1] = z
  BY <1>1, <1>2 DEF Joined, NameOnDrive
<1>5. PICK old, x : old = e.id /\ x = e.name
  OBVIOUS
<1>6. old = Append(<<>>, x) /\ x \in NameOnDrive
  BY <1>1, <1>2, <1>3, <1>5 DEF BaiduEntry
<1>7. old \in Seq(NameOnDrive) /\ Len(old) = 1 /\ old[1] = x
  BY <1>6
<1>8. IsTop(n) /\ drive[n].name = x
  <2>1. Len(PathOf(n)) = 1
    BY <1>3, <1>5, <1>7
  <2>2. IsTop(n)
    <3>1. (IsMid(n) => Len(PathOf(n)) = 2) /\ (IsLow(n) => Len(PathOf(n)) = 3)
      BY <1>1, <1>3, ShapesOfPaths DEF PathShapes
    <3> QED BY <2>1, <3>1 DEF IsLow
  <2>3. PathOf(n) = Append(PathOf(Base), drive[n].name)
    BY <1>1, <1>3, <2>2, Paths DEF PathsStep, IsTop
  <2>4. drive[n].name \in NameOnDrive
    BY <1>1, <1>3, Places DEF IsThing
  <2> QED BY <1>1, <1>3, <1>5, <1>6, <2>2, <2>3, <2>4
<1>9. /\ TreeInv' /\ UniqueNames' /\ Live' = Live /\ \A m : Born(m) => Born(m)'
      /\ \A m \in Live : PathOf(m)' = Moved(PathOf(m), old, new) /\ drive'[m].is = drive[m].is
  <2>1. /\ TreeInv /\ UniqueNames /\ n \in Live /\ IsTop(n) /\ x \in NameOnDrive /\ x = drive[n].name
        /\ z \in NameOnDrive /\ Named(Base, z) = {} /\ drive' = [drive EXCEPT ![n].name = z]
        /\ old \in Seq(NameOnDrive) /\ Len(old) = 1 /\ old[1] = x
        /\ new \in Seq(NameOnDrive) /\ Len(new) = 1 /\ new[1] = z
    BY <1>1, <1>2, <1>3, <1>4, <1>6, <1>7, <1>8
  <2> QED BY ONLY BoundAssumption, NameAssumption, <2>1, PathsMove, Zenon
<1>10. unsure' \in {unsure, TRUE} /\ unsure' \in BOOLEAN
  BY <1>1, <1>2 DEF Answered, AnswerLost
<1>11. \A o : BaiduEntry(o)' <=> BaiduEntry(o)
  BY DEF BaiduEntry, EntryFields
<1>12. BaiduPlaces' /\ DownloadFetchesListed'
  BY <1>1 DEF BaiduSound, BaiduInv, BaiduPlaces, DownloadFetchesListed
<1>13. CASE Answered /\ list' = {MovedEntry(o, e, new) : o \in list} /\ fsIds' = MovedIds(e.id, new)
  <2>1. unsure' = unsure
    BY <1>13 DEF Answered
  <2>2. ASSUME NEW i \in list' PROVE BaiduEntry(i) /\ (~unsure' => Stands(i.id, i.dir)')
    <3>1. PICK o \in list : i = MovedEntry(o, e, new)
      BY <1>13
    <3>2. BaiduEntry(o) /\ (~unsure => Stands(o.id, o.dir))
      BY DEF BaiduSound, BaiduInv, BaiduList
    <3>3. BaiduEntry(i) /\ i.id = Moved(o.id, old, new) /\ i.dir = o.dir
      <4>1. /\ BaiduEntry(o) /\ x \in NameOnDrive /\ z \in NameOnDrive
            /\ e.id \in Seq(NameOnDrive) /\ Len(e.id) = 1 /\ e.id[1] = x
            /\ new \in Seq(NameOnDrive) /\ Len(new) = 1 /\ new[1] = z /\ i = MovedEntry(o, e, new)
        BY <1>4, <1>5, <1>6, <1>7, <3>1, <3>2
      <4>2. BaiduEntry(i) /\ i.id = Moved(o.id, e.id, new) /\ i.dir = o.dir
        BY ONLY <4>1, ItemMoves
      <4> QED BY <1>5, <4>2
    <3>4. ASSUME ~unsure' PROVE Stands(i.id, i.dir)'
      <4>1. PICK m \in Live : PathOf(m) = o.id /\ (o.dir <=> drive[m].is = "dir")
        BY <2>1, <3>2, <3>4 DEF Stands
      <4> QED BY <1>9, <3>3, <4>1 DEF Stands
    <3> QED BY <3>3, <3>4
  <2>3. BaiduList'
    BY <1>11, <2>2 DEF BaiduList
  <2>4. ASSUME NEW p \in DOMAIN fsIds' PROVE \E m : m = fsIds'[p] /\ Knows(m, p)'
    <3>1. PICK known : known = {o \in list : o.id \in DOMAIN fsIds}
      OBVIOUS
    <3>2. fsIds' = [r \in {Moved(o.id, old, new) : o \in known} |->
                      fsIds[(CHOOSE o \in known : Moved(o.id, old, new) = r).id]]
      BY <1>5, <1>13, <3>1 DEF MovedIds
    <3>3. PICK o : o = CHOOSE r \in known : Moved(r.id, old, new) = p
      OBVIOUS
    <3>4. o \in known /\ Moved(o.id, old, new) = p
      BY <3>2, <3>3
    <3>5. fsIds'[p] = fsIds[o.id] /\ o.id \in DOMAIN fsIds
      BY <3>1, <3>2, <3>3, <3>4
    <3>6. PICK m : m = fsIds[o.id] /\ Knows(m, o.id)
      BY <3>5 DEF BaiduSound, BaiduInv, BaiduNumbers
    <3>7. Knows(m, p)'
      BY <1>9, <2>1, <3>4, <3>6 DEF Knows
    <3> QED BY <3>5, <3>6, <3>7
  <2>5. BaiduNumbers'
    BY <2>4 DEF BaiduNumbers
  <2> QED BY <1>1, <1>9, <1>10, <1>12, <2>3, <2>5 DEF BaiduSound, Sound, BaiduInv
<1>14. CASE AnswerLost
  <2>1. unsure' = TRUE /\ UNCHANGED <<list, fsIds>>
    BY <1>14 DEF AnswerLost
  <2>2. BaiduList'
    BY <1>11, <2>1 DEF BaiduSound, BaiduInv, BaiduList
  <2>3. \A m, p : Knows(m, p) => Knows(m, p)'
    BY <1>9, <2>1 DEF Knows
  <2>4. BaiduNumbers'
    BY <2>1, <2>3 DEF BaiduSound, BaiduInv, BaiduNumbers
  <2> QED BY <1>1, <1>9, <1>10, <1>12, <2>2, <2>4 DEF BaiduSound, Sound, BaiduInv
<1> QED BY <1>2, <1>13, <1>14

\* Every step of JKSV and of the sysmodule on Baidu Netdisk; a listing that ends
\* has everything that was there when it began.
LEMMA BaiduSteps ==
  ASSUME BaiduSound, [Next]_vars
  PROVE  /\ BaiduSound'
         /\ state = "reading" /\ state' \in {"ready", "unrooted"} => reading.present \subseteq {e.id : e \in list'}
<1>1. kind = "baidu" /\ kind # "google" /\ kind # "webdav"
  BY DEF BaiduSound
<1>2. ~DriveNext
  BY <1>1 DEF DriveNext, DriveConnects, ReadDrivePage, DriveSignsIn, DriveFindsRoot, DriveCreates, DriveUploads,
     DrivePatches, DriveDownloads, DriveDeletes, Changes
<1>3. ~DavNext
  BY <1>1 DEF DavNext, DavConnects, ReadCollection, DavCreates, DavUploads, DavPatches, DavDownloads,
     DavDeletes, DavRenames, Changes
<1>4. CASE ReadPage
  <2>1. state' # "unrooted"
    BY <1>4 DEF ReadPage
  <2> QED BY <1>4, <2>1, BaiduReads
<1>5. CASE OpenDirectory \/ ReturnToRoot \/ ConnectionFails \/ Restart \/ BaiduConnects \/ BaiduDownloads \/ UNCHANGED vars
  <2>1. ~(state = "reading" /\ state' \in {"ready", "unrooted"})
    BY <1>5 DEF OpenDirectory, ReturnToRoot, ConnectionFails, Restart, BaiduConnects, BaiduDownloads, Operation,
       vars, connection
  <2> QED BY <1>5, <2>1, BaiduBrowses
<1>6. CASE BaiduCreates \/ BaiduUploads \/ BaiduPatches \/ BaiduDeletes \/ BaiduRenames
  <2>1. state # "reading"
    BY <1>6 DEF BaiduCreates, BaiduUploads, BaiduPatches, BaiduDeletes, BaiduRenames, Changes, Operation
  <2> QED BY <1>6, <2>1, BaiduCreateSound, BaiduUploadSound, BaiduPatchSound, BaiduDeleteSound, BaiduRenameSound
<1>7. CASE SysmoduleWrites
  <2>1. state' = state
    BY <1>7 DEF SysmoduleWrites, connection
  <2> QED BY <1>7, <2>1, SysmoduleWritesSound
<1> QED BY <1>2, <1>3, <1>4, <1>5, <1>6, <1>7 DEF Next, BaiduNext

-----------------------------------------------------------------------------
\* The whole.

\* The tree, the list and the listing under way are sound on the drive in use.
DriveInv == GoogleSound \/ BaiduSound \/ DavSound

\* A drive that holds some things, each in one before it.
LEMMA GrownIsTree ==
  ASSUME NEW things, Len(things) \in Nat, drive = Grown(things),
         \A i \in 1..Len(things) :
            LET t == things[i]
            IN  /\ t = Thing(t.is, t.name, t.parent) /\ t.is \in {"dir", "file"} /\ t.name \in NameOnDrive
                /\ \/ t.parent = Base /\ t.is = "dir"
                   \/ /\ t.parent \in 1..(i - 1) /\ things[t.parent].is = "dir"
                      /\ things[t.parent].parent = Base \/ t.is = "file"
  PROVE  TreeInv /\ \A n \in Live : n \in 1..Len(things) /\ drive[n] = things[n]
<1>1. /\ drive = [n \in Node |-> drive[n]]
      /\ \A n \in Node : drive[n] = IF n <= Len(things) THEN things[n] ELSE Unborn
  BY DEF Grown
<1>2. \A n \in Node : n \in Nat \ {0} /\ \A m \in 1..(n - 1) : m \in Node
  BY BoundAssumption DEF Node
<1>3. \A n \in Node : n \in Live <=> n <= Len(things)
  BY <1>1, <1>2 DEF Live, Unborn
<1>4. \A n \in Live : n \in Node /\ n \in 1..Len(things) /\ drive[n] = things[n]
  BY <1>1, <1>2, <1>3 DEF Live
<1>5. \A n \in Node : drive[n] \in {Unborn, Gone} \/ IsThing(drive[n])
  <2> SUFFICES ASSUME NEW n \in Live PROVE IsThing(drive[n])
    BY <1>1, <1>3
  <2> QED BY <1>2, <1>4 DEF IsThing
<1>6. ASSUME NEW n \in Live PROVE Hangs(n)
  <2>1. PICK t : t = things[n] /\ t = drive[n]
    BY <1>4
  <2>2. CASE t.parent = Base /\ t.is = "dir"
    BY <2>1, <2>2 DEF Hangs
  <2>3. CASE /\ t.parent \in 1..(n - 1) /\ things[t.parent].is = "dir"
             /\ things[t.parent].parent = Base \/ t.is = "file"
    <3>1. t.parent \in Node /\ t.parent <= Len(things)
      BY <1>2, <1>4, <2>3
    <3>2. t.parent \in Live /\ drive[t.parent] = things[t.parent]
      BY <1>1, <1>3, <3>1
    <3> QED BY <2>1, <2>3, <3>2 DEF Hangs
  <2> QED BY <1>4, <2>1, <2>2, <2>3
<1> QED BY <1>1, <1>4, <1>5, <1>6 DEF TreeInv

\* The drives that JKSV may find are trees; a drive of Google has directories
\* where JKSV makes them, no directory of the others has a name twice.
LEMMA DrivesAreTrees ==
  ASSUME kind \in Kinds, drive \in Drives
  PROVE  /\ TreeInv
         /\ kind = "google" => \A n \in Live : IsMid(n) /\ drive[n].is = "dir" =>
                                  drive[drive[n].parent].name = Jksv /\ drive[n].name # Jksv
         /\ kind # "google" => UniqueNames
<1>1. PICK n1, n2 : /\ n1 \in Name /\ n2 \in Name /\ n1 # n2
                    /\ n1 = CHOOSE n \in Name : TRUE
                    /\ n2 = CHOOSE n \in Name : n # n1
  BY NameAssumption
<1>2. n1 \in NameOnDrive /\ n2 \in NameOnDrive /\ Jksv \in NameOnDrive /\ n1 # Jksv
  BY <1>1, NameAssumption DEF NameOnDrive
<1>3. PICK things : /\ drive = Grown(things)
                    /\ IF kind = "google"
                       THEN things \in {<<>>, <<Thing("dir", Jksv, Base), Thing("dir", n1, 1), Thing("file", n2, 2)>>}
                       ELSE things \in {<<>>,
                              <<Thing("dir", n1, Base), Thing("file", n1, 1), Thing("file", n2, 1)>>,
                              <<Thing("dir", n1, Base), Thing("dir", n2, 1), Thing("file", n1, 2)>>}
  BY <1>1, Zenon DEF Drives
<1>4. CASE things = <<>>
  <2>1. Len(things) = 0
    BY <1>4
  <2>2. TreeInv /\ Live = {}
    BY <1>3, <2>1, GrownIsTree
  <2> QED BY <2>2 DEF UniqueNames
<1>5. ASSUME NEW a \in {n1, Jksv}, NEW b \in {n1, n2}, NEW is \in {"dir", "file"}, NEW c \in {n1, n2}, NEW d \in {1, 2},
             is = "dir" \/ d = 1,
             things = <<Thing("dir", a, Base), Thing(is, b, 1), Thing("file", c, d)>>
      PROVE  /\ TreeInv
             /\ \A n \in Live : /\ n \in {1, 2, 3}
                                /\ n = 1 => drive[n].parent = Base /\ drive[n].is = "dir" /\ drive[n].name = a
                                /\ n = 2 => drive[n].parent = 1 /\ drive[n].is = is /\ drive[n].name = b
                                /\ n = 3 => drive[n].parent = d /\ drive[n].is = "file" /\ drive[n].name = c
  <2>1. PICK x, y, z : x = Thing("dir", a, Base) /\ y = Thing(is, b, 1) /\ z = Thing("file", c, d)
    OBVIOUS
  <2>2. Len(things) = 3 /\ things[1] = x /\ things[2] = y /\ things[3] = z
    BY <1>5, <2>1
  <2>3. /\ x.is = "dir" /\ x.name = a /\ x.parent = Base /\ x = Thing(x.is, x.name, x.parent)
        /\ y.is = is /\ y.name = b /\ y.parent = 1 /\ y = Thing(y.is, y.name, y.parent)
        /\ z.is = "file" /\ z.name = c /\ z.parent = d /\ z = Thing(z.is, z.name, z.parent)
    BY <2>1 DEF Thing
  <2>4. a \in NameOnDrive /\ b \in NameOnDrive /\ c \in NameOnDrive /\ Base = 0
    BY <1>2 DEF Base
  <2>5. \A i \in 1..3 : i = 1 \/ i = 2 \/ i = 3
    OBVIOUS
  <2>6. 1 \in 1..(2 - 1) /\ d \in 1..(3 - 1)
    OBVIOUS
  <2>7. \A i \in 1..Len(things) :
            LET t == things[i]
            IN  /\ t = Thing(t.is, t.name, t.parent) /\ t.is \in {"dir", "file"} /\ t.name \in NameOnDrive
                /\ \/ t.parent = Base /\ t.is = "dir"
                   \/ /\ t.parent \in 1..(i - 1) /\ things[t.parent].is = "dir"
                      /\ things[t.parent].parent = Base \/ t.is = "file"
    BY <1>5, <2>2, <2>3, <2>4, <2>5, <2>6
  <2>8. TreeInv /\ \A n \in Live : n \in 1..Len(things) /\ drive[n] = things[n]
    BY <1>3, <2>2, <2>7, GrownIsTree
  <2> QED BY <2>2, <2>3, <2>5, <2>8
<1>6. CASE kind = "google" /\ things # <<>>
  <2>1. things = <<Thing("dir", Jksv, Base), Thing("dir", n1, 1), Thing("file", n2, 2)>>
    BY <1>3, <1>6
  <2>2. /\ TreeInv
        /\ \A n \in Live : /\ n \in {1, 2, 3}
                           /\ n = 1 => drive[n].parent = Base /\ drive[n].is = "dir" /\ drive[n].name = Jksv
                           /\ n = 2 => drive[n].parent = 1 /\ drive[n].is = "dir" /\ drive[n].name = n1
                           /\ n = 3 => drive[n].parent = 2 /\ drive[n].is = "file" /\ drive[n].name = n2
    BY <1>5, <2>1
  <2>3. \A n \in Live : IsMid(n) => drive[n].parent \in Live
    BY <2>2, Places DEF IsMid
  <2>4. \A n \in Live : IsMid(n) => drive[n].parent = 1
    BY <2>2, <2>3 DEF IsMid, IsTop, Base
  <2>5. \A n \in Live : IsMid(n) /\ drive[n].is = "dir" => drive[n].name = n1 /\ drive[drive[n].parent].name = Jksv
    <3> SUFFICES ASSUME NEW n \in Live, IsMid(n), drive[n].is = "dir" PROVE drive[n].name = n1 /\ drive[drive[n].parent].name = Jksv
      OBVIOUS
    <3>1. n # 1 /\ n # 3
      BY <2>2 DEF IsMid, IsTop
    <3>2. drive[n].parent = 1 /\ 1 \in Live
      BY <2>3, <2>4
    <3> QED BY <2>2, <3>1, <3>2
  <2> QED BY <1>2, <1>6, <2>2, <2>5
<1>7. CASE kind # "google" /\ things # <<>>
  <2>1. CASE things = <<Thing("dir", n1, Base), Thing("file", n1, 1), Thing("file", n2, 1)>>
    <3>1. /\ TreeInv
          /\ \A n \in Live : /\ n \in {1, 2, 3}
                             /\ n = 1 => drive[n].parent = Base
                             /\ n = 2 => drive[n].parent = 1 /\ drive[n].name = n1
                             /\ n = 3 => drive[n].parent = 1 /\ drive[n].name = n2
      BY <1>5, <2>1
    <3> QED BY <1>1, <1>7, <3>1 DEF UniqueNames, Base
  <2>2. CASE things = <<Thing("dir", n1, Base), Thing("dir", n2, 1), Thing("file", n1, 2)>>
    <3>1. /\ TreeInv
          /\ \A n \in Live : /\ n \in {1, 2, 3}
                             /\ n = 1 => drive[n].parent = Base
                             /\ n = 2 => drive[n].parent = 1
                             /\ n = 3 => drive[n].parent = 2
      BY <1>5, <2>2
    <3> QED BY <1>1, <1>7, <3>1 DEF UniqueNames, Base
  <2> QED BY <1>3, <1>7, <2>1, <2>2
<1> QED BY <1>4, <1>6, <1>7

\* The invariant holds when JKSV starts.
LEMMA DriveInit == Init => DriveInv
<1> SUFFICES ASSUME Init PROVE DriveInv
  OBVIOUS
<1>1. /\ kind \in Kinds /\ drive \in Drives /\ list = {} /\ root = IdOf(Base) /\ parent = IdOf(Base) /\ fsIds = <<>>
      /\ state = "off" /\ unsure = FALSE /\ got = <<>>
  BY DEF Init
<1>2. TreeInv /\ PathOf(Base) = <<>>
  BY <1>1, DrivesAreTrees, Paths DEF PathsStep
<1>3. Sound
  BY <1>1, <1>2 DEF Sound, DownloadFetchesListed
<1>4. CASE kind = "google"
  <2>1. root = Base /\ parent = Base
    BY <1>1, <1>4 DEF IdOf
  <2>2. GooglePlaces /\ GoogleList
    BY <1>1, <1>4, <2>1, DrivesAreTrees DEF GooglePlaces, GoogleList
  <2> QED BY <1>1, <1>3, <1>4, <2>2 DEF DriveInv, GoogleSound, GoogleInv
<1>5. CASE kind = "baidu"
  <2>1. root = <<>> /\ parent = <<>>
    BY <1>1, <1>2, <1>5 DEF IdOf
  <2>2. BaiduPlaces /\ BaiduList /\ BaiduNumbers /\ UniqueNames
    BY <1>1, <1>5, <2>1, DrivesAreTrees DEF BaiduPlaces, BaiduList, BaiduNumbers
  <2> QED BY <1>1, <1>3, <1>5, <2>2 DEF DriveInv, BaiduSound, BaiduInv
<1>6. CASE kind = "webdav"
  <2>1. root = <<>> /\ parent = <<>>
    BY <1>1, <1>2, <1>6 DEF IdOf
  <2>2. DavPlaces /\ DavList
    BY <1>1, <2>1 DEF DavPlaces, DavList
  <2> QED BY <1>1, <1>3, <1>6, <2>2 DEF DriveInv, DavSound, DavInv
<1> QED BY <1>1, <1>4, <1>5, <1>6 DEF Kinds

\* Every step keeps the invariant, and none ends a listing that misses what was
\* on the drive when it began.
LEMMA DriveStep ==
  ASSUME DriveInv, [Next]_vars
  PROVE  /\ DriveInv'
         /\ kind # "webdav" /\ state = "reading" /\ state' \in {"ready", "unrooted"}
              => reading.present \subseteq {e.id : e \in list'}
<1>1. CASE GoogleSound
  BY <1>1, GoogleSteps DEF DriveInv
<1>2. CASE BaiduSound
  BY <1>2, BaiduSteps DEF DriveInv
<1>3. CASE DavSound
  BY <1>3, DavSteps DEF DriveInv, DavSound
<1> QED BY <1>1, <1>2, <1>3 DEF DriveInv

\* The invariant holds in every state.
LEMMA DriveInvHolds == Spec => []DriveInv
<1>1. DriveInv /\ [Next]_vars => DriveInv'
  BY DriveStep
<1> QED BY DriveInit, <1>1, PTL DEF Spec

\* What the invariant says of an item that is listed.
LEMMA ListedStands == DriveInv => ListedIsOnDrive
<1> SUFFICES ASSUME DriveInv, state = "ready", ~unsure, NEW e \in list, kind = "webdav" => e.parent = root
             PROVE  IsOnDrive(e)
  BY DEF ListedIsOnDrive
<1>1. CASE GoogleSound
  <2>1. TreeInv /\ GoogleEntry(e) /\ kind = "google"
    BY <1>1 DEF GoogleSound, Sound, GoogleInv, GoogleList
  <2>2. PICK n \in Live : /\ n = e.id /\ drive[n].name = e.name /\ drive[n].parent = e.parent
                          /\ e.dir \in BOOLEAN /\ (e.dir <=> drive[n].is = "dir")
    BY <2>1 DEF GoogleEntry, EntryFields
  <2>3. n # Base /\ drive[n].parent \in Live \cup {Base}
    BY <2>1, Places DEF IsTop
  <2>4. IsDir(n) = e.dir
    BY <2>2, <2>3, Zenon DEF IsDir
  <2>5. n \in Reaches(e.id) \cap Live /\ drive[n].parent \in Reaches(e.parent)
    BY <2>1, <2>2, <2>3 DEF Reaches
  <2> QED BY <2>2, <2>4, <2>5 DEF IsOnDrive
<1>2. CASE BaiduSound
  <2>1. TreeInv /\ UniqueNames /\ kind = "baidu" /\ BaiduEntry(e) /\ Stands(e.id, e.dir)
    BY <1>2 DEF BaiduSound, Sound, BaiduInv, BaiduList
  <2>2. PICK n \in Live : PathOf(n) = e.id /\ (e.dir <=> drive[n].is = "dir")
    BY <2>1 DEF Stands
  <2>3. PICK d \in Live \cup {Base} : /\ drive[n].parent = d /\ PathOf(n) = Append(PathOf(d), drive[n].name)
                                      /\ PathOf(d) \in Seq(NameOnDrive) /\ drive[n].name \in NameOnDrive
    BY <2>1, PathAndParent
  <2>4. PICK p, q, x, y : p = PathOf(d) /\ x = drive[n].name /\ q = e.parent /\ y = e.name
    OBVIOUS
  <2>5. p \in Seq(NameOnDrive) /\ q \in Seq(NameOnDrive) /\ x \in NameOnDrive /\ y \in NameOnDrive
        /\ Append(p, x) = Append(q, y)
    BY <2>1, <2>2, <2>3, <2>4 DEF BaiduEntry
  <2>6. p = q /\ x = y
    BY ONLY <2>5, SameNamed
  <2>7. n \in Reaches(e.id) \cap Live /\ drive[n].parent \in Reaches(e.parent)
    <3>1. Reaches(PathOf(n)) = {n} /\ Reaches(PathOf(d)) = {d}
      BY <2>1, NodeOfPath
    <3> QED BY <2>2, <2>3, <2>4, <2>6, <3>1
  <2>8. IsDir(n) = e.dir
    <3>1. n # Base /\ e.dir \in BOOLEAN
      BY <2>1, Places DEF BaiduEntry, EntryFields
    <3> QED BY <2>2, <3>1, Zenon DEF IsDir
  <2> QED BY <2>4, <2>6, <2>7, <2>8 DEF IsOnDrive
<1>3. CASE DavSound
  <2>1. TreeInv /\ kind = "webdav" /\ DavEntry(e) /\ e.parent = <<>>
        /\ \E n \in Live : IsTop(n) /\ drive[n].name = e.name
    BY <1>3 DEF DavSound, Sound, DavInv, DavPlaces, DavList
  <2>2. e.dir = TRUE /\ Segments(e.id) = <<e.name>>
    <3>1. TitleEntry(e) /\ e.dir \in BOOLEAN
      BY <2>1, OnlyTitles DEF DavEntry, EntryFields
    <3> QED BY <3>1 DEF TitleEntry
  <2>3. PICK n \in Live : IsTop(n) /\ drive[n].name = e.name
    BY <2>1
  <2>4. /\ \A id : Reaches(id) = {m \in Live \cup {Base} : PathOf(m) = Segments(id)}
        /\ PathOf(Base) = <<>> /\ Base \notin Live
    BY <2>1, ReachesPaths
  <2>5. PathOf(n) = <<e.name>> /\ drive[n].is = "dir" /\ drive[n].parent = Base
    BY <2>1, <2>3, ShapesOfPaths, Places DEF PathShapes, IsTop
  <2>6. n \in Reaches(e.id)
    BY <2>2, <2>4, <2>5
  <2>7. Base \in Reaches(<<>>)
    BY <2>4, SegmentsStep
  <2>8. IsDir(n) = e.dir
    BY <2>2, <2>5 DEF IsDir
  <2> QED BY <2>1, <2>3, <2>5, <2>6, <2>7, <2>8 DEF IsOnDrive
<1> QED BY <1>1, <1>2, <1>3 DEF DriveInv

\* As long as every answer arrived, each item of m_list stands for something on
\* the drive under its name and in its directory, for every number of nodes, size
\* of pages, lost answer and upload of the sysmodule: deleteItem, renameItem,
\* uploadFile, patchFile and createDirectory leave the list as a new listing would.
THEOREM ListedIsOnDriveHolds == Spec => []ListedIsOnDrive
BY DriveInvHolds, ListedStands, PTL

\* downloadFile brings the file that was listed: no number that Baidu Netdisk's
\* m_fsIds remembers is one its path no longer stands for, whichever directories
\* were renamed or deleted since it was read.
THEOREM DownloadFetchesListedHolds == Spec => []DownloadFetchesListed
<1>1. DriveInv => DownloadFetchesListed
  BY DEF DriveInv, GoogleSound, BaiduSound, DavSound, Sound
<1> QED BY DriveInvHolds, <1>1, PTL

\* A listing in pages of any size ends with everything that was on the drive when
\* it began, although the sysmodule adds and overwrites files between the pages.
THEOREM ListingMissesNothingHolds == Spec => ListingMissesNothing
<1>1. DriveInv /\ [Next]_vars =>
        [ /\ kind # "webdav" /\ state = "reading" /\ state' \in {"ready", "unrooted"}
          => reading.present \subseteq {e.id : e \in list'}]_vars
  BY DriveStep
<1> QED BY DriveInvHolds, <1>1, PTL DEF Spec, ListingMissesNothing
=============================================================================
