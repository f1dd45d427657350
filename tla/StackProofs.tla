----------------------------- MODULE StackProofs -----------------------------
(***************************************************************************)
(* That a task which is not complete is owned by a state of the stack, and *)
(* that a dialog which asks to hold A is confirmed only after it was shown *)
(* that long: for every set of tasks, number of threads, scaling and time  *)
(* to hold, over every interleaving of the frames, the purges and the      *)
(* pushes of the pool.                                                     *)
(*                                                                         *)
(* The states are followed at their places. A place may be taken by        *)
(* another state only in a purge, when one below it left; that the state   *)
(* which takes the place of a question is not itself a question that was   *)
(* answered follows from StackInv: nothing over a question leads to        *)
(* another. The purge is a recursion over the stack, and what it keeps is  *)
(* shown by the least length for which it would not.                       *)
(***************************************************************************)
EXTENDS StateStack, SequenceTheorems, NaturalsInduction, WellFoundedInduction, TLAPS

\* A sequence, as the function it is.
IsList(q) == Len(q) \in Nat /\ q = [i \in 1..Len(q) |-> q[i]]

\* What appending and replacing do to it.
LEMMA AsFunction ==
  ASSUME NEW q, IsList(q)
  PROVE  /\ DOMAIN q = 1..Len(q)
         /\ \A s : /\ Append(q, s) = [i \in 1..(Len(q) + 1) |-> IF i = Len(q) + 1 THEN s ELSE q[i]]
                   /\ Len(Append(q, s)) = Len(q) + 1
         /\ \A s : /\ [q EXCEPT ![Len(q)] = s] = [i \in 1..Len(q) |-> IF i = Len(q) THEN s ELSE q[i]]
                   /\ Len([q EXCEPT ![Len(q)] = s]) = Len(q)
<1> DEFINE n == Len(q)
<1>1. n \in Nat /\ q \in Seq({q[i] : i \in 1..n}) /\ DOMAIN q = 1..n /\ q = [i \in 1..n |-> q[i]]
  BY DEF IsList
<1>2. ASSUME NEW s
      PROVE  /\ Append(q, s) = [i \in 1..(n + 1) |-> IF i = n + 1 THEN s ELSE q[i]]
             /\ Len(Append(q, s)) = n + 1
  <2> DEFINE X == {q[i] : i \in 1..n} \cup {s}
  <2>1. q \in Seq(X) /\ s \in X
    BY <1>1
  <2> HIDE DEF X
  <2>2. /\ Append(q, s) \in Seq(X) /\ Len(Append(q, s)) = n + 1
        /\ \A i \in 1..n : Append(q, s)[i] = q[i]
        /\ Append(q, s)[n + 1] = s
    BY <2>1, AppendProperties
  <2>3. Append(q, s) = [i \in 1..(n + 1) |-> Append(q, s)[i]]
    <3> DEFINE a == Append(q, s)
    <3>1. a \in Seq(X) /\ Len(a) = n + 1
      BY <2>2
    <3> HIDE DEF a
    <3>2. a = [i \in 1..(n + 1) |-> a[i]]
      BY <3>1
    <3> QED BY <3>2 DEF a
  <2> QED BY <1>1, <2>2, <2>3
<1>3. ASSUME NEW s
      PROVE  /\ [q EXCEPT ![n] = s] = [i \in 1..n |-> IF i = n THEN s ELSE q[i]]
             /\ Len([q EXCEPT ![n] = s]) = n
  <2>1. [q EXCEPT ![n] = s] = [i \in 1..n |-> IF i = n THEN s ELSE q[i]]
    BY <1>1
  <2>2. Len([i \in 1..n |-> IF i = n THEN s ELSE q[i]]) = n
    BY <1>1
  <2> QED BY <2>1, <2>2
<1> QED BY <1>1, <1>2, <1>3

\* A set of numbers that is not empty has a least one.
LEMMA Least ==
  ASSUME NEW T \in SUBSET Nat, T # {}
  PROVE  \E k \in T : \A i \in T : ~(i < k)
<1>1. \A x, y \in Nat : x < y => <<x, y>> \in OpToRel(<, Nat)
  BY DEF OpToRel
<1>2. \E k \in T : \A i \in T : <<i, k>> \notin OpToRel(<, Nat)
  BY NatLessThanWellFounded, WFMin, Zenon
<1> QED BY <1>1, <1>2

\* One state after the other, kept when it is active.
Keep(q, s) == IF s.active THEN Append(q, s) ELSE q
\* f is a run of the purge over the first k states.
IsRun(f, k, q) == f = [i \in 0..k |-> IF i = 0 THEN <<>> ELSE Keep(f[i - 1], q[i])]

\* Such a run exists for every k.
LEMMA RunExists ==
  ASSUME NEW q, NEW k \in Nat
  PROVE  \E f : IsRun(f, k, q)
<1> DEFINE T == {j \in Nat : ~ \E f : IsRun(f, j, q)}
<1> SUFFICES ASSUME T # {} PROVE FALSE
  OBVIOUS
<1>1. PICK j \in T : \A i \in T : ~(i < j)
  BY Least, Zenon
<1>2. j # 0
  <2>1. IsRun([i \in 0..0 |-> <<>>], 0, q)
    BY DEF IsRun
  <2> QED BY <2>1
<1>3. j \in Nat /\ j - 1 \in Nat /\ j - 1 < j
  BY <1>2
<1>4. PICK f : IsRun(f, j - 1, q)
  BY <1>1, <1>3
<1> DEFINE g == [i \in 0..j |-> IF i = j THEN Keep(f[j - 1], q[j]) ELSE f[i]]
<1>5. \A i \in 0..(j - 1) : f[i] = IF i = 0 THEN <<>> ELSE Keep(f[i - 1], q[i])
  BY <1>4 DEF IsRun
<1>6. ASSUME NEW i \in 0..j PROVE g[i] = IF i = 0 THEN <<>> ELSE Keep(g[i - 1], q[i])
  <2>1. CASE i = j
    BY <1>2, <1>3, <2>1
  <2>2. CASE i # j
    BY <1>3, <1>5, <2>2
  <2> QED BY <2>1, <2>2
<1>7. g = [i \in 0..j |-> g[i]]
  OBVIOUS
<1> HIDE DEF g
<1>8. IsRun(g, j, q)
  BY <1>6, <1>7 DEF IsRun
<1> QED BY <1>8

\* The states of r are the active ones of the first k of q, in their order.
Picks(h, r, q, k) ==
    /\ IsList(r) /\ h \in [1..Len(r) -> 1..k]
    /\ \A i, j \in 1..Len(r) : i < j => h[i] < h[j]
    /\ \A i \in 1..Len(r) : r[i] = q[h[i]] /\ r[i].active
    /\ \A j \in 1..k : q[j].active => \E i \in 1..Len(r) : h[i] = j

\* The purge keeps the active states, in their order.
LEMMA ActivePicked ==
  ASSUME NEW q, IsList(q)
  PROVE  \E h : Picks(h, ActiveOf(q), q, Len(q))
<1> DEFINE n == Len(q)
<1>1. n \in Nat
  BY DEF IsList
<1>2. PICK f : IsRun(f, n, q)
  BY <1>1, RunExists
<1> DEFINE r == CHOOSE g : g = [i \in 0..n |->
                    IF i = 0 THEN <<>>
                    ELSE IF q[i].active THEN Append(g[i - 1], q[i]) ELSE g[i - 1]]
<1>3. ActiveOf(q) = r[n]
  BY Zenon DEF ActiveOf
<1>4. IsRun(r, n, q)
  BY <1>2, Zenon DEF IsRun, Keep
<1> HIDE DEF r
<1>5. r[0] = <<>> /\ \A i \in 1..n : r[i] = Keep(r[i - 1], q[i])
  BY <1>1, <1>4 DEF IsRun
<1> DEFINE Ok(i) == \E h : Picks(h, r[i], q, i)
           T == {i \in 0..n : ~Ok(i)}
<1>6. Ok(0)
  <2>1. IsList(<<>>) /\ Len(<<>>) = 0
    BY DEF IsList
  <2>2. Picks(<<>>, <<>>, q, 0)
    BY <2>1 DEF Picks
  <2> QED BY <1>5, <2>2
<1>7. ASSUME NEW i \in 1..n, Ok(i - 1) PROVE Ok(i)
  <2> DEFINE a == r[i - 1]
  <2>1. PICK h : Picks(h, a, q, i - 1)
    BY <1>7
  <2>2. r[i] = Keep(a, q[i]) /\ i \in Nat /\ i - 1 \in Nat
    BY <1>1, <1>5
  <2> HIDE DEF a
  <2>3. CASE ~q[i].active
    <3>1. r[i] = a
      BY <2>2, <2>3 DEF Keep
    <3>2. Picks(h, a, q, i)
      BY <2>1, <2>2, <2>3 DEF Picks
    <3> QED BY <3>1, <3>2
  <2>4. CASE q[i].active
    <3> DEFINE m == Len(a)
               b == Append(a, q[i])
               g == [j \in 1..(m + 1) |-> IF j = m + 1 THEN i ELSE h[j]]
    <3>1. IsList(a) /\ m \in Nat
      BY <2>1 DEF Picks, IsList
    <3>2. b = [j \in 1..(m + 1) |-> IF j = m + 1 THEN q[i] ELSE a[j]] /\ Len(b) = m + 1
      BY <3>1, AsFunction
    <3>3. r[i] = b
      BY <2>2, <2>4 DEF Keep
    <3> HIDE DEF b
    <3>4. b[m + 1] = q[i] /\ \A j \in 1..m : b[j] = a[j] /\ j # m + 1
      BY <3>1, <3>2
    <3>5. IsList(b)
      BY <3>1, <3>2 DEF IsList
    <3>6. g[m + 1] = i /\ \A j \in 1..m : g[j] = h[j]
      BY <3>1
    <3>7. g \in [1..(m + 1) -> 1..i]
      BY <2>1, <2>2, <3>1 DEF Picks
    <3> HIDE DEF g, m
    <3>8. \A j \in 1..m : h[j] \in 1..(i - 1)
      BY <2>1 DEF Picks, m
    <3>9. \A j, k \in 1..(m + 1) : j < k => g[j] < g[k]
      <4> SUFFICES ASSUME NEW j \in 1..(m + 1), NEW k \in 1..(m + 1), j < k PROVE g[j] < g[k]
        OBVIOUS
      <4>1. CASE k = m + 1
        <5>1. j \in 1..m
          BY <3>1, <4>1
        <5> QED BY <2>2, <3>6, <3>8, <4>1, <5>1
      <4>2. CASE k # m + 1
        <5>1. j \in 1..m /\ k \in 1..m
          BY <3>1, <4>2
        <5> QED BY <2>1, <3>6, <5>1 DEF Picks, m
      <4> QED BY <4>1, <4>2
    <3>10. \A j \in 1..(m + 1) : b[j] = q[g[j]] /\ b[j].active
      <4> SUFFICES ASSUME NEW j \in 1..(m + 1) PROVE b[j] = q[g[j]] /\ b[j].active
        OBVIOUS
      <4>1. CASE j = m + 1
        BY <2>4, <3>4, <3>6, <4>1
      <4>2. CASE j # m + 1
        <5>1. j \in 1..m
          BY <3>1, <4>2
        <5> QED BY <2>1, <3>4, <3>6, <5>1 DEF Picks, m
      <4> QED BY <4>1, <4>2
    <3>11. \A j \in 1..i : q[j].active => \E k \in 1..(m + 1) : g[k] = j
      <4> SUFFICES ASSUME NEW j \in 1..i, q[j].active PROVE \E k \in 1..(m + 1) : g[k] = j
        OBVIOUS
      <4>1. CASE j = i
        <5>1. m + 1 \in 1..(m + 1)
          BY <3>1
        <5> QED BY <3>6, <4>1, <5>1
      <4>2. CASE j # i
        <5>1. j \in 1..(i - 1)
          BY <2>2, <4>2
        <5>2. PICK k \in 1..m : h[k] = j
          BY <2>1, <5>1 DEF Picks, m
        <5>3. k \in 1..(m + 1)
          BY <3>1
        <5> QED BY <3>6, <5>2, <5>3
      <4> QED BY <4>1, <4>2
    <3>12. Picks(g, b, q, i)
      BY <3>2, <3>5, <3>7, <3>9, <3>10, <3>11 DEF Picks
    <3> QED BY <3>3, <3>12
  <2> QED BY <2>3, <2>4
<1> HIDE DEF Ok
<1>8. T = {}
  <2> SUFFICES ASSUME T # {} PROVE FALSE
    OBVIOUS
  <2>1. PICK j \in T : \A i \in T : ~(i < j)
    <3>1. T \in SUBSET Nat
      BY <1>1
    <3> QED BY <3>1, Least, Zenon
  <2>2. j \in 1..n /\ j - 1 \in 0..n /\ j - 1 < j /\ ~Ok(j)
    BY <1>1, <1>6, <2>1
  <2>3. Ok(j - 1)
    BY <2>1, <2>2
  <2> QED BY <1>7, <2>2, <2>3
<1>9. n \in 0..n
  BY <1>1
<1>10. Ok(n)
  BY <1>8, <1>9
<1> QED BY <1>3, <1>10 DEF Ok

\* A state does not move up.
LEMMA MovesDown ==
  ASSUME NEW h, NEW m \in Nat, NEW k \in Nat, h \in [1..m -> 1..k],
         \A i, j \in 1..m : i < j => h[i] < h[j]
  PROVE  \A i \in 1..m : i <= h[i]
<1> DEFINE T == {i \in 1..m : ~(i <= h[i])}
<1> SUFFICES ASSUME T # {} PROVE FALSE
  OBVIOUS
<1>1. PICK j \in T : \A i \in T : ~(i < j)
  <2>1. T \in SUBSET Nat
    OBVIOUS
  <2> QED BY <2>1, Least, Zenon
<1>2. j \in 1..m /\ h[j] \in 1..k /\ h[j] < j
  BY <1>1
<1>3. j # 1 /\ j - 1 \in 1..m /\ j - 1 < j
  BY <1>2
<1>4. j - 1 <= h[j - 1] /\ h[j - 1] < h[j] /\ h[j - 1] \in 1..k
  BY <1>1, <1>3
<1> QED BY <1>2, <1>3, <1>4

\* A state is a record of these fields at least.
Fields(s) == s = [x \in DOMAIN s |-> s[x]] /\ {"kind", "active", "focus"} \subseteq DOMAIN s

\* The fields of a dialog that asks.
ConfirmFields == {"phase", "hold", "guard", "since", "shown", "confirmed"}
\* A dialog that asks knows how long A was held no longer than it is shown.
Asked(s) == s.kind = "confirm" =>
    /\ ConfirmFields \subseteq DOMAIN s /\ s.since \in Nat /\ s.shown \in Nat
    /\ s.phase = "opening" => ~s.guard
    /\ s.phase = "displaying" /\ s.guard /\ s.hold => s.since <= s.shown

\* What the other states keep.
Dialog(s) ==
    /\ s.kind \in {"task", "loading", "progress"} => "task" \in DOMAIN s
    /\ s.kind \in {"fade", "loading"} => "next" \in DOMAIN s
    /\ s.kind = "progress" => "phase" \in DOMAIN s

\* A state another one shows when it leaves: it holds none itself.
Inner(s) == Fields(s) /\ Asked(s) /\ Dialog(s) /\ s.active /\ s.kind \notin {"fade", "loading"}

\* A state as the code makes it.
Good(s) ==
    /\ Fields(s) /\ Asked(s) /\ Dialog(s)
    /\ s.kind \in {"fade", "loading"} => s.next = <<>> \/ \E x : s.next = <<x>> /\ Inner(x)

\* The task a state waits for.
RunsItself(s) == s.kind = "task" \/ (s.kind = "progress" /\ s.phase = "running")

\* The task a state, or the one it leads to, waits for.
Runs(s, t) ==
    \/ RunsItself(s) /\ t = s.task
    \/ s.kind = "loading" /\ t = s.task
    \/ s.kind = "fade" /\ s.next # <<>> /\ RunsItself(s.next[1]) /\ t = s.next[1].task
\* A dialog that asks, or a fade to one.
Asks(s) == s.kind = "confirm" \/ (s.kind = "fade" /\ s.active /\ s.next # <<>> /\ s.next[1].kind = "confirm")
\* A state the user can ask a question from, or a question.
Leads(s) == s.kind \in {"menu", "screen", "confirm"}

\* The same, or a fade or the loading of the data that leads to one.
Opens(s) ==
    \/ Leads(s)
    \/ s.kind = "fade" /\ s.active /\ s.next # <<>> /\ Leads(s.next[1])
    \/ s.kind = "loading" /\ s.active /\ s.next # <<>>

\* Over a question there is nothing a question could be asked from: so a dialog
\* is never replaced by another one at its place.
StackInv ==
    /\ IsList(stack)
    /\ \A i \in 1..Len(stack) : Good(stack[i])
    /\ step # "purge" => \A i \in 1..Len(stack) : stack[i].active
    /\ \A i, j \in 1..Len(stack) : i < j /\ Asks(stack[i]) => ~Opens(stack[j])
    /\ step = "launch" => \A i \in 1..Len(stack) : ~Asks(stack[i])

\* The state of a sign in leads to no question.
PushInv == pushing = <<>> \/ \E x : pushing = <<x>> /\ Good(x) /\ x.active /\ ~Opens(x) /\ ~Asks(x)

\* A task that is not complete has a state that waits for it.
BusyInv == \A t \in busy :
    \/ \E i \in 1..Len(stack) : stack[i].active /\ Runs(stack[i], t)
    \/ pushing # <<>> /\ Runs(pushing[1], t)

\* The inductive invariant.
StackIInv == StackInv /\ PushInv /\ BusyInv

\* The states as they are made.
LEMMA NewStates ==
  /\ Inner(Screen) /\ Screen.kind = "screen"
  /\ Inner(MainMenu) /\ MainMenu.kind = "menu"
  /\ Inner(Progress) /\ Inner(Restore)
  /\ Inner(Message) /\ Message.kind = "message"
  /\ \A t : Inner(TaskState(t)) /\ TaskState(t).kind = "task" /\ TaskState(t).task = t
<1>1. Inner(Screen) /\ Screen.kind = "screen"
  BY DEF Screen, State, None, Inner, Fields, Asked, Dialog
<1>2. Inner(MainMenu) /\ MainMenu.kind = "menu"
  BY DEF MainMenu, State, None, Inner, Fields, Asked, Dialog
<1>3. ASSUME NEW restores PROVE Inner(Progressing(restores))
  BY DEF Progressing, State, Inner, Fields, Asked, Dialog
<1>4. Inner(Message) /\ Message.kind = "message"
  BY DEF Message, State, Inner, Fields, Asked, Dialog
<1>5. ASSUME NEW t PROVE Inner(TaskState(t)) /\ TaskState(t).kind = "task" /\ TaskState(t).task = t
  BY DEF TaskState, State, Inner, Fields, Asked, Dialog
<1> QED BY <1>1, <1>2, <1>3, <1>4, <1>5 DEF Progress, Restore

\* A dialog, as it is made, has not been answered.
LEMMA NewConfirm ==
  ASSUME NEW hold, NEW spawns
  PROVE  Inner(Confirm(hold, spawns)) /\ Confirm(hold, spawns).kind = "confirm"
BY StackAssumption DEF Confirm, State, Inner, Fields, Asked, Dialog, ConfirmFields

\* A state that holds none is a state.
LEMMA InnerGood ==
  ASSUME NEW x, Inner(x)
  PROVE  Good(x) /\ (Opens(x) <=> Leads(x)) /\ (Asks(x) <=> x.kind = "confirm")
BY DEF Inner, Good, Opens, Asks, Leads

\* A fade opens, asks and runs what it leads to.
LEMMA NewFade ==
  ASSUME NEW a, NEW b
  PROVE  /\ \A x : Inner(x) =>
              LET f == Fade(a, b, <<x>>)
              IN  /\ Good(f) /\ f.active /\ f.kind = "fade" /\ f.next = <<x>>
                  /\ Opens(f) <=> Leads(x)
                  /\ Asks(f) <=> x.kind = "confirm"
                  /\ \A t : RunsItself(x) /\ t = x.task => Runs(f, t)
         /\ LET f == Fade(a, b, <<>>)
            IN  Good(f) /\ f.active /\ f.kind = "fade" /\ f.next = <<>> /\ ~Opens(f) /\ ~Asks(f)
<1>1. ASSUME NEW n
      PROVE  LET f == Fade(a, b, n)
             IN  f.kind = "fade" /\ f.active /\ f.next = n /\ Fields(f) /\ Dialog(f)
  BY DEF Fade, State, Fields, Dialog
<1> DEFINE f(n) == Fade(a, b, n)
<1>2. \A n : f(n).kind = "fade" /\ f(n).active /\ f(n).next = n /\ Fields(f(n)) /\ Dialog(f(n))
  BY <1>1
<1> HIDE DEF f
<1>3. \A x : <<x>> # <<>> /\ <<x>>[1] = x
  OBVIOUS
<1>4. ASSUME NEW x, Inner(x)
      PROVE  /\ Good(f(<<x>>)) /\ (Opens(f(<<x>>)) <=> Leads(x))
             /\ Asks(f(<<x>>)) <=> x.kind = "confirm"
             /\ \A t : RunsItself(x) /\ t = x.task => Runs(f(<<x>>), t)
  <2> DEFINE g == f(<<x>>)
  <2>1. g.kind = "fade" /\ g.active /\ g.next = <<x>> /\ Fields(g) /\ Dialog(g)
        /\ g.next # <<>> /\ g.next[1] = x
    BY <1>2, <1>3
  <2> HIDE DEF g
  <2>2. Good(g)
    BY <1>4, <2>1 DEF Good, Asked, Dialog
  <2>3. Opens(g) <=> Leads(x)
    BY <2>1 DEF Opens, Leads
  <2>4. Asks(g) <=> x.kind = "confirm"
    BY <2>1 DEF Asks
  <2>5. \A t : RunsItself(x) /\ t = x.task => Runs(g, t)
    BY <2>1 DEF Runs
  <2> QED BY <2>2, <2>3, <2>4, <2>5 DEF g
<1>5. Good(f(<<>>)) /\ ~Opens(f(<<>>)) /\ ~Asks(f(<<>>))
  BY <1>2 DEF Good, Asked, Dialog, Opens, Asks, Leads
<1> QED BY <1>2, <1>4, <1>5 DEF f

\* A fade to a state.
LEMMA FadesTo ==
  ASSUME NEW x, Inner(x)
  PROVE  LET f == FadeTo(x)
         IN  /\ Good(f) /\ f.active /\ (Opens(f) <=> Leads(x)) /\ (Asks(f) <=> x.kind = "confirm")
             /\ \A t : RunsItself(x) /\ t = x.task => Runs(f, t)
<1>1. FadeTo(x) = Fade(0, 128, <<x>>)
  BY DEF FadeTo
<1> DEFINE f == FadeTo(x)
           zero == 0
           full == 128
           k == Fade(zero, full, <<x>>)
<1> HIDE DEF f, zero, full
<1>2. /\ Good(k) /\ k.active /\ (Opens(k) <=> Leads(x)) /\ (Asks(k) <=> x.kind = "confirm")
      /\ \A t : RunsItself(x) /\ t = x.task => Runs(k, t)
  <2>1. \A y : Inner(y) =>
              LET g == Fade(zero, full, <<y>>)
              IN  /\ Good(g) /\ g.active /\ g.kind = "fade" /\ g.next = <<y>>
                  /\ Opens(g) <=> Leads(y)
                  /\ Asks(g) <=> y.kind = "confirm"
                  /\ \A t : RunsItself(y) /\ t = y.task => Runs(g, t)
    BY NewFade, Zenon
  <2> QED BY <2>1, Zenon
<1>3. f = k
  BY <1>1 DEF f, zero, full
<1> HIDE DEF k
<1>4. /\ Good(f) /\ f.active /\ (Opens(f) <=> Leads(x)) /\ (Asks(f) <=> x.kind = "confirm")
      /\ \A t : RunsItself(x) /\ t = x.task => Runs(f, t)
  BY <1>2, <1>3
<1> QED BY <1>4 DEF f

\* The loading of data runs its task.
LEMMA NewLoading ==
  ASSUME NEW t, NEW n, n = <<>> \/ \E x : n = <<x>> /\ Inner(x)
  PROVE  LET s == Loading(t, n)
         IN  /\ Good(s) /\ s.active /\ s.kind = "loading" /\ s.next = n
             /\ ~Asks(s) /\ Runs(s, t) /\ (n = <<>> => ~Opens(s))
<1>1. LET s == Loading(t, n)
      IN  /\ s.kind = "loading" /\ s.active /\ s.next = n /\ s.task = t
          /\ Fields(s) /\ Dialog(s)
  BY DEF Loading, State, Fields, Dialog
<1> QED BY <1>1 DEF Good, Asked, Dialog, Opens, Asks, Leads, Runs, RunsItself

\* r is s but for its focus, its ticks and having left.
Alike(s, r) ==
    /\ Fields(s) /\ Fields(r) /\ DOMAIN r = DOMAIN s /\ (r.active => s.active)
    /\ \A x \in DOMAIN s : x \notin {"focus", "active", "since", "shown", "alpha", "size"} => r[x] = s[x]

\* Such a state asks, opens and runs no more than before.
LEMMA AlikeMeans ==
  ASSUME NEW s, NEW r, Good(s), Alike(s, r), Asked(r)
  PROVE  /\ Good(r) /\ r.kind = s.kind
         /\ Asks(r) => Asks(s)
         /\ Opens(r) => Opens(s)
         /\ \A t : Runs(r, t) <=> Runs(s, t)
         /\ s.kind = "confirm" => r.hold = s.hold /\ r.confirmed = s.confirmed
<1>1. r.kind = s.kind
  BY DEF Alike, Fields
<1>2. s.kind = "confirm" => r.hold = s.hold /\ r.confirmed = s.confirmed
  BY DEF Alike, Good, Asked, ConfirmFields
<1>3. /\ s.kind \in {"task", "loading", "progress"} => r.task = s.task
      /\ s.kind \in {"fade", "loading"} => r.next = s.next
      /\ s.kind = "progress" => r.phase = s.phase
  BY DEF Alike, Good, Dialog
<1>4. Good(r)
  BY <1>1, <1>3 DEF Alike, Good, Dialog
<1>5. Asks(r) => Asks(s)
  BY <1>1, <1>3 DEF Alike, Asks
<1>6. Opens(r) => Opens(s)
  BY <1>1, <1>3 DEF Alike, Opens, Leads
<1>7. \A t : Runs(r, t) <=> Runs(s, t)
  BY <1>1, <1>3 DEF Runs, RunsItself
<1> QED BY <1>1, <1>2, <1>4, <1>5, <1>6, <1>7

\* The focus, and having left, are such changes.
LEMMA Focuses ==
  ASSUME NEW s, Good(s)
  PROVE  /\ \A b : Alike(s, [s EXCEPT !.focus = b]) /\ Asked([s EXCEPT !.focus = b])
                  /\ [s EXCEPT !.focus = b].active = s.active
         /\ Alike(s, [s EXCEPT !.active = FALSE]) /\ Asked([s EXCEPT !.active = FALSE])
         /\ ~[s EXCEPT !.active = FALSE].active
BY DEF Alike, Good, Fields, Asked, ConfirmFields

\* So are the ticks of a frame.
LEMMA Ticking ==
  ASSUME NEW s, Good(s)
  PROVE  Alike(s, Ticked(s)) /\ Asked(Ticked(s)) /\ Ticked(s).active = s.active
<1>1. CASE s.kind # "confirm"
  BY <1>1 DEF Ticked, Good, Fields, Alike
<1>2. CASE s.kind = "confirm"
  <2> DEFINE r == [s EXCEPT !.since = Capped(@),
                            !.shown = IF s.phase = "displaying" THEN Capped(@) ELSE @]
  <2>1. Ticked(s) = r
    BY <1>2 DEF Ticked
  <2>2. /\ ConfirmFields \subseteq DOMAIN s /\ s.since \in Nat /\ s.shown \in Nat
        /\ s.phase = "opening" => ~s.guard
        /\ s.phase = "displaying" /\ s.guard /\ s.hold => s.since <= s.shown
    BY <1>2 DEF Good, Asked
  <2>3. \A n \in Nat : Capped(n) \in Nat /\ \A m \in Nat : m <= n => Capped(m) <= Capped(n)
    BY StackAssumption DEF Capped
  <2>4. /\ Fields(r) /\ DOMAIN r = DOMAIN s
        /\ \A x \in DOMAIN s : x \notin {"since", "shown"} => r[x] = s[x]
    BY DEF Good, Fields
  <2>5. /\ r.since = Capped(s.since)
        /\ r.shown = IF s.phase = "displaying" THEN Capped(s.shown) ELSE s.shown
    BY <2>2 DEF ConfirmFields
  <2>6. /\ r.phase = s.phase /\ r.guard = s.guard /\ r.hold = s.hold /\ r.kind = s.kind
        /\ r.active = s.active
    BY <2>2, <2>4 DEF ConfirmFields, Good, Fields
  <2> HIDE DEF r
  <2>7. Asked(r)
    BY <2>2, <2>3, <2>4, <2>5, <2>6 DEF Asked
  <2>8. Alike(s, r)
    BY <2>4, <2>6 DEF Good, Alike
  <2> QED BY <2>1, <2>6, <2>7, <2>8
<1> QED BY <1>1, <1>2

\* What a step may do to a state that stays at its place.
Confirms(s, r) == s.kind = "confirm" /\ s.hold /\ ~s.confirmed /\ r.confirmed

\* A state at its place asks and opens no more than before, keeps what it runs,
\* and is confirmed only after it was shown long enough.
Follows(s, r) ==
    /\ Good(r) /\ r.kind = s.kind /\ (Asks(r) => Asks(s)) /\ (Opens(r) => Opens(s))
    /\ r.active => \A t \in busy' : Runs(s, t) => Runs(r, t)
    /\ Confirms(s, r) => r.shown >= HoldTicks /\ aDown'

\* The body of HoldTakesTime.
HoldStep ==
    \A i \in DOMAIN stack : i \in DOMAIN stack' /\ stack[i].kind = "confirm"
            /\ stack'[i].kind = "confirm" /\ stack'[i].confirmed /\ ~stack[i].confirmed
            /\ stack[i].hold
        => stack'[i].shown >= HoldTicks /\ aDown'

\* A state that differs in nothing else follows.
LEMMA AlikeFollows ==
  ASSUME NEW s, NEW r, Good(s), Alike(s, r), Asked(r)
  PROVE  Follows(s, r)
BY AlikeMeans DEF Follows, Confirms

\* The stack stays or grows by one state.
LEMMA Grows ==
  ASSUME StackIInv, NEW n \in Nat, n = Len(stack), NEW q, q = stack', IsList(q),
         Len(q) \in {n, n + 1}, PushInv',
         \A i \in 1..n : Follows(stack[i], q[i]),
         Len(q) = n + 1 => /\ Good(q[n + 1]) /\ q[n + 1].active
                           /\ Opens(q[n + 1]) => \A i \in 1..n : ~Asks(q[i])
                           /\ step' = "launch" => ~Asks(q[n + 1]),
         step' = "launch" => step = "launch",
         step' # "purge" => \A i \in 1..n : q[i].active,
         \A t \in busy' :
            IF t \in busy
            THEN /\ \A i \in 1..n : ~q[i].active /\ stack[i].active /\ Runs(stack[i], t)
                                        => Len(q) = n + 1 /\ Runs(q[n + 1], t)
                 /\ pushing # <<>> /\ Runs(pushing[1], t) =>
                       \/ pushing' # <<>> /\ Runs(pushing'[1], t)
                       \/ Len(q) = n + 1 /\ Runs(q[n + 1], t)
            ELSE \/ \E i \in 1..Len(q) : q[i].active /\ Runs(q[i], t)
                 \/ pushing' # <<>> /\ Runs(pushing'[1], t)
  PROVE  StackIInv' /\ HoldStep
<1>1. /\ \A i \in 1..n : Good(stack[i])
      /\ \A i, j \in 1..n : i < j /\ Asks(stack[i]) => ~Opens(stack[j])
      /\ step = "launch" => \A i \in 1..n : ~Asks(stack[i])
  BY DEF StackIInv, StackInv
<1>2. \A i \in 1..Len(q) : i \in 1..n \/ (i = n + 1 /\ Len(q) = n + 1)
  OBVIOUS
<1>3. \A i \in 1..Len(q) : Good(q[i]) /\ (step' # "purge" => q[i].active)
  BY <1>2 DEF Follows
<1>4. \A i, j \in 1..Len(q) : i < j /\ Asks(q[i]) => ~Opens(q[j])
  <2> SUFFICES ASSUME NEW i \in 1..Len(q), NEW j \in 1..Len(q), i < j, Asks(q[i]), Opens(q[j]) PROVE FALSE
    OBVIOUS
  <2>1. i \in 1..n
    BY <1>2
  <2>2. CASE j \in 1..n
    BY <1>1, <2>1, <2>2 DEF Follows
  <2>3. CASE j = n + 1 /\ Len(q) = n + 1
    BY <2>1, <2>3
  <2> QED BY <1>2, <2>2, <2>3
<1>5. step' = "launch" => \A i \in 1..Len(q) : ~Asks(q[i])
  BY <1>1, <1>2 DEF Follows
<1>6. StackInv'
  BY <1>3, <1>4, <1>5 DEF StackInv
<1>7. ASSUME NEW t \in busy'
      PROVE  \/ \E i \in 1..Len(q) : q[i].active /\ Runs(q[i], t)
             \/ pushing' # <<>> /\ Runs(pushing'[1], t)
  <2>1. CASE t \notin busy
    BY <1>7, <2>1
  <2>2. CASE t \in busy
    <3>1. CASE Len(q) = n + 1 /\ Runs(q[n + 1], t)
      <4>1. n + 1 \in 1..Len(q)
        BY <3>1
      <4> QED BY <3>1, <4>1
    <3>2. CASE pushing # <<>> /\ Runs(pushing[1], t)
      BY <1>7, <2>2, <3>1, <3>2
    <3>3. ASSUME NEW i \in 1..n, stack[i].active /\ Runs(stack[i], t)
          PROVE  \/ \E k \in 1..Len(q) : q[k].active /\ Runs(q[k], t)
                 \/ Len(q) = n + 1 /\ Runs(q[n + 1], t)
      <4>1. i \in 1..Len(q)
        OBVIOUS
      <4>2. CASE q[i].active
        BY <3>3, <4>1, <4>2 DEF Follows
      <4>3. CASE ~q[i].active
        BY <1>7, <2>2, <3>3, <4>3
      <4> QED BY <4>2, <4>3
    <3> QED BY <2>2, <3>1, <3>2, <3>3 DEF StackIInv, BusyInv
  <2> QED BY <2>1, <2>2
<1>8. BusyInv'
  BY <1>7 DEF BusyInv
<1>9. HoldStep
  <2>1. DOMAIN stack = 1..n
    BY AsFunction DEF StackIInv, StackInv
  <2> QED BY <2>1 DEF HoldStep, Follows, Confirms
<1> QED BY <1>6, <1>8, <1>9 DEF StackIInv

\* The frame's ticks.
LEMMA TicksAre ==
  ASSUME StackInv
  PROVE  /\ IsList(Ticks) /\ Len(Ticks) = Len(stack) /\ Len(stack) \in Nat
         /\ \A i \in 1..Len(stack) : Ticks[i] = Ticked(stack[i])
         /\ Back = Ticks[Len(stack)]
         /\ stack # <<>> => Len(stack) # 0
<1>1. IsList(stack) /\ DOMAIN stack = 1..Len(stack)
  BY AsFunction DEF StackInv
<1>2. Len(stack) \in Nat
  BY <1>1 DEF IsList
<1>3. Ticks = [i \in 1..Len(stack) |-> Ticked(stack[i])]
  BY <1>1 DEF Ticks
<1>4. Len(Ticks) = Len(stack) /\ \A i \in 1..Len(stack) : Ticks[i] = Ticked(stack[i])
  BY <1>2, <1>3
<1>5. IsList(Ticks)
  <2>1. Ticks = [i \in 1..Len(stack) |-> Ticks[i]]
    BY <1>3, <1>4
  <2> QED BY <1>2, <1>4, <2>1 DEF IsList
<1>6. stack # <<>> => Len(stack) # 0
  <2>1. ASSUME Len(stack) = 0 PROVE stack = <<>>
    <3>1. stack = [i \in 1..0 |-> stack[i]]
      BY <1>1, <2>1 DEF IsList
    <3> QED BY <3>1
  <2> QED BY <2>1
<1> QED BY <1>2, <1>4, <1>5, <1>6 DEF Back, Last

\* What the updates make of the stack.
At(n, r, top) ==
    /\ IsList(stack') /\ \A i \in 1..(n - 1) : stack'[i] = Ticks[i]
    /\ stack'[n] = r
    /\ IF top = <<>> THEN Len(stack') = n
       ELSE Len(stack') = n + 1 /\ stack'[n + 1] = [top[1] EXCEPT !.focus = TRUE]

\* The five ways in which an update ends.
LEMMA Shapes ==
  ASSUME StackInv, stack # None, NEW n, n = Len(stack)
  PROVE  /\ \A s : Becomes(s) => At(n, s, <<>>)
         /\ Stays => At(n, Back, <<>>)
         /\ Leaves => At(n, [Back EXCEPT !.active = FALSE], <<>>)
         /\ \A x : Shows(x) => At(n, [Back EXCEPT !.focus = FALSE], <<x>>)
         /\ \A x : LeavesTo(x) => At(n, [[Back EXCEPT !.focus = FALSE] EXCEPT !.active = FALSE], <<x>>)
<1>1. /\ IsList(Ticks) /\ Len(Ticks) = n /\ n \in Nat /\ n # 0 /\ Back = Ticks[n]
  BY TicksAre DEF None
<1> DEFINE k == Ticks
           b == Back
<1> HIDE DEF k, b
<1>2. IsList(k) /\ Len(k) = n /\ b = k[n] /\ DOMAIN k = 1..n /\ k = [i \in 1..n |-> k[i]]
  BY <1>1, AsFunction DEF k, b, IsList
<1>3. \A s : LET q == [k EXCEPT ![n] = s]
             IN  /\ q = [i \in 1..n |-> IF i = n THEN s ELSE k[i]] /\ Len(q) = n
                 /\ IsList(q) /\ q[n] = s /\ \A i \in 1..(n - 1) : q[i] = k[i]
  <2> TAKE s
  <2> DEFINE q == [k EXCEPT ![n] = s]
  <2>1. q = [i \in 1..n |-> IF i = n THEN s ELSE k[i]] /\ Len(q) = n
    BY <1>2, AsFunction
  <2> HIDE DEF q
  <2>2. IsList(q)
    BY <1>1, <2>1 DEF IsList
  <2>3. q[n] = s /\ \A i \in 1..(n - 1) : q[i] = k[i]
    BY <1>1, <2>1
  <2> QED BY <2>1, <2>2, <2>3 DEF q
<1>4. ASSUME NEW s, Becomes(s) PROVE At(n, s, <<>>)
  <2>1. stack' = [k EXCEPT ![n] = s]
    BY <1>4 DEF Becomes, k
  <2> QED BY <1>3, <2>1 DEF At, k
<1>5. ASSUME Stays PROVE At(n, b, <<>>)
  BY <1>1, <1>5 DEF Stays, At, b
<1>6. ASSUME Leaves PROVE At(n, [b EXCEPT !.active = FALSE], <<>>)
  <2>1. stack' = [k EXCEPT ![n] = [k[n] EXCEPT !.active = FALSE]]
    BY <1>2, <1>6 DEF Leaves, k
  <2> QED BY <1>2, <1>3, <2>1 DEF At, k
<1>7. \A x : LET r == Push(k, x)
             IN  /\ IsList(r) /\ Len(r) = n + 1 /\ r[n + 1] = [x EXCEPT !.focus = TRUE]
                 /\ r[n] = [b EXCEPT !.focus = FALSE] /\ \A i \in 1..(n - 1) : r[i] = k[i]
                 /\ r = [i \in 1..(n + 1) |-> r[i]]
  <2> TAKE x
  <2> DEFINE r == Push(k, x)
             q == [k EXCEPT ![n] = [k[n] EXCEPT !.focus = FALSE]]
             y == [x EXCEPT !.focus = TRUE]
  <2>1. k # <<>>
    BY <1>1, <1>2
  <2>2. r = Append(q, y)
    BY <1>2, <2>1 DEF Push
  <2>3. IsList(q) /\ Len(q) = n /\ q[n] = [b EXCEPT !.focus = FALSE] /\ \A i \in 1..(n - 1) : q[i] = k[i]
    BY <1>2, <1>3
  <2> HIDE DEF q, y
  <2>4. r = [i \in 1..(n + 1) |-> IF i = n + 1 THEN y ELSE q[i]] /\ Len(r) = n + 1
    BY <2>2, <2>3, AsFunction
  <2> HIDE DEF r
  <2>5. r = [i \in 1..(n + 1) |-> r[i]] /\ r[n + 1] = y /\ \A i \in 1..n : r[i] = q[i]
    BY <1>1, <2>4
  <2>6. IsList(r)
    BY <1>1, <2>4, <2>5 DEF IsList
  <2> QED BY <1>1, <2>3, <2>4, <2>5, <2>6 DEF r, y
<1>8. ASSUME NEW x, Shows(x) PROVE At(n, [b EXCEPT !.focus = FALSE], <<x>>)
  <2>1. stack' = Push(k, x)
    BY <1>8 DEF Shows, k
  <2> QED BY <1>7, <2>1 DEF At, k
<1>9. ASSUME NEW x, LeavesTo(x)
      PROVE  At(n, [[b EXCEPT !.focus = FALSE] EXCEPT !.active = FALSE], <<x>>)
  <2> DEFINE r == Push(k, x)
             z == [[b EXCEPT !.focus = FALSE] EXCEPT !.active = FALSE]
  <2>1. stack' = [r EXCEPT ![n].active = FALSE]
    BY <1>9 DEF LeavesTo, k
  <2>2. /\ IsList(r) /\ Len(r) = n + 1 /\ r[n + 1] = [x EXCEPT !.focus = TRUE]
        /\ r[n] = [b EXCEPT !.focus = FALSE] /\ \A i \in 1..(n - 1) : r[i] = k[i]
        /\ r = [i \in 1..(n + 1) |-> r[i]]
    BY <1>7
  <2> HIDE DEF r
  <2>3. stack' = [i \in 1..(n + 1) |-> IF i = n THEN z ELSE r[i]]
    BY <1>1, <2>1, <2>2
  <2> HIDE DEF z
  <2>4. Len(stack') = n + 1 /\ stack'[n] = z /\ stack'[n + 1] = r[n + 1]
        /\ (\A i \in 1..(n - 1) : stack'[i] = r[i]) /\ stack' = [i \in 1..(n + 1) |-> stack'[i]]
    BY <1>1, <2>3
  <2>5. IsList(stack')
    BY <1>1, <2>4 DEF IsList
  <2> QED BY <2>2, <2>4, <2>5 DEF At, k, z
<1> QED BY <1>4, <1>5, <1>6, <1>8, <1>9 DEF b

\* A frame changes the last state, and may push another over it.
LEMMA FrameGrows ==
  ASSUME StackIInv, step = "frame", step' = "purge", stack # None, UNCHANGED pushing,
         NEW n, n = Len(stack), NEW r, NEW top, At(n, r, top), Follows(Back, r),
         top = <<>> \/ \E x : /\ top = <<x>> /\ Good(x) /\ x.active
                              /\ Opens(x) => Opens(Back) /\ ~Asks(r),
         \A t \in busy' :
            IF t \in busy THEN ~r.active /\ Runs(Back, t) => top # <<>> /\ Runs(top[1], t)
            ELSE (r.active /\ Runs(r, t)) \/ (top # <<>> /\ Runs(top[1], t))
  PROVE  StackIInv' /\ HoldStep
<1>1. /\ n \in Nat /\ n # 0 /\ Back = Ticked(stack[n]) /\ n \in 1..n
      /\ \A i \in 1..n : Ticks[i] = Ticked(stack[i])
  BY TicksAre DEF None, StackIInv
<1>2. \A i \in 1..n : /\ Good(stack[i]) /\ stack[i].active
                      /\ \A j \in 1..n : i < j /\ Asks(stack[i]) => ~Opens(stack[j])
  BY DEF StackIInv, StackInv
<1>3. \A i \in 1..n : /\ Alike(stack[i], Ticked(stack[i])) /\ Asked(Ticked(stack[i]))
                      /\ Ticked(stack[i]).active
  BY <1>2, Ticking
<1> DEFINE q == stack'
<1> HIDE DEF q
<1>4. /\ IsList(q) /\ \A i \in 1..(n - 1) : q[i] = Ticked(stack[i])
      /\ q[n] = r
      /\ IF top = <<>> THEN Len(q) = n
         ELSE Len(q) = n + 1 /\ q[n + 1] = [top[1] EXCEPT !.focus = TRUE]
  BY <1>1 DEF At, q
<1>5. \A i \in 1..(n - 1) : Follows(stack[i], q[i]) /\ q[i].active
  BY <1>1, <1>2, <1>3, <1>4, AlikeFollows
<1> DEFINE b == Back
           s == stack[n]
<1>6. /\ Good(s) /\ s.active /\ Good(b) /\ b.kind = s.kind /\ (Asks(b) => Asks(s)) /\ (Opens(b) => Opens(s))
      /\ \A t : Runs(b, t) <=> Runs(s, t)
      /\ s.kind = "confirm" => b.hold = s.hold /\ b.confirmed = s.confirmed
  BY <1>1, <1>2, <1>3, AlikeMeans
<1>7. Follows(s, r)
  <2> HIDE DEF b, s
  <2>1. Follows(b, r)
    BY DEF b
  <2> QED BY <1>6, <2>1 DEF Follows, Confirms
<1>8. \A i \in 1..n : Follows(stack[i], q[i])
  <2>1. \A i \in 1..n : i = n \/ i \in 1..(n - 1)
    BY <1>1
  <2> QED BY <1>4, <1>5, <1>7, <2>1
<1>9. ASSUME top # <<>>
      PROVE  /\ Len(q) = n + 1 /\ Good(q[n + 1]) /\ q[n + 1].active
             /\ Opens(q[n + 1]) => Opens(b) /\ ~Asks(r)
             /\ \A t : Runs(top[1], t) => Runs(q[n + 1], t)
  <2>1. PICK x : /\ top = <<x>> /\ Good(x) /\ x.active
                 /\ Opens(x) => Opens(Back) /\ ~Asks(r)
    BY <1>9
  <2>2. top[1] = x
    BY <2>1
  <2> DEFINE y == [x EXCEPT !.focus = TRUE]
  <2>3. Len(q) = n + 1 /\ q[n + 1] = y
    BY <1>4, <1>9, <2>2
  <2>4. Alike(x, y) /\ Asked(y) /\ y.active
    BY <2>1, Focuses
  <2> HIDE DEF y
  <2>5. Good(y) /\ (Opens(y) => Opens(x)) /\ \A t : Runs(x, t) <=> Runs(y, t)
    BY <2>1, <2>4, AlikeMeans
  <2> QED BY <2>1, <2>2, <2>3, <2>4, <2>5
<1>10. Len(q) \in {n, n + 1} /\ (Len(q) = n + 1 => top # <<>>)
  BY <1>1, <1>4
<1>11. Len(q) = n + 1 /\ Opens(q[n + 1]) => \A i \in 1..n : ~Asks(q[i])
  <2> SUFFICES ASSUME Len(q) = n + 1, Opens(q[n + 1]), NEW i \in 1..n PROVE ~Asks(q[i])
    OBVIOUS
  <2>1. Opens(b) /\ ~Asks(r)
    BY <1>9, <1>10
  <2>2. CASE i = n
    BY <1>4, <2>1, <2>2
  <2>3. CASE i # n
    <3>1. i < n /\ i \in 1..(n - 1)
      BY <1>1, <2>3
    <3>2. ~Asks(stack[i])
      BY <1>1, <1>2, <1>6, <2>1, <3>1
    <3> QED BY <1>5, <3>1, <3>2 DEF Follows
  <2> QED BY <2>2, <2>3
<1>12. ASSUME NEW t \in busy'
       PROVE  IF t \in busy
              THEN \A i \in 1..n : ~q[i].active /\ stack[i].active /\ Runs(stack[i], t)
                                        => Len(q) = n + 1 /\ Runs(q[n + 1], t)
              ELSE \E i \in 1..Len(q) : q[i].active /\ Runs(q[i], t)
  <2>1. ASSUME t \in busy, NEW i \in 1..n, ~q[i].active, Runs(stack[i], t)
        PROVE  Len(q) = n + 1 /\ Runs(q[n + 1], t)
    <3>1. i = n
      BY <1>1, <1>5, <2>1
    <3>2. ~r.active /\ Runs(Back, t)
      BY <1>4, <1>6, <2>1, <3>1
    <3> QED BY <1>9, <1>12, <2>1, <3>2
  <2>2. ASSUME t \notin busy PROVE \E i \in 1..Len(q) : q[i].active /\ Runs(q[i], t)
    <3>1. CASE r.active /\ Runs(r, t)
      <4>1. n \in 1..Len(q)
        BY <1>1, <1>10
      <4> QED BY <1>4, <3>1, <4>1
    <3>2. CASE top # <<>> /\ Runs(top[1], t)
      <4>1. n + 1 \in 1..Len(q)
        BY <1>1, <1>9, <3>2
      <4> QED BY <1>9, <3>2, <4>1
    <3> QED BY <1>12, <2>2, <3>1, <3>2
  <2> QED BY <2>1, <2>2
<1>13. PushInv'
  BY DEF StackIInv, PushInv
<1>14. \A t \in busy' : t \in busy /\ pushing # <<>> /\ Runs(pushing[1], t)
                            => pushing' # <<>> /\ Runs(pushing'[1], t)
  OBVIOUS
<1> QED BY <1>1, <1>4, <1>8, <1>9, <1>10, <1>11, <1>12, <1>13, <1>14, Grows DEF q

\* The last state in a frame.
LEMMA BackIs ==
  ASSUME StackIInv, step = "frame", stack # None
  PROVE  Good(Back) /\ Back.active
<1>1. Len(stack) \in 1..Len(stack) /\ Back = Ticked(stack[Len(stack)])
  BY TicksAre DEF None, StackIInv
<1>2. Good(stack[Len(stack)]) /\ stack[Len(stack)].active
  BY <1>1 DEF StackIInv, StackInv
<1> HIDE DEF Back
<1> QED BY <1>1, <1>2, Ticking, AlikeMeans

\* A state that is told to leave, with or without another over it.
LEMMA Leaving ==
  ASSUME NEW s, Good(s)
  PROVE  /\ LET r == [s EXCEPT !.active = FALSE]
            IN  Follows(s, r) /\ ~r.active /\ (Asks(r) => s.kind = "confirm")
         /\ LET r == [[s EXCEPT !.focus = FALSE] EXCEPT !.active = FALSE]
            IN  Follows(s, r) /\ ~r.active /\ (Asks(r) => s.kind = "confirm")
         /\ LET r == [s EXCEPT !.focus = FALSE]
            IN  Follows(s, r) /\ r.active = s.active /\ (Asks(r) => Asks(s))
<1>1. LET r == [s EXCEPT !.focus = FALSE]
      IN  /\ Follows(s, r) /\ r.active = s.active /\ (Asks(r) => Asks(s))
          /\ Good(r) /\ Alike(s, r) /\ r.kind = s.kind
  <2> DEFINE r == [s EXCEPT !.focus = FALSE]
  <2>1. Alike(s, r) /\ Asked(r) /\ r.active = s.active
    BY Focuses
  <2> HIDE DEF r
  <2> QED BY <2>1, AlikeFollows, AlikeMeans DEF r
<1>2. ASSUME NEW u, Good(u)
      PROVE  LET r == [u EXCEPT !.active = FALSE]
             IN  Follows(u, r) /\ Alike(u, r) /\ Asked(r) /\ ~r.active /\ (Asks(r) => u.kind = "confirm")
  <2> DEFINE r == [u EXCEPT !.active = FALSE]
  <2>1. Alike(u, r) /\ Asked(r) /\ ~r.active
    BY <1>2, Focuses
  <2> HIDE DEF r
  <2>2. Follows(u, r)
    BY <1>2, <2>1, AlikeFollows
  <2>3. Asks(r) => u.kind = "confirm"
    BY <2>1, <2>2 DEF Asks, Follows
  <2> QED BY <2>1, <2>2, <2>3 DEF r
<1>3. LET r == [[s EXCEPT !.focus = FALSE] EXCEPT !.active = FALSE]
      IN  Follows(s, r) /\ ~r.active /\ (Asks(r) => s.kind = "confirm")
  <2> DEFINE u == [s EXCEPT !.focus = FALSE]
             r == [u EXCEPT !.active = FALSE]
  <2>1. Good(u) /\ Alike(s, u) /\ u.kind = s.kind
    BY <1>1
  <2> HIDE DEF u
  <2>2. Follows(u, r) /\ Alike(u, r) /\ Asked(r) /\ ~r.active /\ (Asks(r) => u.kind = "confirm")
    BY <1>2, <2>1
  <2> HIDE DEF r
  <2>3. Alike(s, r)
    BY <2>1, <2>2 DEF Alike
  <2>4. Follows(s, r)
    BY <2>2, <2>3, AlikeFollows
  <2> QED BY <2>1, <2>2, <2>4 DEF r, u
<1> QED BY <1>1, <1>2, <1>3

\* A frame over a stack that is not empty.
FrameOf == StackIInv /\ step = "frame" /\ step' = "purge" /\ stack # None /\ UNCHANGED pushing

\* What every step is shown to keep.
Result == StackIInv' /\ HoldStep

\* The last state changes.
LEMMA BackBecomes ==
  ASSUME FrameOf, NEW s, Becomes(s), Follows(Back, s), s.active,
         \A t \in busy' : t \notin busy => Runs(s, t)
  PROVE  Result
<1>1. At(Len(stack), s, <<>>)
  BY Shapes DEF FrameOf, StackIInv
<1> QED BY <1>1, FrameGrows DEF FrameOf, Result

\* Nothing changes but the ticks.
LEMMA BackStays ==
  ASSUME FrameOf, Stays, UNCHANGED busy
  PROVE  Result
<1>1. At(Len(stack), Back, <<>>)
  BY Shapes DEF FrameOf, StackIInv
<1>2. Good(Back) /\ Back.active
  BY BackIs DEF FrameOf
<1>3. Follows(Back, Back)
  BY <1>2 DEF Follows, Confirms
<1> QED BY <1>1, <1>2, <1>3, FrameGrows DEF FrameOf, Result

\* The last state leaves, and runs nothing.
LEMMA BackLeaves ==
  ASSUME FrameOf, Leaves, UNCHANGED busy, \A t \in busy : ~Runs(Back, t)
  PROVE  Result
<1> DEFINE r == [Back EXCEPT !.active = FALSE]
<1>1. At(Len(stack), r, <<>>)
  BY Shapes DEF FrameOf, StackIInv
<1>2. Follows(Back, r)
  BY BackIs, Leaving DEF FrameOf
<1> HIDE DEF r
<1> QED BY <1>1, <1>2, FrameGrows DEF FrameOf, Result

\* The last state shows another.
LEMMA BackShows ==
  ASSUME FrameOf, NEW x, Shows(x), Good(x), x.active, Opens(x) => Opens(Back) /\ ~Asks(Back),
         \A t \in busy' : t \notin busy => Runs(x, t)
  PROVE  Result
<1> DEFINE r == [Back EXCEPT !.focus = FALSE]
<1>1. At(Len(stack), r, <<x>>)
  BY Shapes DEF FrameOf, StackIInv
<1>2. Follows(Back, r) /\ r.active /\ (Asks(r) => Asks(Back))
  BY BackIs, Leaving DEF FrameOf
<1>3. <<x>> # <<>> /\ <<x>>[1] = x
  OBVIOUS
<1> HIDE DEF r
<1> QED BY <1>1, <1>2, <1>3, FrameGrows DEF FrameOf, Result

\* The last state leaves, and runs nothing.

\* The last state leaves to another, which runs what it ran.
LEMMA BackLeavesTo ==
  ASSUME FrameOf, NEW x, LeavesTo(x), Good(x), x.active, Opens(x) => Opens(Back) /\ Back.kind # "confirm",
         \A t \in busy' : (t \notin busy => Runs(x, t)) /\ (t \in busy /\ Runs(Back, t) => Runs(x, t))
  PROVE  Result
<1> DEFINE r == [[Back EXCEPT !.focus = FALSE] EXCEPT !.active = FALSE]
<1>1. At(Len(stack), r, <<x>>)
  BY Shapes DEF FrameOf, StackIInv
<1>2. Follows(Back, r) /\ ~r.active /\ (Asks(r) => Back.kind = "confirm")
  BY BackIs, Leaving DEF FrameOf
<1>3. <<x>> # <<>> /\ <<x>>[1] = x
  OBVIOUS
<1> HIDE DEF r
<1> QED BY <1>1, <1>2, <1>3, FrameGrows DEF FrameOf, Result

\* A fade leaves from a state that runs nothing.
LEMMA LeavesToFade ==
  ASSUME FrameOf, LeavesTo(FadeOut), UNCHANGED busy, \A t \in busy : ~Runs(Back, t)
  PROVE  Result
<1> DEFINE x == FadeOut
<1>1. Good(x) /\ x.active /\ ~Opens(x)
  BY NewFade DEF FadeOut, None
<1> HIDE DEF x
<1>2. LeavesTo(x)
  BY DEF x
<1> QED BY <1>1, <1>2, BackLeavesTo

\* FadeState::update.
LEMMA FadeFrame ==
  ASSUME FrameOf, UpdateFade
  PROVE  Result
<1>1. Back.kind = "fade" /\ UNCHANGED busy /\ Good(Back) /\ Back.active
  BY BackIs DEF UpdateFade, NoTask, pool, FrameOf
<1> DEFINE b == Back
<1> HIDE DEF b
<1>2. CASE Becomes([Back EXCEPT !.alpha = FadeStep(Back)])
  <2> DEFINE r == [b EXCEPT !.alpha = FadeStep(b)]
  <2>1. Alike(b, r) /\ r.kind = b.kind /\ r.active = b.active
    BY <1>1 DEF Alike, Good, Fields, b
  <2>2. Asked(r) /\ r.active
    BY <1>1, <2>1 DEF Asked, b
  <2>3. Becomes(r)
    BY <1>2 DEF b
  <2> HIDE DEF r
  <2>4. Follows(b, r)
    BY <1>1, <2>1, <2>2, AlikeFollows DEF b
  <2> QED BY <1>1, <2>2, <2>3, <2>4, BackBecomes DEF b
<1>3. CASE Back.next = None /\ Leaves
  <2>1. \A t : ~Runs(Back, t)
    BY <1>1, <1>3 DEF Runs, RunsItself, None
  <2> QED BY <1>1, <1>3, <2>1, BackLeaves
<1>4. CASE Back.next # None /\ LeavesTo(Head(Back.next))
  <2>1. PICK x : b.next = <<x>> /\ Inner(x)
    BY <1>1, <1>4 DEF Good, None, b
  <2>2. Head(b.next) = x /\ b.next[1] = x /\ b.next # <<>>
    BY <2>1
  <2>3. LeavesTo(x)
    BY <1>4, <2>2 DEF b
  <2>4. Good(x) /\ x.active /\ (Opens(x) => Leads(x))
    BY <2>1, InnerGood DEF Inner
  <2>5. Leads(x) => Opens(b)
    BY <1>1, <2>2 DEF Opens, b
  <2>6. \A t : Runs(b, t) => Runs(x, t)
    BY <1>1, <2>2 DEF Runs, RunsItself, b
  <2> QED BY <1>1, <2>3, <2>4, <2>5, <2>6, BackLeavesTo DEF b
<1> QED BY <1>2, <1>3, <1>4 DEF UpdateFade

\* TaskState::update.
LEMMA TaskFrame ==
  ASSUME FrameOf, UpdateTask
  PROVE  Result
<1>1. Back.kind = "task" /\ UNCHANGED busy
  BY DEF UpdateTask, NoTask, pool
<1>2. CASE TaskEnded(Back) /\ LeavesTo(FadeOut)
  <2>1. \A t \in busy : ~Runs(Back, t)
    BY <1>1, <1>2 DEF Runs, RunsItself, TaskEnded
  <2> QED BY <1>1, <1>2, <2>1, LeavesToFade
<1>3. CASE Stays
  BY <1>1, <1>3, BackStays
<1> QED BY <1>2, <1>3 DEF UpdateTask

\* DataLoadingState::update.
LEMMA LoadingFrame ==
  ASSUME FrameOf, UpdateLoading
  PROVE  Result
<1>1. Back.kind = "loading" /\ UNCHANGED busy /\ Good(Back) /\ Back.active
  BY BackIs DEF UpdateLoading, NoTask, pool, FrameOf
<1>2. TaskEnded(Back) => \A t \in busy : ~Runs(Back, t)
  BY <1>1 DEF Runs, RunsItself, TaskEnded
<1>3. CASE Stays
  BY <1>1, <1>3, BackStays
<1>4. CASE TaskEnded(Back) /\ Leaves
  BY <1>1, <1>2, <1>4, BackLeaves
<1>5. CASE TaskEnded(Back) /\ Back.next # None /\ LeavesTo(Head(Back.next))
  <2>1. PICK x : Back.next = <<x>> /\ Inner(x)
    BY <1>1, <1>5 DEF Good, None
  <2>2. Head(Back.next) = x
    BY <2>1
  <2>3. LeavesTo(x)
    BY <1>5, <2>2
  <2>4. Good(x) /\ x.active
    BY <2>1, InnerGood DEF Inner
  <2>5. Opens(Back)
    BY <1>1, <1>5 DEF Opens, None
  <2> QED BY <1>1, <1>2, <1>5, <2>3, <2>4, <2>5, BackLeavesTo
<1> QED BY <1>3, <1>4, <1>5 DEF UpdateLoading

\* A dialog moves.
LEMMA Moving ==
  ASSUME NEW s, Good(s), s.active, NEW target
  PROVE  LET r == Moves(s, target)
         IN  Alike(s, r) /\ Asked(r) /\ Follows(s, r) /\ r.active /\ Good(r) /\ r.kind = s.kind
<1> DEFINE r == Moves(s, target)
<1>1. /\ Fields(r) /\ DOMAIN r = DOMAIN s /\ \A x \in DOMAIN s : x # "size" => r[x] = s[x]
  BY DEF Moves, Good, Fields
<1> HIDE DEF r
<1>2. r.kind = s.kind /\ r.active = s.active
  BY <1>1 DEF Good, Fields
<1>3. Alike(s, r)
  BY <1>1, <1>2 DEF Alike, Good
<1>4. s.kind = "confirm" => /\ r.phase = s.phase /\ r.guard = s.guard /\ r.hold = s.hold
                            /\ r.since = s.since /\ r.shown = s.shown
  BY <1>1 DEF Good, Asked, ConfirmFields
<1>5. Asked(r)
  BY <1>1, <1>2, <1>4 DEF Good, Asked
<1> QED BY <1>2, <1>3, <1>5, AlikeFollows, AlikeMeans DEF r

\* MessageState::update.
LEMMA MessageFrame ==
  ASSUME FrameOf, NEW now, UpdateMessage(now)
  PROVE  Result
<1>1. Back.kind = "message" /\ UNCHANGED busy /\ Good(Back) /\ Back.active
  BY BackIs DEF UpdateMessage, NoTask, pool, FrameOf
<1>2. \A t : ~Runs(Back, t)
  BY <1>1 DEF Runs, RunsItself
<1>3. ASSUME NEW s, Good(s), s.kind = "message", s.active, NEW p
      PROVE  LET r == [s EXCEPT !.phase = p] IN Good(r) /\ r.kind = "message" /\ r.active
  BY <1>3 DEF Good, Fields, Asked, Dialog
<1>4. ASSUME NEW s, Good(s), s.kind = "message", s.active, Becomes(s) PROVE Result
  <2>1. Follows(Back, s)
    BY <1>1, <1>2, <1>4 DEF Follows, Confirms, Asks, Opens, Leads
  <2> QED BY <1>1, <1>4, <2>1, BackBecomes
<1>5. \A target : LET r == Moves(Back, target) IN Good(r) /\ r.kind = "message" /\ r.active
  BY <1>1, Moving
<1>6. CASE Stays
  BY <1>1, <1>6, BackStays
<1>7. CASE LeavesTo(FadeOut)
  BY <1>1, <1>2, <1>7, LeavesToFade
<1>8. CASE \E s, p : Becomes(s) /\ (s = Moves(Back, p) \/ s = [Back EXCEPT !.phase = p]
                                    \/ s = [Moves(Back, Wide) EXCEPT !.phase = p])
  BY <1>1, <1>3, <1>4, <1>5, <1>8
<1> QED BY <1>6, <1>7, <1>8 DEF UpdateMessage

\* ProgressState::update: its task is complete before it closes.
LEMMA ProgressFrame ==
  ASSUME FrameOf, UpdateProgress
  PROVE  Result
<1>1. Back.kind = "progress" /\ Good(Back) /\ Back.active
  BY BackIs DEF UpdateProgress, FrameOf
<1> DEFINE b == Back
<1> HIDE DEF b
<1>2. ~Asks(b) /\ ~Opens(b) /\ (b.phase # "running" => \A t : ~Runs(b, t))
  BY <1>1 DEF Asks, Opens, Leads, Runs, RunsItself, b
<1>3. \A target : LET r == Moves(b, target)
                  IN  Follows(b, r) /\ Good(r) /\ r.kind = "progress" /\ r.active
  BY <1>1, Moving DEF b
<1>4. CASE /\ b.phase = "opening" /\ StartsTask(NewTask)
           /\ Becomes([Moves(b, Wide) EXCEPT !.phase = "running", !.task = NewTask])
  <2> DEFINE m == Moves(b, Wide)
             r == [m EXCEPT !.phase = "running", !.task = NewTask]
  <2>1. Good(m) /\ m.kind = "progress" /\ m.active
    BY <1>3
  <2> HIDE DEF m
  <2>2. Good(r) /\ r.kind = "progress" /\ r.active /\ r.phase = "running" /\ r.task = NewTask
    BY <2>1 DEF Good, Fields, Asked, Dialog
  <2>3. Becomes(r)
    BY <1>4 DEF m
  <2> HIDE DEF r
  <2>4. Follows(b, r) /\ Runs(r, NewTask)
    BY <1>1, <1>2, <1>4, <2>2 DEF Follows, Confirms, Asks, Opens, Leads, Runs, RunsItself, b
  <2>5. \A t \in busy' : t \notin busy => t = NewTask
    BY <1>4 DEF StartsTask
  <2> QED BY <2>2, <2>3, <2>4, <2>5, BackBecomes DEF b
<1>5. CASE UNCHANGED busy /\ b.phase = "running" /\ TaskEnded(b) /\ Becomes([b EXCEPT !.phase = "closing"])
  <2> DEFINE r == [b EXCEPT !.phase = "closing"]
  <2>1. Good(r) /\ r.kind = "progress" /\ r.active
    BY <1>1 DEF Good, Fields, Asked, Dialog, b
  <2>2. Becomes(r)
    BY <1>5
  <2>3. \A t \in busy : ~Runs(b, t)
    BY <1>1, <1>5 DEF Runs, RunsItself, TaskEnded, b
  <2> HIDE DEF r
  <2>4. Follows(b, r)
    BY <1>1, <1>5, <2>1, <2>3 DEF Follows, Confirms, Asks, Opens, Leads, b
  <2> QED BY <1>5, <2>1, <2>2, <2>4, BackBecomes DEF b
<1>6. ASSUME UNCHANGED busy, NEW target, Becomes(Moves(b, target)) PROVE Result
  BY <1>3, <1>6, BackBecomes DEF b
<1>7. CASE UNCHANGED busy /\ Stays
  BY <1>7, BackStays
<1>8. CASE UNCHANGED busy /\ b.phase = "closing" /\ LeavesTo(FadeOut)
  BY <1>2, <1>8, LeavesToFade DEF b
<1> QED BY <1>4, <1>5, <1>6, <1>7, <1>8 DEF UpdateProgress, NoTask, pool, b

\* An answer confirms a question that asks to hold A only after it was shown
\* that long.
LEMMA Answers ==
  ASSUME NEW s, Good(s), s.active, s.kind = "confirm", s.phase = "displaying", NEW now,
         aDown' = ("A" \in now)
  PROVE  LET r == Answered(s, now) IN Follows(s, r) /\ r.active
<1> DEFINE g == Guarded(s, now)
           close == [s EXCEPT !.guard = g, !.phase = "closing"]
           done == [close EXCEPT !.confirmed = TRUE]
           again == [s EXCEPT !.guard = g, !.since = 0]
<1>1. /\ Fields(s) /\ ConfirmFields \subseteq DOMAIN s /\ s.since \in Nat /\ s.shown \in Nat
      /\ s.guard /\ s.hold => s.since <= s.shown
  BY DEF Good, Asked
<1> HIDE DEF g
<1>2. /\ Fields(close) /\ close.kind = "confirm" /\ close.active /\ close.phase = "closing"
      /\ close.hold = s.hold /\ close.since = s.since /\ close.shown = s.shown
      /\ close.confirmed = s.confirmed /\ DOMAIN close = DOMAIN s
  BY <1>1 DEF Fields, ConfirmFields
<1> HIDE DEF close
<1>3. /\ Fields(done) /\ done.kind = "confirm" /\ done.active /\ done.phase = "closing"
      /\ done.hold = s.hold /\ done.since = s.since /\ done.shown = s.shown
      /\ DOMAIN done = DOMAIN s
  BY <1>1, <1>2 DEF Fields, ConfirmFields
<1>4. /\ Fields(again) /\ again.kind = "confirm" /\ again.active /\ again.phase = "displaying"
      /\ again.hold = s.hold /\ again.since = 0 /\ again.shown = s.shown
      /\ again.confirmed = s.confirmed /\ DOMAIN again = DOMAIN s
  BY <1>1 DEF Fields, ConfirmFields
<1> HIDE DEF done, again
<1>5. Good(close) /\ Good(done) /\ Good(again)
  BY <1>1, <1>2, <1>3, <1>4 DEF Good, Asked, Dialog
<1>6. \A r : Good(r) /\ r.kind = "confirm" /\ (Confirms(s, r) => r.shown >= HoldTicks /\ aDown')
                => Follows(s, r)
  BY DEF Follows, Asks, Opens, Leads, Runs, RunsItself
<1>7. Follows(s, close) /\ Follows(s, again) /\ Follows(s, s)
  BY <1>2, <1>4, <1>5, <1>6 DEF Confirms
<1>8. ~s.hold => Follows(s, done)
  BY <1>3, <1>5, <1>6 DEF Confirms
<1>9. g /\ HeldDown(now) /\ ~Pressed(now, "A") /\ s.hold /\ s.since >= HoldTicks => Follows(s, done)
  <2> SUFFICES ASSUME g, HeldDown(now), ~Pressed(now, "A"), s.hold, s.since >= HoldTicks
               PROVE  Follows(s, done)
    OBVIOUS
  <2>1. s.guard
    BY DEF g, Guarded
  <2>2. aDown'
    BY DEF HeldDown
  <2>3. done.shown >= HoldTicks
    BY <1>1, <1>3, <2>1, StackAssumption
  <2> QED BY <1>3, <1>5, <1>6, <2>2, <2>3
<1>10. Answered(s, now) =
         IF g /\ Pressed(now, "A") /\ ~s.hold THEN done
         ELSE IF g /\ Pressed(now, "A") THEN again
         ELSE IF g /\ HeldDown(now) /\ s.hold THEN (IF s.since >= HoldTicks THEN done ELSE s)
         ELSE IF Released(now) THEN s
         ELSE IF Pressed(now, "B") THEN close ELSE s
  BY DEF Answered, g, close, done, again
<1> HIDE DEF Answered
<1>11. Answered(s, now) \in {done, again, s, close}
  BY <1>10
<1>12. Answered(s, now).active
  BY <1>2, <1>3, <1>4, <1>11
<1>13. Follows(s, Answered(s, now))
  BY <1>7, <1>8, <1>9, <1>10
<1> QED BY <1>12, <1>13

\* ConfirmState::update.
LEMMA ConfirmFrame ==
  ASSUME FrameOf, NEW now, UpdateConfirm(now), aDown' = ("A" \in now)
  PROVE  Result
<1>1. Back.kind = "confirm" /\ Good(Back) /\ Back.active
  BY BackIs DEF UpdateConfirm, FrameOf
<1> DEFINE b == Back
<1> HIDE DEF b
<1>2. \A t : ~Runs(b, t)
  BY <1>1 DEF Runs, RunsItself, b
<1>3. \A target : LET r == Moves(b, target)
                  IN  Follows(b, r) /\ Good(r) /\ r.kind = "confirm" /\ r.active
  BY <1>1, Moving DEF b
<1>4. ASSUME UNCHANGED busy, NEW target, Becomes(Moves(b, target)) PROVE Result
  BY <1>3, <1>4, BackBecomes DEF b
<1>5. CASE /\ UNCHANGED busy /\ b.phase = "opening"
           /\ Becomes([Moves(b, Wide) EXCEPT !.phase = "displaying"])
  <2> DEFINE m == Moves(b, Wide)
             r == [m EXCEPT !.phase = "displaying"]
  <2>1. /\ Good(m) /\ m.kind = "confirm" /\ m.active /\ m.hold = b.hold /\ m.confirmed = b.confirmed
        /\ m.phase = b.phase
    <3>1. Alike(b, m) /\ Good(m) /\ m.kind = "confirm" /\ m.active
      BY <1>1, Moving DEF b
    <3>2. ConfirmFields \subseteq DOMAIN b
      BY <1>1 DEF Good, Asked, b
    <3> HIDE DEF m
    <3> QED BY <3>1, <3>2 DEF Alike, ConfirmFields
  <2> HIDE DEF m
  <2>2. /\ Fields(m) /\ ConfirmFields \subseteq DOMAIN m /\ m.since \in Nat /\ m.shown \in Nat /\ ~m.guard
    BY <1>5, <2>1 DEF Good, Asked
  <2>3. /\ Fields(r) /\ DOMAIN r = DOMAIN m /\ r.kind = "confirm" /\ r.active /\ ~r.guard
        /\ r.since = m.since /\ r.shown = m.shown /\ r.confirmed = b.confirmed /\ r.phase = "displaying"
    BY <2>1, <2>2 DEF Fields, ConfirmFields
  <2>4. Becomes(r)
    BY <1>5 DEF m
  <2> HIDE DEF r
  <2>5. Good(r)
    BY <2>2, <2>3 DEF Good, Asked, Dialog
  <2>6. Follows(b, r)
    BY <1>1, <1>2, <2>3, <2>5 DEF Follows, Confirms, Asks, Opens, Leads, b
  <2> QED BY <1>5, <2>3, <2>4, <2>6, BackBecomes DEF b
<1>6. CASE UNCHANGED busy /\ b.phase = "displaying" /\ Becomes(Answered(b, now))
  <2> DEFINE r == Answered(b, now)
  <2>1. Follows(b, r) /\ r.active
    BY <1>1, <1>6, Answers DEF b
  <2>2. Becomes(r)
    BY <1>6
  <2> HIDE DEF r
  <2> QED BY <1>6, <2>1, <2>2, BackBecomes DEF b
<1>7. CASE UNCHANGED busy /\ LeavesTo(FadeOut)
  BY <1>2, <1>7, LeavesToFade DEF b
<1>8. ASSUME UNCHANGED busy, NEW restores, LeavesTo(Progressing(restores)) PROVE Result
  <2> DEFINE p == Progressing(restores)
  <2>1. Inner(p) /\ p.kind = "progress"
    BY DEF Progressing, State, Inner, Fields, Asked, Dialog
  <2> HIDE DEF p
  <2>2. Good(p) /\ p.active /\ ~Opens(p)
    BY <2>1, InnerGood DEF Inner, Leads
  <2> QED BY <1>2, <1>8, <2>2, BackLeavesTo DEF b, p
<1>9. CASE LeavesTo(TaskState(NewTask)) /\ StartsTask(NewTask)
  <2> DEFINE x == TaskState(NewTask)
  <2>1. Inner(x) /\ x.kind = "task" /\ x.task = NewTask
    BY NewStates
  <2>2. LeavesTo(x)
    BY <1>9
  <2> HIDE DEF x
  <2>3. Good(x) /\ x.active /\ ~Opens(x) /\ Runs(x, NewTask)
    BY <2>1, InnerGood DEF Inner, Leads, Runs, RunsItself
  <2>4. \A t \in busy' : t \notin busy => t = NewTask
    BY <1>9 DEF StartsTask
  <2> QED BY <1>2, <2>2, <2>3, <2>4, BackLeavesTo DEF b
<1> QED BY <1>4, <1>5, <1>6, <1>7, <1>8, <1>9 DEF UpdateConfirm, Progress, Restore, NoTask, pool, b

\* A state that leads on shows one that was just made.
LEMMA Leading ==
  ASSUME FrameOf, Back.kind \in {"menu", "screen"}, NEW x, Shows(x), Good(x), x.active,
         \A t \in busy' : t \notin busy => Runs(x, t)
  PROVE  Result
BY BackShows DEF Opens, Leads, Asks

\* A fade to a question.
LEMMA ConfirmFade ==
  ASSUME NEW hold, NEW spawns
  PROVE  LET x == FadeTo(Confirm(hold, spawns)) IN Good(x) /\ x.active
<1> DEFINE c == Confirm(hold, spawns)
<1>1. Inner(c)
  BY NewConfirm
<1> HIDE DEF c
<1>2. Good(FadeTo(c)) /\ FadeTo(c).active
  BY <1>1, FadesTo
<1> QED BY <1>2 DEF c

\* MainMenuState::update.
LEMMA MenuFrame ==
  ASSUME FrameOf, NEW now, UpdateMenu(now)
  PROVE  Result
<1>1. Back.kind = "menu" /\ UNCHANGED busy
  BY DEF UpdateMenu, NoTask, pool
<1>2. CASE Shows(Screen)
  <2>1. Good(Screen) /\ Screen.active
    BY NewStates, InnerGood DEF Inner
  <2> QED BY <1>1, <1>2, <2>1, Leading
<1>3. ASSUME NEW h, NEW s, Shows(FadeTo(Confirm(h, s))) PROVE Result
  BY <1>1, <1>3, ConfirmFade, Leading
<1>4. CASE Stays
  BY <1>1, <1>4, BackStays
<1> QED BY <1>2, <1>3, <1>4 DEF UpdateMenu

\* The update of a screen of options.
LEMMA ScreenFrame ==
  ASSUME FrameOf, NEW now, UpdateScreen(now)
  PROVE  Result
<1>1. Back.kind = "screen"
  BY DEF UpdateScreen
<1>2. ASSUME NEW x \in Shown, Shows(x), UNCHANGED busy PROVE Result
  <2>1. Good(x) /\ x.active
    <3>1. CASE \E h \in BOOLEAN, s \in {"task", "restore"} : x = FadeTo(Confirm(h, s))
      BY <3>1, ConfirmFade
    <3>2. CASE x = FadeTo(Progress)
      BY <3>2, NewStates, FadesTo
    <3>3. CASE x = Message
      BY <3>3, NewStates, InnerGood DEF Inner
    <3> QED BY <3>1, <3>2, <3>3 DEF Shown
  <2> QED BY <1>1, <1>2, <2>1, Leading
<1>3. CASE Shows(TaskState(NewTask)) /\ StartsTask(NewTask)
  <2> DEFINE x == TaskState(NewTask)
  <2>1. Inner(x) /\ x.kind = "task" /\ x.task = NewTask
    BY NewStates
  <2>2. Shows(x)
    BY <1>3
  <2> HIDE DEF x
  <2>3. Good(x) /\ x.active /\ Runs(x, NewTask)
    BY <2>1, InnerGood DEF Inner, Runs, RunsItself
  <2>4. \A t \in busy' : t \notin busy => t = NewTask
    BY <1>3 DEF StartsTask
  <2> QED BY <1>1, <2>2, <2>3, <2>4, Leading
<1>4. CASE Shows(Loading(NewTask, None)) /\ StartsTask(NewTask)
  <2> DEFINE x == Loading(NewTask, <<>>)
  <2>1. Good(x) /\ x.active /\ Runs(x, NewTask)
    BY NewLoading
  <2>2. Shows(x)
    BY <1>4 DEF None
  <2> HIDE DEF x
  <2>3. \A t \in busy' : t \notin busy => t = NewTask
    BY <1>4 DEF StartsTask
  <2> QED BY <1>1, <2>1, <2>2, <2>3, Leading
<1>5. CASE Leaves /\ UNCHANGED busy
  <2>1. \A t : ~Runs(Back, t)
    BY <1>1 DEF Runs, RunsItself
  <2> QED BY <1>5, <2>1, BackLeaves
<1>6. CASE Stays /\ UNCHANGED busy
  BY <1>6, BackStays
<1> QED BY <1>2, <1>3, <1>4, <1>5, <1>6 DEF UpdateScreen, NoTask, pool

\* A frame of the main thread.
LEMMA FrameKeeps ==
  ASSUME StackIInv, Frame
  PROVE  Result
<1>1. step = "frame" /\ step' = "purge" /\ UNCHANGED pushing
  BY DEF Frame
<1>2. PICK now \in Buttons :
        /\ aDown' = ("A" \in now)
        /\ \/ stack # None /\ Back.focus /\ Updates(now)
           \/ (stack = None \/ ~Back.focus) /\ Stays /\ NoTask
  BY DEF Frame
<1>3. CASE stack # None
  <2>1. FrameOf
    BY <1>1, <1>3 DEF FrameOf
  <2>2. CASE Updates(now)
    BY <1>2, <2>1, <2>2, FadeFrame, TaskFrame, LoadingFrame, ProgressFrame, MessageFrame,
       ConfirmFrame, MenuFrame, ScreenFrame DEF Updates
  <2>3. CASE Stays /\ NoTask
    BY <2>1, <2>3, BackStays DEF NoTask, pool
  <2> QED BY <1>2, <2>2, <2>3
<1>4. CASE stack = None
  <2>1. Stays /\ UNCHANGED busy
    BY <1>2, <1>4 DEF NoTask, pool
  <2>2. stack' = <<>> /\ Len(stack) = 0
    BY <1>4, <2>1 DEF Stays, Ticks, None
  <2>3. IsList(stack') /\ Len(stack') = 0
    BY <2>2 DEF IsList
  <2>4. PushInv'
    BY <1>1 DEF StackIInv, PushInv
  <2>5. BusyInv' /\ HoldStep
    BY <1>1, <1>4, <2>1, <2>2 DEF StackIInv, BusyInv, HoldStep, None
  <2>6. StackInv'
    BY <1>1, <2>3 DEF StackInv
  <2> QED BY <2>4, <2>5, <2>6 DEF StackIInv, Result
<1> QED BY <1>3, <1>4

\* The last state gets the focus, or loses it.
Refocus(a, b) == IF a = <<>> THEN a ELSE [a EXCEPT ![Len(a)].focus = b]

\* Nothing else changes.
LEMMA Refocused ==
  ASSUME NEW a, IsList(a), \A i \in 1..Len(a) : Good(a[i]), NEW b
  PROVE  LET q == Refocus(a, b)
         IN  /\ IsList(q) /\ Len(q) = Len(a)
             /\ \A i \in 1..Len(a) : /\ Alike(a[i], q[i]) /\ Asked(q[i])
                                     /\ q[i].active = a[i].active
<1> DEFINE m == Len(a)
           q == Refocus(a, b)
<1>1. m \in Nat /\ a = [i \in 1..m |-> a[i]] /\ DOMAIN a = 1..m
  BY AsFunction DEF IsList
<1>2. \A i \in 1..m : Alike(a[i], a[i]) /\ Asked(a[i])
  BY DEF Good, Alike
<1>3. CASE a = <<>>
  <2>1. q = a
    BY <1>3 DEF Refocus
  <2> HIDE DEF q
  <2> QED BY <1>2, <2>1 DEF q
<1>4. CASE a # <<>>
  <2>1. m # 0
    <3>1. ASSUME m = 0 PROVE a = <<>>
      <4>1. a = [i \in 1..0 |-> a[i]]
        BY <1>1, <3>1
      <4> QED BY <4>1
    <3> QED BY <1>4, <3>1
  <2> DEFINE z == [a[m] EXCEPT !.focus = b]
  <2>2. q = [a EXCEPT ![m] = z]
    BY <1>4 DEF Refocus
  <2>3. m \in 1..m
    BY <1>1, <2>1
  <2>4. Alike(a[m], z) /\ Asked(z) /\ z.active = a[m].active
    BY <2>3, Focuses
  <2> HIDE DEF z, q
  <2>5. q = [i \in 1..m |-> IF i = m THEN z ELSE a[i]] /\ Len(q) = m
    BY <2>2, AsFunction
  <2>6. q[m] = z /\ \A i \in 1..m : i # m => q[i] = a[i]
    BY <2>3, <2>5
  <2>7. q = [i \in 1..m |-> q[i]]
    BY <2>5
  <2>8. IsList(q)
    BY <1>1, <2>5, <2>7 DEF IsList
  <2>9. \A i \in 1..m : Alike(a[i], q[i]) /\ Asked(q[i]) /\ q[i].active = a[i].active
    BY <1>2, <2>4, <2>6
  <2> QED BY <2>5, <2>8, <2>9 DEF q
<1> QED BY <1>3, <1>4

\* The removal of the states that left.
LEMMA PurgeKeeps ==
  ASSUME StackIInv, Purge
  PROVE  Result
<1> DEFINE n == Len(stack)
           a == ActiveOf(stack)
           m == Len(a)
           q == stack'
<1>1. IsList(stack) /\ n \in Nat /\ DOMAIN stack = 1..n
  BY AsFunction DEF StackIInv, StackInv, IsList
<1>2. PICK h : Picks(h, a, stack, n)
  BY <1>1, ActivePicked
<1>3. q = Focused(a) /\ step' = "frame" /\ UNCHANGED <<busy, pushing>>
  BY DEF Purge, pool
<1> HIDE DEF a, q, n
<1>4. /\ IsList(a) /\ m \in Nat /\ h \in [1..m -> 1..n]
      /\ \A i, j \in 1..m : i < j => h[i] < h[j]
      /\ \A i \in 1..m : a[i] = stack[h[i]] /\ a[i].active
      /\ \A j \in 1..n : stack[j].active => \E i \in 1..m : h[i] = j
  BY <1>2 DEF Picks, IsList
<1>5. \A i \in 1..m : i <= h[i] /\ h[i] \in 1..n
  BY <1>1, <1>4, MovesDown
<1>6. /\ \A i \in 1..n : Good(stack[i])
      /\ \A i, j \in 1..n : i < j /\ Asks(stack[i]) => ~Opens(stack[j])
  BY DEF StackIInv, StackInv, n
<1>7. \A i \in 1..m : Good(a[i])
  BY <1>4, <1>5, <1>6
<1>8. /\ IsList(q) /\ Len(q) = m
      /\ \A i \in 1..m : Alike(a[i], q[i]) /\ Asked(q[i]) /\ q[i].active = a[i].active
  <2>1. q = Refocus(a, TRUE)
    BY <1>3 DEF Focused, Refocus
  <2>2. IsList(a) /\ \A i \in 1..Len(a) : Good(a[i])
    BY <1>4, <1>7
  <2> QED BY <2>1, <2>2, Refocused
<1> HIDE DEF m
<1>9. ASSUME NEW i \in 1..m
      PROVE  /\ Good(q[i]) /\ q[i].active /\ q[i].kind = stack[h[i]].kind
             /\ Asks(q[i]) => Asks(stack[h[i]])
             /\ Opens(q[i]) => Opens(stack[h[i]])
             /\ \A t : Runs(q[i], t) <=> Runs(stack[h[i]], t)
             /\ stack[h[i]].kind = "confirm" => q[i].confirmed = stack[h[i]].confirmed
  <2> DEFINE s == stack[h[i]]
             r == q[i]
  <2>1. s = a[i]
    BY <1>4, <1>9
  <2>2. Good(s) /\ Alike(s, r) /\ Asked(r) /\ r.active
    BY <1>4, <1>7, <1>8, <1>9, <2>1
  <2> HIDE DEF s, r
  <2>3. /\ Good(r) /\ r.active /\ r.kind = s.kind /\ (Asks(r) => Asks(s)) /\ (Opens(r) => Opens(s))
        /\ \A t : Runs(r, t) <=> Runs(s, t)
        /\ s.kind = "confirm" => r.confirmed = s.confirmed
    BY <2>2, AlikeMeans
  <2> QED BY <2>3 DEF s, r
<1>10. StackInv'
  <2>1. \A i, j \in 1..m : i < j /\ Asks(q[i]) => ~Opens(q[j])
    BY <1>4, <1>5, <1>6, <1>9
  <2> QED BY <1>3, <1>8, <1>9, <2>1 DEF StackInv, q
<1>11. PushInv'
  BY <1>3 DEF StackIInv, PushInv
<1>12. BusyInv'
  <2> SUFFICES ASSUME NEW t \in busy
               PROVE  \/ \E i \in 1..Len(q) : q[i].active /\ Runs(q[i], t)
                      \/ pushing # <<>> /\ Runs(pushing[1], t)
    BY <1>3 DEF BusyInv, q
  <2>1. ASSUME NEW j \in 1..n, stack[j].active, Runs(stack[j], t)
        PROVE  \E i \in 1..Len(q) : q[i].active /\ Runs(q[i], t)
    <3>1. PICK i \in 1..m : h[i] = j
      BY <1>4, <2>1
    <3> QED BY <1>8, <1>9, <2>1, <3>1
  <2> QED BY <2>1 DEF StackIInv, BusyInv, n
<1>13. HoldStep
  <2> SUFFICES ASSUME NEW i \in 1..n, i \in 1..m, stack[i].kind = "confirm",
                      q[i].kind = "confirm", q[i].confirmed, ~stack[i].confirmed
               PROVE  FALSE
    <3>1. DOMAIN stack = 1..n /\ DOMAIN q = 1..m
      BY <1>1, <1>8, AsFunction
    <3> QED BY <3>1 DEF HoldStep, q
  <2>1. stack[h[i]].kind = "confirm" /\ stack[h[i]].confirmed /\ i <= h[i] /\ h[i] \in 1..n
    BY <1>5, <1>9
  <2>2. i < h[i] /\ Asks(stack[i]) /\ Opens(stack[h[i]])
    BY <1>1, <2>1 DEF Asks, Opens, Leads
  <2> QED BY <1>6, <2>1, <2>2
<1> QED BY <1>10, <1>11, <1>12, <1>13 DEF Result, StackIInv

\* A state is put over the others.
LEMMA Overlaid ==
  ASSUME StackIInv, NEW p, IsList(p), Len(p) = Len(stack),
         \A i \in 1..Len(stack) : /\ Alike(stack[i], p[i]) /\ Asked(p[i])
                                  /\ p[i].active = stack[i].active,
         NEW x, Good(x), x.active, stack' = Append(p, [x EXCEPT !.focus = TRUE]),
         Opens(x) => \A i \in 1..Len(stack) : ~Asks(stack[i]),
         step' = "launch" => step = "launch" /\ ~Asks(x),
         step = "purge" => step' = "purge",
         PushInv',
         \A t \in busy' :
            IF t \in busy
            THEN pushing # <<>> /\ Runs(pushing[1], t)
                    => Runs(x, t) \/ (pushing' # <<>> /\ Runs(pushing'[1], t))
            ELSE Runs(x, t)
  PROVE  Result
<1> DEFINE n == Len(stack)
           y == [x EXCEPT !.focus = TRUE]
           q == stack'
<1>1. n \in Nat /\ \A i \in 1..n : Good(stack[i]) /\ (step # "purge" => stack[i].active)
  BY DEF StackIInv, StackInv, IsList
<1>2. Alike(x, y) /\ Asked(y) /\ y.active
  BY Focuses, ZenonT(60)
<1> HIDE DEF y
<1>3. Good(y) /\ (Asks(y) => Asks(x)) /\ (Opens(y) => Opens(x)) /\ \A t : Runs(y, t) <=> Runs(x, t)
  BY <1>2, AlikeMeans
<1>4. q = [i \in 1..(n + 1) |-> IF i = n + 1 THEN y ELSE p[i]] /\ Len(q) = n + 1
  BY AsFunction DEF y
<1> HIDE DEF q, n
<1>5. q[n + 1] = y /\ \A i \in 1..n : q[i] = p[i]
  BY <1>1, <1>4
<1>6. IsList(q)
  <2>1. q = [i \in 1..(n + 1) |-> q[i]]
    BY <1>4
  <2> QED BY <1>1, <1>4, <2>1 DEF IsList
<1>7. \A i \in 1..n : /\ Follows(stack[i], q[i]) /\ (Asks(q[i]) => Asks(stack[i]))
                      /\ q[i].active = stack[i].active
  <2> SUFFICES ASSUME NEW i \in 1..n
               PROVE  /\ Follows(stack[i], q[i]) /\ (Asks(q[i]) => Asks(stack[i]))
                      /\ q[i].active = stack[i].active
    OBVIOUS
  <2>1. Good(stack[i]) /\ Alike(stack[i], q[i]) /\ Asked(q[i]) /\ q[i].active = stack[i].active
    BY <1>1, <1>5 DEF n
  <2> QED BY <2>1, AlikeFollows, AlikeMeans
<1>8. Opens(q[n + 1]) => \A i \in 1..n : ~Asks(q[i])
  BY <1>3, <1>5, <1>7 DEF n
<1>9. step' # "purge" => \A i \in 1..n : q[i].active
  BY <1>1, <1>7
<1>10. ASSUME NEW t \in busy'
       PROVE  IF t \in busy
              THEN pushing # <<>> /\ Runs(pushing[1], t) =>
                       \/ pushing' # <<>> /\ Runs(pushing'[1], t)
                       \/ Runs(q[n + 1], t)
              ELSE \E i \in 1..Len(q) : q[i].active /\ Runs(q[i], t)
  <2>1. CASE t \in busy
    BY <1>3, <1>5, <1>10, <2>1
  <2>2. CASE t \notin busy
    <3>1. n + 1 \in 1..Len(q) /\ q[n + 1].active /\ Runs(q[n + 1], t)
      BY <1>1, <1>2, <1>3, <1>4, <1>5, <1>10, <2>2
    <3> QED BY <2>2, <3>1
  <2> QED BY <2>1, <2>2
<1>11. \A i \in 1..n : stack[i].active => q[i].active
  BY <1>7
<1>12. StackIInv' /\ HoldStep
  BY <1>1, <1>2, <1>3, <1>4, <1>5, <1>6, <1>7, <1>8, <1>9, <1>10, <1>11, Grows DEF n, q
<1> QED BY <1>12 DEF Result

\* push_state, outside a frame.
LEMMA PushKeeps ==
  ASSUME StackIInv, NEW x, Good(x), x.active, stack' = Push(stack, x), UNCHANGED pushing,
         Opens(x) => \A i \in 1..Len(stack) : ~Asks(stack[i]),
         step \in {"launch", "fade"}, step' # "launch",
         \A t \in busy' : t \notin busy => Runs(x, t)
  PROVE  Result
<1> DEFINE p == Refocus(stack, FALSE)
<1>1. IsList(stack) /\ \A i \in 1..Len(stack) : Good(stack[i])
  BY DEF StackIInv, StackInv
<1>2. /\ IsList(p) /\ Len(p) = Len(stack)
      /\ \A i \in 1..Len(stack) : /\ Alike(stack[i], p[i]) /\ Asked(p[i])
                                  /\ p[i].active = stack[i].active
  BY <1>1, Refocused
<1>3. stack' = Append(p, [x EXCEPT !.focus = TRUE])
  BY DEF Push, Refocus
<1>4. PushInv'
  BY DEF StackIInv, PushInv
<1> HIDE DEF p
<1> QED BY <1>2, <1>3, <1>4, Overlaid

\* The loading of the data is pushed: no question was asked yet.
LEMMA LaunchKeeps ==
  ASSUME StackIInv, LaunchesInitialization
  PROVE  Result
<1> DEFINE x == Loading(NewTask, <<MainMenu>>)
<1>1. Good(x) /\ x.active /\ Runs(x, NewTask)
  BY NewLoading, NewStates
<1>2. stack' = Push(stack, x) /\ UNCHANGED pushing /\ step = "launch" /\ step' = "fade"
  BY DEF LaunchesInitialization
<1>3. \A t \in busy' : t \notin busy => t = NewTask
  BY DEF LaunchesInitialization, StartsTask
<1> HIDE DEF x
<1>4. \A i \in 1..Len(stack) : ~Asks(stack[i])
  BY <1>2 DEF StackIInv, StackInv
<1> QED BY <1>1, <1>2, <1>3, <1>4, PushKeeps

\* The fade from black is pushed.
LEMMA BlackKeeps ==
  ASSUME StackIInv, FadesFromBlack
  PROVE  Result
<1> DEFINE x == Fade(255, 0, <<>>)
<1>1. Good(x) /\ x.active /\ ~Opens(x)
  BY NewFade
<1>2. stack' = Push(stack, x) /\ UNCHANGED <<busy, pushing>> /\ step = "fade" /\ step' = "frame"
  BY DEF FadesFromBlack, None, pool
<1> HIDE DEF x
<1> QED BY <1>1, <1>2, PushKeeps

\* The task of a sign in is made, and its state waits to be pushed.
LEMMA SignInKeeps ==
  ASSUME StackIInv, SignInTakesFocus
  PROVE  Result
<1> DEFINE n == Len(stack)
           x == TaskState(NewTask)
           f == FadeTo(x)
           q == stack'
<1>1. Inner(x) /\ x.kind = "task" /\ x.task = NewTask
  BY NewStates
<1>2. pushing' = <<f>> /\ pushing = <<>> /\ UNCHANGED step
  BY DEF SignInTakesFocus, None
<1>3. \A t \in busy' : t \notin busy => t = NewTask
  BY DEF SignInTakesFocus, StartsTask
<1> HIDE DEF x
<1>4. Good(f) /\ f.active /\ ~Opens(f) /\ ~Asks(f) /\ Runs(f, NewTask)
  BY <1>1, FadesTo DEF Leads, RunsItself
<1> HIDE DEF f
<1>5. PushInv' /\ pushing' # <<>> /\ pushing'[1] = f
  BY <1>2, <1>4 DEF PushInv
<1>6. n \in Nat /\ IsList(stack) /\ \A i \in 1..n : Good(stack[i]) /\ (step # "purge" => stack[i].active)
  BY DEF StackIInv, StackInv, IsList
<1>7. /\ IsList(q) /\ Len(q) = n
      /\ \A i \in 1..n : Alike(stack[i], q[i]) /\ Asked(q[i]) /\ q[i].active = stack[i].active
  <2>1. q = Refocus(stack, FALSE)
    BY DEF SignInTakesFocus, None, Refocus
  <2> HIDE DEF q
  <2> QED BY <1>6, <2>1, Refocused
<1> HIDE DEF q, n
<1>8. \A i \in 1..n : Follows(stack[i], q[i])
  BY <1>6, <1>7, AlikeFollows
<1>9. ASSUME NEW t \in busy'
      PROVE  IF t \in busy THEN ~(pushing # <<>> /\ Runs(pushing[1], t))
             ELSE pushing' # <<>> /\ Runs(pushing'[1], t)
  BY <1>2, <1>3, <1>4, <1>5, <1>9
<1>10. step' # "purge" => \A i \in 1..n : q[i].active
  BY <1>2, <1>6, <1>7
<1>11. Len(q) # n + 1 /\ \A i \in 1..n : stack[i].active => q[i].active
  BY <1>6, <1>7
<1> QED BY <1>2, <1>5, <1>6, <1>7, <1>8, <1>9, <1>10, <1>11, Grows DEF n, q, Result

\* The state of a sign in is pushed, behind its fade.
LEMMA PushedKeeps ==
  ASSUME StackIInv, SignInPushed
  PROVE  Result
<1>1. PICK x : pushing = <<x>> /\ Good(x) /\ x.active /\ ~Opens(x) /\ ~Asks(x)
  BY DEF SignInPushed, None, StackIInv, PushInv
<1>2. pushing[1] = x /\ Head(pushing) = x
  BY <1>1
<1>3. /\ stack' = Append(stack, [x EXCEPT !.focus = TRUE])
      /\ UNCHANGED <<step, busy>> /\ pushing' = <<>>
  BY <1>2 DEF SignInPushed, None
<1>4. PushInv'
  BY <1>3 DEF PushInv
<1>5. /\ IsList(stack) /\ Len(stack) = Len(stack)
      /\ \A i \in 1..Len(stack) : /\ Alike(stack[i], stack[i]) /\ Asked(stack[i])
                                  /\ stack[i].active = stack[i].active
  BY DEF StackIInv, StackInv, Good, Alike
<1> QED BY <1>1, <1>2, <1>3, <1>4, <1>5, Overlaid

\* The pool takes jobs and ends them.
LEMMA PoolKeeps ==
  ASSUME StackIInv, UNCHANGED <<stack, step, pushing>>, busy' \subseteq busy
  PROVE  Result
<1>1. StackInv' /\ PushInv'
  BY DEF StackIInv, StackInv, PushInv
<1>2. BusyInv'
  BY DEF StackIInv, BusyInv
<1>3. HoldStep
  BY DEF HoldStep
<1> QED BY <1>1, <1>2, <1>3 DEF StackIInv, Result

\* Every step.
LEMMA StackSteps ==
  ASSUME StackIInv, [Next]_vars
  PROVE  Result
<1>1. CASE Frame
  BY <1>1, FrameKeeps
<1>2. CASE Purge
  BY <1>2, PurgeKeeps
<1>3. CASE LaunchesInitialization
  BY <1>3, LaunchKeeps
<1>4. CASE FadesFromBlack
  BY <1>4, BlackKeeps
<1>5. CASE TakesJob
  BY <1>5, PoolKeeps DEF TakesJob
<1>6. CASE UpdateChecked
  BY <1>6, PoolKeeps DEF UpdateChecked
<1>7. ASSUME NEW t \in Task, TaskCompletes(t) PROVE Result
  BY <1>7, PoolKeeps DEF TaskCompletes
<1>12. ASSUME NEW t \in Task, BackupFails(t) \/ RestoreReturns(t) PROVE Result
  BY <1>12, PoolKeeps DEF BackupFails, RestoreReturns
<1>8. CASE RemoteIsReady
  BY <1>8, PoolKeeps DEF RemoteIsReady
<1>9. CASE SignInTakesFocus
  BY <1>9, SignInKeeps
<1>10. CASE SignInPushed
  BY <1>10, PushedKeeps
<1>11. CASE UNCHANGED vars
  BY <1>11, PoolKeeps DEF vars, pool
<1> QED BY <1>1, <1>2, <1>3, <1>4, <1>5, <1>6, <1>7, <1>8, <1>9, <1>10, <1>11, <1>12 DEF Next, MainThread

\* The start.
LEMMA StackStarts ==
  ASSUME Init
  PROVE  StackIInv
<1>1. stack = <<>> /\ busy = {} /\ pushing = <<>>
  BY DEF Init, None
<1>2. IsList(<<>>) /\ Len(<<>>) = 0
  BY DEF IsList
<1> QED BY <1>1, <1>2 DEF StackIInv, StackInv, PushInv, BusyInv

\* A state that runs a task owns it.
LEMMA RunnersOwn ==
  ASSUME NEW s, Good(s), NEW t, Runs(s, t)
  PROVE  t \in TasksOf(s)
<1>1. ASSUME NEW h, h \in ToSet(Held(s)), h.kind \in {"loading", "task", "progress"}, t = h.task
      PROVE  t \in TasksOf(s)
  BY <1>1 DEF TasksOf
<1>2. CASE s.kind # "fade"
  <2>1. Held(s) = <<s>>
    BY <1>2 DEF Held
  <2>2. s \in ToSet(Held(s))
    BY <2>1 DEF ToSet
  <2> QED BY <1>1, <1>2, <2>2 DEF Runs, RunsItself
<1>3. CASE s.kind = "fade"
  <2>1. PICK x : s.next = <<x>>
    BY <1>3 DEF Good, Runs, RunsItself
  <2>2. RunsItself(x) /\ t = x.task
    BY <1>3, <2>1 DEF Runs, RunsItself
  <2>3. Held(s) = <<s>> \o <<x>>
    BY <1>3, <2>1 DEF Held
  <2>4. x \in ToSet(Held(s))
    <3>1. <<s>> \in Seq({s, x}) /\ <<x>> \in Seq({s, x}) /\ Len(<<s>>) = 1 /\ Len(<<x>>) = 1
      OBVIOUS
    <3>2. (<<s>> \o <<x>>)[2] = x /\ 2 \in DOMAIN (<<s>> \o <<x>>)
      BY <3>1, ConcatProperties
    <3> QED BY <2>3, <3>2 DEF ToSet
  <2> QED BY <1>1, <2>2, <2>4 DEF RunsItself
<1> QED BY <1>2, <1>3

\* What waits for a task owns it.
LEMMA RunnersAreOwners ==
  ASSUME StackIInv
  PROVE  TaskOutlivesJob
<1> SUFFICES ASSUME NEW t \in busy PROVE t \in Owned
  BY DEF TaskOutlivesJob, InUse
<1>1. ASSUME NEW s \in ToSet(stack) \cup ToSet(pushing), Good(s), Runs(s, t) PROVE t \in Owned
  BY <1>1, RunnersOwn DEF Owned
<1>2. ASSUME NEW i \in 1..Len(stack), Runs(stack[i], t) PROVE t \in Owned
  <2>1. Good(stack[i]) /\ i \in DOMAIN stack
    BY <1>2, AsFunction DEF StackIInv, StackInv
  <2>2. stack[i] \in ToSet(stack)
    BY <2>1 DEF ToSet
  <2> QED BY <1>1, <1>2, <2>1, <2>2
<1>3. ASSUME pushing # <<>>, Runs(pushing[1], t) PROVE t \in Owned
  <2>1. PICK x : pushing = <<x>> /\ Good(x)
    BY <1>3 DEF StackIInv, PushInv
  <2>2. pushing[1] = x /\ 1 \in DOMAIN pushing
    BY <2>1
  <2>3. x \in ToSet(pushing)
    BY <2>2 DEF ToSet
  <2> QED BY <1>1, <1>3, <2>1, <2>2, <2>3
<1> QED BY <1>2, <1>3 DEF StackIInv, BusyInv

\* The inductive invariant holds.
THEOREM StackHolds == Spec => []StackIInv
<1>1. Init => StackIInv
  BY StackStarts
<1>2. StackIInv /\ [Next]_vars => StackIInv'
  BY StackSteps DEF Result
<1> QED BY <1>1, <1>2, PTL DEF Spec

\* While JKSV runs, no task is destroyed that its job has still to use: a state of
\* the stack owns it (Task::Task, FadeState::completed), unless the failed
\* automatic backup of a restore completed it under its job (backup.cpp:315).
THEOREM TasksOutlive == Spec => []TaskOutlivesJob
<1>1. StackIInv => TaskOutlivesJob
  BY RunnersAreOwners
<1> QED BY <1>1, StackHolds, PTL

\* A dialog that asks to hold A is confirmed only after it was shown that long
\* (ConfirmState::update_handle_input), whatever HoldTicks, the scaling and the
\* steps of the pool between the frames.
THEOREM HoldsTakeTime == Spec => HoldTakesTime
<1>1. StackIInv /\ [Next]_vars =>
        [\A i \in DOMAIN stack : i \in DOMAIN stack' /\ stack[i].kind = "confirm"
            /\ stack'[i].kind = "confirm" /\ stack'[i].confirmed /\ ~stack[i].confirmed
            /\ stack[i].hold
        => stack'[i].shown >= HoldTicks /\ aDown']_vars
  BY StackSteps DEF Result, HoldStep
<1> QED BY <1>1, StackHolds, PTL DEF Spec, HoldTakesTime
==============================================================================
