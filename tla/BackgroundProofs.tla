-------------------------- MODULE BackgroundProofs --------------------------
(***************************************************************************)
(* Theorems about three parts of the background sysmodule, each by itself.   *)
(*                                                                         *)
(* BackgroundSync: the sysmodule holds on to the titles that were closed,  *)
(* does not sleep over them, keeps the queue blocked while applications    *)
(* change, and disables itself when operations keep being interrupted: for *)
(* every set of titles and every number of launches, crashes and failures. *)
(*                                                                         *)
(* RetryBackoff: no retry before the schedule of the change log, for every *)
(* base delay, however often the clock is set and the loop woken.          *)
(*                                                                         *)
(* UploadProtocol: the drive has the old file or the whole archive at any  *)
(* moment, and an upload survives a rejected token: for every number of    *)
(* slices and every number of failing requests and revoked tokens.         *)
(***************************************************************************)
EXTENDS BackgroundSync, RetryBackoff, UploadProtocol, NaturalsInduction, WellFoundedInduction, TLAPS

-----------------------------------------------------------------------------
(***************************************************************************)
(* The monitor and the main loop.                                          *)
(***************************************************************************)
Point == Guarded \cup {"off", "boot", "marker", "disabled", "grace", "top", "gate", "take",
                       "queue", "wait", "delay", "begin"}
Booting == mainPc \in {"off", "boot", "marker", "disabled", "grace"}

\* What the variables may be, as far as the arguments below go.
SyncType ==
    /\ mainPc \in Point
    /\ mpc \in {"none", "wait", "query", "handle", "signal", "fire", "adopt"}
    /\ mode \in {"events", "polling"}
    /\ {pending, deferred, title} \subseteq Game \cup {NoTitle}
    /\ launches \in Nat /\ app.pid \in Nat /\ mon.pid \in Nat /\ mon.ticks \in Nat /\ seen \in Nat
    /\ workEvent \in BOOLEAN

-----------------------------------------------------------------------------
(***************************************************************************)
(* Titles in hand.                                                         *)
(***************************************************************************)
\* The main thread holds one title at a time, and none while it sleeps or
\* looks at the queue except one it has put aside.
HoldInv ==
    /\ title # NoTitle => mainPc \in {"delay", "begin", "prepare", "saving"}
    /\ deferred # NoTitle =>
        mainPc \in {"top", "gate", "take"} \/ (mainPc = "wait" /\ waitsFor \in {"setting", "close"})

EmptyHanded == pending = NoTitle /\ deferred = NoTitle /\ title = NoTitle

\* Before the monitor starts nothing is followed or in hand.
BootInv == Booting =>
    mpc = "none" /\ mon.pid = 0 /\ EmptyHanded

\* An application that is published is the one followed, or about to be, or
\* was there before anything was in hand.
FollowInv ==
    /\ mode = "events" /\ mon.pid # 0 => mon.ticks = 2
    /\ mpc = "adopt" => seen # 0
    /\ mpc \in {"signal", "fire"} /\ running # NoTitle => seen # 0
    /\ running # NoTitle /\ mon.pid = 0 =>
        mpc \in {"signal", "fire", "adopt"} \/ EmptyHanded

\* A title noted after the main thread has looked for one comes with the event.
NotedInv ==
    mainPc = "queue" \/ (mainPc = "wait" /\ waitsFor \in {"work", "retry"}) =>
        pending = NoTitle \/ workEvent \/ mpc = "fire"
WaitInv == mainPc = "wait" =>
    /\ waitsFor \in {"setting", "close", "work", "retry"}
    /\ mode = "events" /\ waitsFor = "close" /\ ~EmptyHanded =>
        workEvent \/ running # NoTitle \/ mpc \in {"signal", "fire"}

SyncInv == SyncType /\ HoldInv /\ BootInv /\ FollowInv /\ NotedInv /\ WaitInv

-----------------------------------------------------------------------------
(***************************************************************************)
(* The markers of interrupted operations.                                  *)
(***************************************************************************)
Interruption == crashes = interrupted /\ interrupted > 0

MarkerType ==
    /\ crashes \in Nat /\ interrupted \in Nat /\ interrupted <= crashes
    /\ runMarker \in BOOLEAN /\ interruptedMarker \in BOOLEAN
    /\ mainPc \in Point
\* There is a marker only after a crash.
MarkedInv ==
    /\ mainPc = "disabled" => interruptedMarker
    /\ mainPc = "marker" \/ interruptedMarker \/ (mainPc \in {"off", "boot"} /\ runMarker) => crashes > 0
\* Where interruptions are noted while there was no other crash.
NotesInv ==
    Interruption =>
        /\ mainPc \in {"off", "boot"} => IF interrupted = 1 THEN runMarker \/ interruptedMarker
                                                      ELSE runMarker /\ interruptedMarker
        /\ mainPc = "marker" => interrupted = 1 \/ interruptedMarker
        /\ mainPc \notin {"off", "boot", "marker", "disabled"} => interrupted = 1 /\ interruptedMarker

MarkerInv == MarkerType /\ MarkedInv /\ NotesInv

-----------------------------------------------------------------------------
LEMMA InitSync == SyncInit => SyncInv
<1> SUFFICES ASSUME SyncInit PROVE SyncInv
  OBVIOUS
<1>1. SyncType
  BY ModesAssumption DEF SyncInit, NoApp, NoProcess, SyncType, Point
<1>2. HoldInv /\ BootInv /\ FollowInv /\ NotedInv /\ WaitInv
  BY DEF SyncInit, NoProcess, HoldInv, BootInv, FollowInv, NotedInv, WaitInv, EmptyHanded
<1> QED BY <1>1, <1>2 DEF SyncInv

LEMMA NextSync == ASSUME SyncInv, [SyncNext]_syncVars PROVE SyncInv'
<1> USE TitleAssumption, ModesAssumption
    DEF Point, Guarded, Booting, SyncInv, SyncType, HoldInv, BootInv, FollowInv, NotedInv, WaitInv,
        EmptyHanded, env, monitor, shared, main, card, bounds
<1>1. CASE MonitorWakes
  BY <1>1 DEF MonitorWakes
<1>2. CASE QueryApplication
  BY <1>2 DEF QueryApplication
<1>3. CASE SameApplication
  BY <1>3 DEF SameApplication, Follow, Published, AtLeastTwo
<1>4. CASE Adopt
  BY <1>4 DEF Adopt, Follow, Published, AtLeastTwo
<1>5. CASE SwitchApplication
  <2>1. /\ mpc = "handle" /\ seen # 0 /\ running' = Unknown /\ mpc' \in {"signal", "adopt"}
        /\ mon'.pid = 0 /\ mon'.ticks = 0
        /\ UNCHANGED <<mainPc, mode, pending, deferred, title, launches, app, seen, workEvent, waitsFor>>
    BY <1>5 DEF SwitchApplication, Close, NoProcess
  <2> QED BY <2>1
<1>6. CASE ApplicationGone
  <2>1. /\ mpc = "handle" /\ seen = 0 /\ running' = NoTitle /\ mon'.pid = 0 /\ mon'.ticks = 0
        /\ mpc' = IF mon.pid # 0 /\ mon.ticks >= 2 THEN "signal" ELSE "wait"
        /\ UNCHANGED <<mainPc, mode, pending, deferred, title, launches, app, seen, workEvent, waitsFor>>
    BY <1>6 DEF ApplicationGone, Close, NoProcess
  <2> QED BY <2>1
<1>7. CASE FirstMiss
  BY <1>7 DEF FirstMiss
<1>8. CASE SignalClosedTitle
  BY <1>8 DEF SignalClosedTitle
<1>9. CASE FireWorkEvent
  BY <1>9 DEF FireWorkEvent
<1>10. CASE CheckRunMarker
  BY <1>10 DEF CheckRunMarker
<1>11. CASE CheckInterruptedMarker
  BY <1>11 DEF CheckInterruptedMarker
<1>12. CASE StartMonitor
  BY <1>12 DEF StartMonitor
<1>13. CASE ReadSettings
  BY <1>13 DEF ReadSettings, WaitForWork
<1>14. CASE Gate
  BY <1>14 DEF Gate, WaitForWork
<1>15. CASE TakeTitle
  BY <1>15 DEF TakeTitle
<1>16. CASE DelaySecond
  BY <1>16 DEF DelaySecond
<1>17. CASE BeginGuardedOperation
  BY <1>17 DEF BeginGuardedOperation
<1>18. CASE PrepareTitle
  BY <1>18 DEF PrepareTitle
<1>19. CASE SavesPrepared
  BY <1>19 DEF SavesPrepared
<1>20. CASE ProcessPendingBackups
  BY <1>20 DEF ProcessPendingBackups
<1>21. CASE RemoveRunMarker
  BY <1>21 DEF RemoveRunMarker
<1>22. CASE RemoveInterruptedMarker
  BY <1>22 DEF RemoveInterruptedMarker
<1>23. CASE CheckQueue
  BY <1>23 DEF CheckQueue, WaitForWork
<1>24. CASE WokenByEvent
  BY <1>24 DEF WokenByEvent
<1>25. CASE WaitTimesOut
  BY <1>25 DEF WaitTimesOut
<1>26. CASE Exit
  BY <1>26 DEF Exit, NoApp
<1>27. CASE ToggleSetting
  BY <1>27 DEF ToggleSetting
<1>28. CASE Crash
  BY <1>28 DEF Crash, Volatile, NoApp, NoProcess
<1>29. CASE Start
  BY <1>29 DEF Start
<1>30. CASE Reenable
  BY <1>30 DEF Reenable, Volatile, NoApp, NoProcess
<1>31. CASE FallBackToPolling
  BY <1>31 DEF FallBackToPolling
<1>32. CASE UNCHANGED syncVars
  BY <1>32 DEF syncVars
<1>33. CASE \E t \in Title : Launch(t)
  BY <1>33 DEF Launch
<1> QED BY <1>1, <1>2, <1>3, <1>4, <1>5, <1>6, <1>7, <1>8, <1>9, <1>10, <1>11, <1>12, <1>13, <1>14, <1>15, <1>16, <1>17, <1>18, <1>19, <1>20, <1>21, <1>22, <1>23, <1>24, <1>25, <1>26, <1>27, <1>28, <1>29, <1>30, <1>31, <1>32, <1>33 DEF SyncNext, MonitorStep, MainStep

\* Titles in hand, and who is followed, at every point of both threads.
THEOREM SyncInvariance == SyncSpec => []SyncInv
<1>1. SyncInv /\ [SyncNext]_syncVars => SyncInv'
  BY NextSync
<1> QED BY InitSync, <1>1, PTL DEF SyncSpec

\* In the event mode the main thread never sleeps over a closed title.
THEOREM NeverSleptOver == SyncSpec => []SleepsOverNoTitle
<1>1. SyncInv => SleepsOverNoTitle
  <2> SUFFICES ASSUME SyncInv, mode = "events", mainPc = "wait", waitsFor # "setting", InHand # {}
               PROVE  workEvent \/ running # NoTitle \/ mpc \in {"signal", "fire"}
    BY DEF SleepsOverNoTitle, NoTitleIsSleptOver
  <2>1. PICK t \in Game : t \in {pending, deferred, title}
    BY DEF InHand
  <2>2. t # NoTitle
    BY TitleAssumption DEF Title
  <2>3. CASE waitsFor = "close"
    BY <2>1, <2>2, <2>3 DEF SyncInv, WaitInv, EmptyHanded
  <2>4. CASE waitsFor \in {"work", "retry"}
    <3>1. deferred = NoTitle /\ title = NoTitle
      BY <2>4 DEF SyncInv, HoldInv
    <3> QED BY <2>1, <2>2, <2>4, <3>1 DEF SyncInv, NotedInv
  <2> QED BY <2>3, <2>4 DEF SyncInv, WaitInv
<1> QED BY SyncInvariance, <1>1, PTL

\* While applications change directly the queue stays blocked, in every step
\* of both threads (close_monitored_application, signal_closed_title).
THEOREM BlockedWhileSwitching == SyncSpec => BlockedAcrossSwitch
<1>1. ASSUME SyncNext, running # NoTitle, running' = NoTitle PROVE seen = 0 \/ mainPc' = "off"
  <2>1. CASE MonitorStep
    <3>1. Unknown # NoTitle /\ \A t : Published(t) # NoTitle
      BY TitleAssumption DEF Published
    <3>2. CASE SameApplication \/ Adopt \/ SwitchApplication
      BY <1>1, <3>1, <3>2 DEF SameApplication, Adopt, Follow, SwitchApplication, Close
    <3>3. CASE ApplicationGone
      BY <3>3 DEF ApplicationGone
    <3> QED
      BY <1>1, <2>1, <3>2, <3>3
      DEF MonitorStep, MonitorWakes, QueryApplication, FirstMiss, SignalClosedTitle, FireWorkEvent, shared
  <2>2. CASE MainStep
    BY <1>1, <2>2, TitleAssumption
    DEF MainStep, CheckRunMarker, CheckInterruptedMarker, StartMonitor, ReadSettings, Gate, TakeTitle, DelaySecond, BeginGuardedOperation, PrepareTitle, SavesPrepared, ProcessPendingBackups, RemoveRunMarker, RemoveInterruptedMarker, CheckQueue, WokenByEvent, WaitTimesOut, WaitForWork, shared
  <2>3. CASE Crash \/ Reenable
    BY <2>3 DEF Crash, Reenable
  <2> QED
    BY <1>1, <2>1, <2>2, <2>3
    DEF SyncNext, Launch, Exit, ToggleSetting, Start, FallBackToPolling, shared
<1>2. [SyncNext]_syncVars => [running # NoTitle /\ running' = NoTitle => seen = 0 \/ mainPc' = "off"]_syncVars
  BY <1>1
<1> QED BY <1>2, PTL DEF SyncSpec, BlockedAcrossSwitch

\* A title in hand stays there until prepare_title_backups has been called
\* for it, whatever the monitor notes meanwhile and wherever the main thread
\* puts it aside.
THEOREM HeldTitles == SyncSpec => HeldUntilPrepared
<1> DEFINE Held == mainPc' # "off" /\ mainPc # "disabled" =>
             InHand \ InHand' \subseteq IF mainPc \in {"prepare", "saving"} THEN {title} ELSE {}
<1>1. ASSUME SyncInv, SyncNext, mainPc' # "off", mainPc # "disabled",
             NEW t \in Game, t \in {pending, deferred, title}, t \notin {pending', deferred', title'}
      PROVE  mainPc \in {"prepare", "saving"} /\ t = title
  <2>1. t # NoTitle
    BY TitleAssumption DEF Title
  <2>2. CASE SignalClosedTitle
    BY <1>1, <2>1, <2>2 DEF SignalClosedTitle, main
  <2>3. CASE TakeTitle
    BY <1>1, <2>1, <2>3 DEF TakeTitle, SyncInv, HoldInv
  <2>4. CASE DelaySecond
    BY <1>1, <2>1, <2>4 DEF DelaySecond, shared, SyncInv, HoldInv
  <2>5. CASE PrepareTitle
    BY <1>1, <2>5 DEF PrepareTitle, shared
  <2>6. CASE SavesPrepared
    BY <1>1, <2>6 DEF SavesPrepared, shared
  <2>7. CASE Crash \/ Reenable
    BY <1>1, <2>7 DEF Crash, Reenable
  <2> QED
    BY <1>1, <2>2, <2>3, <2>4, <2>5, <2>6, <2>7
    DEF SyncNext, MonitorStep, MainStep, Launch, Exit, ToggleSetting, Start, FallBackToPolling, MonitorWakes, QueryApplication, SameApplication, Adopt, SwitchApplication, ApplicationGone, FirstMiss, FireWorkEvent, CheckRunMarker, CheckInterruptedMarker, StartMonitor, ReadSettings, Gate, BeginGuardedOperation, ProcessPendingBackups, RemoveRunMarker, RemoveInterruptedMarker, CheckQueue, WokenByEvent, WaitTimesOut, WaitForWork,
        shared, main
<1>2. SyncInv /\ [SyncNext]_syncVars => [Held]_syncVars
  <2> SUFFICES ASSUME SyncInv, SyncNext PROVE Held
    BY DEF syncVars
  <2> QED BY <1>1 DEF InHand
<1> QED BY SyncInvariance, <1>2, PTL DEF SyncSpec, HeldUntilPrepared

-----------------------------------------------------------------------------
LEMMA InitMarkers == SyncInit => MarkerInv
<1> SUFFICES ASSUME SyncInit PROVE MarkerInv
  OBVIOUS
<1>1. MarkerType
  <2>1. crashes = 0 /\ interrupted = 0 /\ mainPc = "boot"
    BY DEF SyncInit
  <2>2. runMarker \in BOOLEAN /\ interruptedMarker \in BOOLEAN
    BY DEF SyncInit
  <2> QED BY <2>1, <2>2 DEF MarkerType, Point
<1>2. MarkedInv
  BY DEF SyncInit, MarkedInv
<1>3. NotesInv
  BY DEF SyncInit, NotesInv, Interruption
<1> QED BY <1>1, <1>2, <1>3 DEF MarkerInv

LEMMA NextMarkers == ASSUME MarkerInv, [SyncNext]_syncVars PROVE MarkerInv'
<1> USE DEF MarkerInv, MarkerType, MarkedInv, NotesInv, Interruption, Point, Guarded, card, main,
            bounds, shared, monitor, env
<1>1. CASE CheckRunMarker
  BY <1>1 DEF CheckRunMarker
<1>2. CASE CheckInterruptedMarker
  BY <1>2 DEF CheckInterruptedMarker
<1>3. CASE StartMonitor
  BY <1>3 DEF StartMonitor
<1>4. CASE ReadSettings
  BY <1>4 DEF ReadSettings, WaitForWork
<1>5. CASE Gate
  BY <1>5 DEF Gate, WaitForWork
<1>6. CASE TakeTitle
  BY <1>6 DEF TakeTitle
<1>7. CASE DelaySecond
  BY <1>7 DEF DelaySecond
<1>8. CASE BeginGuardedOperation
  BY <1>8 DEF BeginGuardedOperation
<1>9. CASE PrepareTitle
  BY <1>9 DEF PrepareTitle
<1>10. CASE SavesPrepared
  BY <1>10 DEF SavesPrepared
<1>11. CASE ProcessPendingBackups
  BY <1>11 DEF ProcessPendingBackups
<1>12. CASE RemoveRunMarker
  BY <1>12 DEF RemoveRunMarker
<1>13. CASE RemoveInterruptedMarker
  <2>1. ~Interruption' /\ interruptedMarker' = FALSE /\ interrupted' = 0 /\ mainPc' = "top"
        /\ UNCHANGED <<crashes, runMarker>>
    BY <1>13 DEF RemoveInterruptedMarker
  <2>2. MarkerType'
    <3>1. interruptedMarker' \in BOOLEAN
      BY <2>1
    <3>2. interrupted' = 0 /\ crashes' = crashes /\ runMarker' = runMarker /\ mainPc' = "top"
      BY <2>1
    <3> QED BY <3>1, <3>2
  <2>3. MarkedInv'
    BY <2>1
  <2>4. NotesInv'
    BY <2>1
  <2> QED BY <2>2, <2>3, <2>4
<1>14. CASE CheckQueue
  BY <1>14 DEF CheckQueue, WaitForWork
<1>15. CASE WokenByEvent
  BY <1>15 DEF WokenByEvent
<1>16. CASE WaitTimesOut
  BY <1>16 DEF WaitTimesOut
<1>17. CASE Crash
  BY <1>17 DEF Crash
<1>18. CASE Start
  BY <1>18 DEF Start
<1>19. CASE Reenable
  BY <1>19 DEF Reenable
<1>20. CASE UNCHANGED <<mainPc, crashes, interrupted, runMarker, interruptedMarker>>
  BY <1>20
<1> QED
  BY <1>1, <1>2, <1>3, <1>4, <1>5, <1>6, <1>7, <1>8, <1>9, <1>10, <1>11, <1>12, <1>13, <1>14,
     <1>15, <1>16, <1>17, <1>18, <1>19, <1>20
  DEF SyncNext, MonitorStep, MainStep, Launch, Exit, ToggleSetting, FallBackToPolling, syncVars, MonitorWakes, QueryApplication, SameApplication, Adopt, SwitchApplication, ApplicationGone, FirstMiss, SignalClosedTitle, FireWorkEvent

\* Operations that keep being interrupted, and nothing else, disable the
\* sysmodule after the second (handle_previous_interruption).
THEOREM CrashLoops == SyncSpec => []CrashLoopEnds
<1>1. MarkerInv /\ [SyncNext]_syncVars => MarkerInv'
  BY NextMarkers
<1>2. MarkerInv => CrashLoopEnds
  BY DEF MarkerInv, MarkerType, NotesInv, Interruption, CrashLoopEnds
<1> QED BY InitMarkers, <1>1, <1>2, PTL DEF SyncSpec

-----------------------------------------------------------------------------
(***************************************************************************)
(* The retry schedule.                                                     *)
(***************************************************************************)
\* A set of numbers that is not empty has a least one.
LEMMA Least ==
  ASSUME NEW T \in SUBSET Nat, T # {}
  PROVE  \E k \in T : \A i \in T : ~(i < k)
<1>1. \A x, y \in Nat : x < y => <<x, y>> \in OpToRel(<, Nat)
  BY DEF OpToRel
<1>2. \E k \in T : \A i \in T : <<i, k>> \notin OpToRel(<, Nat)
  BY NatLessThanWellFounded, WFMin, Zenon
<1> QED BY <1>1, <1>2

\* f is the sequence of delays that the loop of retry_delay_seconds goes through.
IsDelay(f, k) ==
    f = [n \in 1..k |->
            IF n = 1 THEN Base
            ELSE IF f[n - 1] < Cap THEN Smaller(f[n - 1] * 2, Cap) ELSE f[n - 1]]

\* The schedule doubles from the base to the cap and stays there.
LEMMA ScheduleSteps ==
  ASSUME retryMinutes \in 1..180
  PROVE  /\ \A n \in Nat : n >= 1 => Schedule(n) \in Nat /\ Schedule(n) > 0
         /\ Schedule(1) = Base /\ Base \in Nat /\ Cap \in Nat
         /\ \A n \in Nat : n > 1 =>
               Schedule(n) = IF Schedule(n - 1) < Cap THEN Smaller(Schedule(n - 1) * 2, Cap)
                             ELSE Schedule(n - 1)
         /\ \A m, n \in Nat : m > 6 /\ n > 6 => Schedule(m) = Schedule(n)
<1>1. PICK b, c : b = Base /\ c = Cap
  OBVIOUS
<1>2. b \in Nat /\ c \in Nat /\ b >= 60 /\ c >= 3600 /\ b <= c /\ c <= 64 * b
  BY <1>1 DEF Base, Cap, Larger, MaxRetryBackoffSeconds
<1>3. \A n \in Nat : n > 6 => Schedule(n) = c
  BY <1>1 DEF Schedule
<1>4. /\ Schedule(1) = b
      /\ Schedule(2) = Smaller(b * 2, c) /\ Schedule(3) = Smaller(b * 4, c)
      /\ Schedule(4) = Smaller(b * 8, c) /\ Schedule(5) = Smaller(b * 16, c)
      /\ Schedule(6) = Smaller(b * 32, c)
  <2> DEFINE t == <<1, 2, 4, 8, 16, 32>>
  <2>1. t[1] = 1 /\ t[2] = 2 /\ t[3] = 4 /\ t[4] = 8 /\ t[5] = 16 /\ t[6] = 32
    OBVIOUS
  <2>2. \A i : Schedule(i) = IF i > 6 THEN c ELSE Smaller(b * t[i], c)
    BY <1>1 DEF Schedule
  <2> HIDE DEF t
  <2>3. \A i \in 1..6 : Schedule(i) = Smaller(b * t[i], c)
    BY <2>2
  <2>4. b * 1 = b
    BY <1>2
  <2>5. Smaller(b, c) = b
    BY <1>2 DEF Smaller
  <2>6. /\ Schedule(1) = Smaller(b * t[1], c) /\ Schedule(2) = Smaller(b * t[2], c)
        /\ Schedule(3) = Smaller(b * t[3], c) /\ Schedule(4) = Smaller(b * t[4], c)
        /\ Schedule(5) = Smaller(b * t[5], c) /\ Schedule(6) = Smaller(b * t[6], c)
    BY <2>3
  <2> QED BY <2>1, <2>4, <2>5, <2>6
<1>5. ASSUME NEW n \in Nat, n > 1
      PROVE  Schedule(n) = IF Schedule(n - 1) < c THEN Smaller(Schedule(n - 1) * 2, c) ELSE Schedule(n - 1)
  <2>1. CASE n > 7
    BY <1>2, <1>3, <2>1
  <2>2. CASE n = 7
    BY <1>2, <1>3, <1>4, <2>2 DEF Smaller
  <2>3. CASE n \in 2..6
    <3>1. n = 2 \/ n = 3 \/ n = 4 \/ n = 5 \/ n = 6
      BY <2>3
    <3> QED BY <1>2, <1>4, <3>1 DEF Smaller
  <2> QED BY <1>5, <2>1, <2>2, <2>3
<1>6. ASSUME NEW n \in Nat, n >= 1 PROVE Schedule(n) \in Nat /\ Schedule(n) > 0
  <2>1. n > 6 \/ n = 1 \/ n = 2 \/ n = 3 \/ n = 4 \/ n = 5 \/ n = 6
    BY <1>6
  <2> QED BY <1>2, <1>3, <1>4, <2>1 DEF Smaller
<1> QED BY <1>1, <1>2, <1>3, <1>4, <1>5, <1>6

\* The loop computes the schedule, for every number of failed batches.
LEMMA DelayIsScheduled ==
  ASSUME retryMinutes \in 1..180, NEW batches \in Nat
  PROVE  RetryDelay(batches) = Schedule(Larger(batches, 1))
<1> DEFINE k == Larger(batches, 1)
           d == CHOOSE f : f = [n \in 1..k |->
                  IF n = 1 THEN Base
                  ELSE IF f[n - 1] < Cap THEN Smaller(f[n - 1] * 2, Cap) ELSE f[n - 1]]
           g == [n \in 1..k |-> Schedule(n)]
<1>1. k \in Nat /\ k >= 1
  BY DEF Larger
<1>2. RetryDelay(batches) = d[k]
  BY Zenon DEF RetryDelay
<1> HIDE DEF k
<1>3. \A n \in 1..k : g[n] = IF n = 1 THEN Base
                             ELSE IF g[n - 1] < Cap THEN Smaller(g[n - 1] * 2, Cap) ELSE g[n - 1]
  BY <1>1, ScheduleSteps
<1>4. IsDelay(g, k)
  <2>1. g = [n \in 1..k |-> g[n]]
    OBVIOUS
  <2> HIDE DEF g
  <2> QED BY <1>3, <2>1 DEF IsDelay
<1>5. IsDelay(d, k)
  BY <1>4, Zenon DEF IsDelay
<1> HIDE DEF d, g
<1> DEFINE T == {i \in Nat : i \in 1..k /\ d[i] # Schedule(i)}
<1>6. T = {}
  <2> SUFFICES ASSUME T # {} PROVE FALSE
    OBVIOUS
  <2>1. PICK j \in T : \A i \in T : ~(i < j)
    BY Least, Zenon
  <2>2. \A n \in 1..k : d[n] = IF n = 1 THEN Base
                               ELSE IF d[n - 1] < Cap THEN Smaller(d[n - 1] * 2, Cap) ELSE d[n - 1]
    BY <1>5 DEF IsDelay
  <2>3. j # 1 /\ j \in 1..k /\ j - 1 \in 1..k /\ j - 1 < j
    BY <1>1, <2>1, <2>2, ScheduleSteps
  <2>4. d[j - 1] = Schedule(j - 1)
    BY <2>1, <2>3
  <2> QED BY <1>1, <2>1, <2>2, <2>3, <2>4, ScheduleSteps
<1>7. d[k] = Schedule(k)
  BY <1>1, <1>6
<1> QED BY <1>2, <1>7 DEF k

\* The last attempt on the clock is no earlier than the clock, as it is set now,
\* was then, but for what it was set ahead; the code's count of failed batches
\* is the true one up to 32; a sleep ends in the future.
RetryInv ==
    /\ retryMinutes \in 1..180
    /\ time \in Nat /\ offset \in Int /\ Clock > 0 /\ sleepUntil \in Int
    /\ sleepUntil # 0 => sleepUntil >= time
    /\ lastQueueAttempt \in Int /\ failedQueueBatches \in Nat
    /\ attempted \in Nat /\ streak \in Nat /\ ahead \in Nat
    /\ attempted # 0 => /\ streak >= 1 /\ lastQueueAttempt # 0
                        /\ lastQueueAttempt >= attempted + offset - ahead
    /\ backupsExist => failedQueueBatches = Smaller(streak, 32)

\* A wait is not negative.
LEMMA WaitIsLater == RetryInv => RetryWait \in Nat
<1> SUFFICES ASSUME RetryInv PROVE RetryWait \in Nat
  OBVIOUS
<1>1. RetryDelay(failedQueueBatches) \in Nat
  BY DelayIsScheduled, ScheduleSteps DEF RetryInv, Larger
<1> QED BY <1>1 DEF RetryInv, RetryWait, Larger, Smaller, Clock, MainMaintenanceWait

\* A batch, of a closed title or a retry, whose counts agree.
LEMMA AttemptKept ==
  ASSUME RetryInv, NEW batches \in Nat, NEW before \in Nat, batches = Smaller(before, 32),
         Attempt(batches, before), sleepUntil = 0
  PROVE  RetryInv'
<1>1. PICK uploaded \in BOOLEAN, left \in BOOLEAN :
        /\ time' = time + Tick /\ RecordQueueAttempt(batches, uploaded, left)
        /\ attempted' = time' /\ streak' = (IF uploaded THEN 1 ELSE before + 1) /\ ahead' = 0
        /\ UNCHANGED <<retryMinutes, offset, sleepUntil, jumps>>
  BY DEF Attempt
<1>2. /\ lastQueueAttempt' = time' + offset /\ backupsExist' = left
      /\ failedQueueBatches' = IF ~left THEN 0 ELSE IF uploaded THEN 1 ELSE Smaller(batches + 1, 32)
  BY <1>1 DEF RecordQueueAttempt
<1>3. time' \in Nat /\ time' > 0 /\ time' + offset > 0 /\ lastQueueAttempt' > 0
  BY <1>1, <1>2, TimeAssumption DEF RetryInv, Clock
<1>4. streak' \in Nat /\ streak' >= 1 /\ failedQueueBatches' \in Nat
      /\ (backupsExist' => failedQueueBatches' = Smaller(streak', 32))
  BY <1>1, <1>2 DEF Smaller
<1> QED BY <1>1, <1>2, <1>3, <1>4 DEF RetryInv, Clock

\* The invariant holds at first and is kept.
LEMMA RetryInitInv == RetryInit => RetryInv
BY RetryMinutesAssumption DEF RetryInit, RetryInv, Clock, Epoch, MaxRetryBackoffSeconds, Smaller

\* Every step of the loop, the clock and the console keeps it.
LEMMA RetryNextInv == ASSUME RetryInv, [RetryNext]_retryVars PROVE RetryInv'
<1>1. CASE TitleClosed
  BY <1>1, AttemptKept DEF TitleClosed, Smaller
<1>2. CASE Retry
  BY <1>2, AttemptKept DEF Retry, RetryInv
<1>3. CASE NothingPending
  BY <1>3 DEF NothingPending, RetryInv, Clock, MainMaintenanceWait
<1>4. CASE WaitForRetry
  <2>1. RetryWait \in Nat
    BY WaitIsLater
  <2> QED BY <1>4, <2>1 DEF WaitForRetry, RetryInv, Clock, retryHistory
<1>5. CASE Wake
  BY <1>5, TimeAssumption DEF Wake, RetryInv, Clock, retryHistory
<1>6. CASE SetClock
  BY <1>6, JumpsAssumption DEF SetClock, RetryInv, Clock, Larger
<1>7. CASE Restart
  BY <1>7 DEF Restart, RetryInv, Clock, Smaller
<1>8. CASE UNCHANGED retryVars
  BY <1>8 DEF retryVars, RetryInv, Clock
<1> QED BY <1>1, <1>2, <1>3, <1>4, <1>5, <1>6, <1>7, <1>8 DEF RetryNext

\* However the loop is woken and wherever the clock is set, a retry keeps the
\* schedule of the change log (retry_delay_seconds, retry_wait_ns), but for what
\* the clock was set ahead.
THEOREM RetriesKeepSchedule == RetrySpec => RetryNotEarly
<1>1. ASSUME RetryInv, Retry, attempted # 0 PROVE time - attempted >= Schedule(streak) - ahead
  <2>1. backupsExist /\ RetryWait = 0 /\ lastQueueAttempt # 0 /\ streak \in Nat /\ streak >= 1
        /\ failedQueueBatches = Smaller(streak, 32)
    BY <1>1 DEF Retry, RetryInv
  <2>2. RetryDelay(failedQueueBatches) = Schedule(streak)
    <3>1. Larger(failedQueueBatches, 1) = failedQueueBatches /\ failedQueueBatches \in Nat
      BY <2>1 DEF Larger, Smaller
    <3>2. RetryDelay(failedQueueBatches) = Schedule(failedQueueBatches)
      BY <1>1, <3>1, DelayIsScheduled DEF RetryInv
    <3>3. streak > 32 => failedQueueBatches = 32
      BY <2>1 DEF Smaller
    <3>4. ~(streak > 32) => failedQueueBatches = streak
      BY <2>1 DEF Smaller
    <3>5. streak > 32 => Schedule(32) = Schedule(streak)
      BY <1>1, <2>1, ScheduleSteps DEF RetryInv
    <3> QED BY <3>2, <3>3, <3>4, <3>5
  <2>3. Schedule(streak) \in Nat /\ Schedule(streak) > 0
    BY <1>1, <2>1, ScheduleSteps DEF RetryInv
  <2>4. Larger(Clock - lastQueueAttempt, 0) >= Schedule(streak)
    <3>1. Larger(Clock - lastQueueAttempt, 0) \in Int
      BY <1>1 DEF RetryInv, Clock, Larger
    <3> QED BY <2>1, <2>2, <2>3, <3>1 DEF RetryWait, Smaller, MainMaintenanceWait
  <2> QED BY <1>1, <2>3, <2>4 DEF RetryInv, Clock, Larger
<1>2. RetryInv /\ [RetryNext]_retryVars =>
        [Retry /\ attempted # 0 => time - attempted >= Schedule(streak) - ahead]_retryVars
  BY <1>1
<1>3. RetryInv /\ [RetryNext]_retryVars => RetryInv'
  BY RetryNextInv
<1> QED BY RetryInitInv, <1>2, <1>3, PTL DEF RetrySpec, RetryNotEarly

-----------------------------------------------------------------------------
(***************************************************************************)
(* The upload protocol.                                                    *)
(***************************************************************************)
USE SizesAssumption, MaxSlicesAssumption, BoundsAssumption, ContentAssumption

\* What holds in every state.
UInv == TypeOK /\ SlicesKept /\ NeverTorn /\ DoneIsWhole

\* What a request leaves of the client's counters and its token.
Outcome ==
    /\ expires' \in {"ahead", "past", "zero"} /\ faults' \in 0..MaxFaults
    /\ losses' \in 0..faults' /\ broken' \in BOOLEAN

\* The slices of the archive in hand are slices.
LEMMA PartsAreSlices == slices \in Sizes => Parts \subseteq Slice
BY DEF Parts, Slice

LEMMA EmptyType == Empty \in [Slice -> Slice \cup {Missing, Garbled}]
BY DEF Empty

LEMMA InitInv == Init => UInv
<1> SUFFICES ASSUME Init PROVE UInv OBVIOUS
<1> USE DEF Init
<1>1. ClientType
  <2>1. 0 \in Slice
    BY DEF Slice
  <2>2. pc \in PC /\ pc \notin {"slice", "send"}
    BY DEF PC
  <2> QED BY <2>1, <2>2 DEF ClientType
<1>2. TokenType
  BY DEF TokenType
<1>3. DriveType
  BY EmptyType DEF DriveType
<1>4. CountType
  BY DEF CountType
<1>5. SlicesKept /\ NeverTorn /\ DoneIsWhole
  BY DEF SlicesKept, NeverTorn, DoneIsWhole
<1> QED BY <1>1, <1>2, <1>3, <1>4, <1>5 DEF UInv, TypeOK

LEMMA OutcomeType ==
  ASSUME TokenType, CountType, Accepted \/ Rejected \/ Failed
  PROVE  Outcome
<1> USE DEF TokenType, CountType, Outcome
<1>1. CASE Accepted BY <1>1 DEF Accepted
<1>2. CASE Rejected BY <1>2 DEF Rejected
<1>3. CASE Failed BY <1>3 DEF Failed, Faulty
<1> QED BY <1>1, <1>2, <1>3

LEMMA AttemptFailsType ==
  ASSUME ClientType, AttemptFails
  PROVE  pc' \in {"failed", "token"} /\ attempt' \in 1..2
BY DEF ClientType, AttemptFails

LEMMA CallInv == UInv /\ Call => UInv'
<1> SUFFICES ASSUME UInv, Call PROVE UInv' OBVIOUS
<1> USE DEF UInv, TypeOK, Call, token, drive
<1>1. ClientType'
  BY DEF ClientType, PC, Parts
<1>2. TokenType'
  BY DEF TokenType
<1>3. DriveType'
  BY DEF DriveType
<1>4. CountType'
  BY DEF CountType
<1>5. SlicesKept' /\ NeverTorn' /\ DoneIsWhole'
  BY DEF SlicesKept, NeverTorn, DoneIsWhole, Parts
<1> QED BY <1>1, <1>2, <1>3, <1>4, <1>5

LEMMA AnotherInv == UInv /\ Another => UInv'
<1> SUFFICES ASSUME UInv, Another PROVE UInv' OBVIOUS
<1> USE DEF UInv, TypeOK, Another, token, history
<1>1. ClientType'
  BY DEF ClientType, PC, Parts
<1>2. TokenType'
  BY DEF TokenType
<1>3. DriveType'
  BY EmptyType DEF DriveType
<1>4. CountType'
  BY DEF CountType
<1>5. SlicesKept' /\ NeverTorn' /\ DoneIsWhole'
  BY DEF SlicesKept, NeverTorn, DoneIsWhole, Parts
<1> QED BY <1>1, <1>2, <1>3, <1>4, <1>5

LEMMA RevokeInv == UInv /\ Revoke => UInv'
<1> SUFFICES ASSUME UInv, Revoke PROVE UInv' OBVIOUS
<1> USE DEF UInv, TypeOK, Revoke, client, drive
<1>1. ClientType'
  BY DEF ClientType, PC, Parts
<1>2. TokenType'
  BY DEF TokenType
<1>3. DriveType'
  BY DEF DriveType
<1>4. CountType'
  BY DEF CountType
<1>5. SlicesKept' /\ NeverTorn' /\ DoneIsWhole'
  BY DEF SlicesKept, NeverTorn, DoneIsWhole, Parts
<1> QED BY <1>1, <1>2, <1>3, <1>4, <1>5

LEMMA EnsureTokenInv == UInv /\ EnsureToken => UInv'
<1> SUFFICES ASSUME UInv, EnsureToken PROVE UInv' OBVIOUS
<1> USE DEF UInv, TypeOK, EnsureToken, drive
<1>1. ClientType'
  BY DEF ClientType, PC, Parts
<1>2. TokenType'
  BY DEF TokenType
<1>3. DriveType'
  BY DEF DriveType
<1>4. CountType'
  BY DEF CountType
<1>5. SlicesKept' /\ NeverTorn' /\ DoneIsWhole'
  BY DEF SlicesKept, NeverTorn, DoneIsWhole, Parts
<1> QED BY <1>1, <1>2, <1>3, <1>4, <1>5

LEMMA CreateDirectoryInv == UInv /\ CreateDirectory => UInv'
<1> SUFFICES ASSUME UInv, CreateDirectory PROVE UInv' OBVIOUS
<1> USE DEF UInv, TypeOK, CreateDirectory, drive
<1>1. Outcome
  BY OutcomeType
<1>2. pc' \in {"parent", "failed", "token"} /\ attempt' \in 1..2 /\ directories' \in 0..Directories
  <2>1. CASE directories' = directories - 1 /\ UNCHANGED <<pc, attempt>>
    BY <2>1 DEF ClientType
  <2>2. CASE AttemptFails /\ UNCHANGED directories
    BY <2>2, AttemptFailsType DEF ClientType
  <2> QED BY <2>1, <2>2
<1>3. ClientType'
  BY <1>2 DEF ClientType, PC, Parts
<1>4. TokenType' /\ DriveType'
  BY <1>1 DEF TokenType, DriveType, Outcome
<1>5. CountType'
  BY <1>1 DEF CountType, Outcome
<1>6. SlicesKept' /\ NeverTorn' /\ DoneIsWhole'
  BY <1>2 DEF SlicesKept, NeverTorn, DoneIsWhole
<1> QED BY <1>3, <1>4, <1>5, <1>6

LEMMA HashSourceInv == UInv /\ HashSource => UInv'
<1> SUFFICES ASSUME UInv, HashSource PROVE UInv' OBVIOUS
<1> USE DEF UInv, TypeOK, HashSource, drive
<1>1. Outcome
  <2>1. CASE UNCHANGED <<expires, faults, losses, broken>>
    BY <2>1 DEF TokenType, CountType, Outcome
  <2>2. CASE Failed
    BY <2>2, OutcomeType
  <2> QED BY <2>1, <2>2
<1>2. pc' \in {"precreate", "failed", "token"} /\ attempt' \in 1..2
  <2>1. CASE pc' = "precreate" /\ UNCHANGED attempt
    BY <2>1 DEF ClientType
  <2>2. CASE AttemptFails
    BY <2>2, AttemptFailsType
  <2> QED BY <2>1, <2>2
<1>3. ClientType'
  BY <1>2 DEF ClientType, PC, Parts
<1>4. TokenType' /\ DriveType'
  BY <1>1 DEF TokenType, DriveType, Outcome
<1>5. CountType'
  BY <1>1 DEF CountType, Outcome
<1>6. SlicesKept' /\ NeverTorn' /\ DoneIsWhole'
  BY <1>2 DEF SlicesKept, NeverTorn, DoneIsWhole
<1> QED BY <1>3, <1>4, <1>5, <1>6

LEMMA RapidUploadInv == UInv /\ RapidUpload => UInv'
<1> SUFFICES ASSUME UInv, RapidUpload PROVE UInv' OBVIOUS
<1> USE DEF UInv, TypeOK, RapidUpload
<1>1. Outcome
  BY OutcomeType
<1>2. pc' \in {"done", "failed", "token"} /\ attempt' \in 1..2
  <2>1. CASE pc' = "done" /\ UNCHANGED attempt
    BY <2>1 DEF ClientType
  <2>2. CASE AttemptFails
    BY <2>2, AttemptFailsType
  <2> QED BY <2>1, <2>2
<1>3. ClientType'
  BY <1>2 DEF ClientType, PC, Parts
<1>4. TokenType' /\ DriveType'
  BY <1>1 DEF TokenType, DriveType, Outcome
<1>5. CountType'
  BY <1>1 DEF CountType, Outcome
<1>6. SlicesKept' /\ NeverTorn' /\ DoneIsWhole'
  BY <1>2 DEF SlicesKept, NeverTorn, DoneIsWhole
<1> QED BY <1>3, <1>4, <1>5, <1>6

\* The slices that are not required are those the drive has unaltered.
LEMMA PrecreateInv == UInv /\ Precreate => UInv'
<1> SUFFICES ASSUME UInv, Precreate PROVE UInv' OBVIOUS
<1> USE DEF UInv, TypeOK, Precreate
<1>1. Outcome
  BY OutcomeType
<1>2. TokenType' /\ CountType'
  BY <1>1 DEF TokenType, CountType, Outcome
<1>3. CASE /\ \E listed \in SUBSET (0..slices) :
                 /\ {p \in Parts : session'[p] # p} \subseteq listed
                 /\ required' = RequiredParts(listed)
           /\ session' \in {session, Empty} /\ pc' = "slice" /\ UNCHANGED attempt
  <2>1. required' \subseteq Parts /\ \A p \in Parts \ required' : session'[p] = p
    BY <1>3 DEF RequiredParts
  <2>2. Parts' = Parts /\ Parts \subseteq Slice
    BY PartsAreSlices DEF Parts, ClientType
  <2>3. DriveType'
    BY <1>3, EmptyType DEF DriveType
  <2>4. ClientType'
    BY <1>3, <2>1, <2>2 DEF ClientType, PC
  <2>5. SlicesKept' /\ NeverTorn' /\ DoneIsWhole'
    BY <1>3, <2>1, <2>2 DEF SlicesKept, NeverTorn, DoneIsWhole
  <2> QED BY <1>2, <2>3, <2>4, <2>5
<1>4. CASE AttemptFails /\ UNCHANGED <<session, required>>
  <2>1. pc' \in {"failed", "token"} /\ attempt' \in 1..2
    BY <1>4, AttemptFailsType
  <2>2. ClientType'
    BY <1>4, <2>1 DEF ClientType, PC, Parts
  <2>3. DriveType'
    BY <1>4 DEF DriveType
  <2>4. SlicesKept' /\ NeverTorn' /\ DoneIsWhole'
    BY <2>1 DEF SlicesKept, NeverTorn, DoneIsWhole
  <2> QED BY <1>2, <2>2, <2>3, <2>4
<1> QED BY <1>3, <1>4

LEMMA NextSliceInv == UInv /\ NextSlice => UInv'
<1> SUFFICES ASSUME UInv, NextSlice PROVE UInv' OBVIOUS
<1> USE DEF UInv, TypeOK, NextSlice, token, drive, history
<1>1. Parts' = Parts /\ Parts \subseteq Slice /\ required \subseteq Parts
  BY PartsAreSlices DEF Parts, ClientType
<1>2. ClientType'
  BY <1>1 DEF ClientType, PC
<1>3. TokenType' /\ DriveType'
  BY DEF TokenType, DriveType
<1>4. CountType'
  BY DEF CountType
<1>5. SlicesKept' /\ NeverTorn' /\ DoneIsWhole'
  BY <1>1 DEF SlicesKept, NeverTorn, DoneIsWhole
<1> QED BY <1>2, <1>3, <1>4, <1>5

\* The slice sent is kept, or the attempt is over; the others are not touched.
LEMMA SendSliceInv == UInv /\ SendSlice => UInv'
<1> SUFFICES ASSUME UInv, SendSlice PROVE UInv' OBVIOUS
<1> USE DEF UInv, TypeOK, SendSlice
<1>1. Outcome
  BY OutcomeType
<1>2. TokenType' /\ CountType'
  BY <1>1 DEF TokenType, CountType, Outcome
<1>3. part \in Slice /\ Parts' = Parts /\ Parts \subseteq Slice
  BY PartsAreSlices DEF Parts, ClientType
<1>4. DriveType'
  BY <1>3 DEF DriveType
<1>5. CASE session' = [session EXCEPT ![part] = part] /\ pc' = "slice" /\ UNCHANGED attempt
  <2>1. ClientType'
    BY <1>5, <1>3 DEF ClientType, PC
  <2>2. SlicesKept' /\ NeverTorn' /\ DoneIsWhole'
    BY <1>5, <1>3 DEF SlicesKept, NeverTorn, DoneIsWhole, DriveType
  <2> QED BY <1>2, <1>4, <2>1, <2>2
<1>6. CASE AttemptFails
  <2>1. pc' \in {"failed", "token"} /\ attempt' \in 1..2
    BY <1>6, AttemptFailsType
  <2>2. ClientType' /\ SlicesKept' /\ NeverTorn' /\ DoneIsWhole'
    BY <2>1, <1>3 DEF ClientType, PC, SlicesKept, NeverTorn, DoneIsWhole
  <2> QED BY <1>2, <1>4, <2>2
<1> QED BY <1>5, <1>6

LEMMA SliceFailsInv == UInv /\ SliceFails => UInv'
<1> SUFFICES ASSUME UInv, SliceFails PROVE UInv' OBVIOUS
<1> USE DEF UInv, TypeOK, SliceFails
<1>1. Outcome
  <2>1. CASE Rejected
    BY <2>1, OutcomeType
  <2>2. CASE Faulty /\ losses' = losses + 1 /\ UNCHANGED broken
    BY <2>2 DEF Faulty, TokenType, CountType, Outcome
  <2> QED BY <2>1, <2>2
<1>2. TokenType' /\ CountType'
  BY <1>1 DEF TokenType, CountType, Outcome
<1>3. part \in Slice /\ Parts' = Parts /\ Parts \subseteq Slice
  BY PartsAreSlices DEF Parts, ClientType
<1>4. \A p \in Slice \ {part} : session'[p] = session[p]
  BY DEF DriveType
<1>5. DriveType'
  BY <1>3 DEF DriveType
<1>6. CASE tries' < 3 /\ UNCHANGED <<pc, attempt>>
  <2>1. ClientType'
    BY <1>6, <1>3 DEF ClientType, PC
  <2>2. SlicesKept' /\ NeverTorn' /\ DoneIsWhole'
    BY <1>6, <1>3, <1>4 DEF SlicesKept, NeverTorn, DoneIsWhole
  <2> QED BY <1>2, <1>5, <2>1, <2>2
<1>7. CASE ~(tries' < 3) /\ AttemptFails
  <2>1. pc' \in {"failed", "token"} /\ attempt' \in 1..2
    BY <1>7, AttemptFailsType
  <2>2. ClientType' /\ SlicesKept' /\ NeverTorn' /\ DoneIsWhole'
    BY <2>1, <1>3 DEF ClientType, PC, SlicesKept, NeverTorn, DoneIsWhole
  <2> QED BY <1>2, <1>5, <2>2
<1> QED BY <1>6, <1>7

\* Nothing is left to be sent: what the drive puts together is the archive.
LEMMA CreateInv == UInv /\ Create => UInv'
<1> SUFFICES ASSUME UInv, Create PROVE UInv' OBVIOUS
<1> USE DEF UInv, TypeOK, Create
<1>1. Outcome
  BY OutcomeType
<1>2. TokenType' /\ CountType'
  BY <1>1 DEF TokenType, CountType, Outcome
<1>3. Assembled = "whole"
  BY DEF SlicesKept, Assembled
<1>4. DriveType' /\ NeverTorn'
  BY <1>3 DEF DriveType, NeverTorn
<1>5. CASE pc' = "done" /\ remote' = Assembled /\ UNCHANGED attempt
  BY <1>2, <1>3, <1>4, <1>5 DEF ClientType, PC, SlicesKept, DoneIsWhole
<1>6. CASE AttemptFails
  <2>1. pc' \in {"failed", "token"} /\ attempt' \in 1..2
    BY <1>6, AttemptFailsType
  <2>2. ClientType' /\ SlicesKept' /\ DoneIsWhole'
    BY <2>1 DEF ClientType, PC, SlicesKept, DoneIsWhole
  <2> QED BY <1>2, <1>4, <2>2
<1> QED BY <1>5, <1>6

LEMMA StutterInv == UInv /\ UNCHANGED vars => UInv'
<1> USE DEF UInv, TypeOK, vars, client, token, drive, history
<1>1. UInv /\ UNCHANGED vars => ClientType' /\ TokenType' /\ DriveType' /\ CountType'
  BY DEF ClientType, TokenType, DriveType, CountType, Parts
<1>2. UInv /\ UNCHANGED vars => SlicesKept' /\ NeverTorn' /\ DoneIsWhole'
  BY DEF SlicesKept, NeverTorn, DoneIsWhole, Parts
<1> QED BY <1>1, <1>2

LEMMA NextInv == UInv /\ [Next]_vars => UInv'
BY CallInv, AnotherInv, RevokeInv, EnsureTokenInv, CreateDirectoryInv, HashSourceInv,
   RapidUploadInv, PrecreateInv, NextSliceInv, SendSliceInv, SliceFailsInv, CreateInv, StutterInv
   DEF Next, Step

\* The variables keep their types, the slices not to be sent are on the
\* drive unaltered, and a reported success means the archive is there.
THEOREM Invariance == Spec => []UInv
BY InitInv, NextInv, PTL DEF Spec

\* upload_slice and its checks: at any point of the sending loop the slices
\* done with are on the drive unaltered.
THEOREM KeptSlices == Spec => []SlicesKept
BY Invariance, PTL DEF UInv

\* Nothing but the whole archive ever appears at the remote path.
THEOREM TornNever == Spec => []NeverTorn
BY Invariance, PTL DEF UInv

Busy == PC \ {"idle", "done", "failed"}

\* Every step of the client starts inside a call and stays there or ends it;
\* at the remote path it changes nothing or puts the archive.
LEMMA StepShape ==
  ASSUME UInv, UInv', Step
  PROVE  /\ pc \in Busy /\ pc' \in Busy \cup {"done", "failed"}
         /\ remote' \in {remote, "whole"}
         /\ pc' = "done" => remote' = "whole"
<1>1. pc' \in PC /\ (pc' = "done" => remote' = "whole") /\ remote' \in {"old", "whole"}
  BY DEF UInv, TypeOK, ClientType, DriveType, DoneIsWhole, NeverTorn
<1>2. pc \in Busy /\ pc' # "idle"
  BY <1>1 DEF Busy, PC, Step, EnsureToken, CreateDirectory, HashSource, RapidUpload, Precreate,
     NextSlice, SendSlice, SliceFails, Create, AttemptFails
<1>3. remote' = remote \/ remote' = "whole"
  <2>1. CASE Create
    BY <2>1, <1>1 DEF Create, Assembled
  <2>2. CASE Step /\ ~Create
    BY <2>2 DEF Step, EnsureToken, CreateDirectory, HashSource, RapidUpload, Precreate,
       NextSlice, SendSlice, SliceFails, drive
  <2> QED BY <2>1, <2>2
<1> QED BY <1>1, <1>2, <1>3 DEF Busy

LEMMA InitRefines == Init => Contract!Init
BY DEF Init, Contract!Init, Status

LEMMA NextRefines ==
  ASSUME UInv, UInv', [Next]_vars
  PROVE  [Contract!Next]_(Contract!contract)
<1> USE DEF Contract!contract
<1>1. CASE Call
  BY <1>1 DEF Call, drive, Status, Contract!Next, Contract!Call
<1>2. CASE Another
  BY <1>2 DEF Another, Status, Contract!Next, Contract!Another
<1>3. CASE Revoke
  BY <1>3 DEF Revoke, client, drive, Status
<1>4. CASE Step
  <2>1. Status = "busy" /\ Status' \in {"busy", "done", "failed"}
    BY <1>4, StepShape DEF Busy, PC, Status
  <2>2. CASE remote' = "whole"
    BY <2>1, <2>2 DEF Contract!Next, Contract!Arrive
  <2>3. CASE remote' = remote /\ remote' # "whole"
    <3>1. Status' # "done"
      BY <1>4, <2>3, StepShape DEF Status
    <3> QED BY <2>1, <2>3, <3>1 DEF Contract!Next, Contract!Return
  <2> QED BY <1>4, <2>2, <2>3, StepShape
<1>5. CASE UNCHANGED vars
  BY <1>5 DEF vars, client, drive, Status
<1> QED BY <1>1, <1>2, <1>3, <1>4, <1>5 DEF Next

\* upload_file keeps the contract process_pending_backups relies on: the
\* remote file changes as a whole and a reported success is the truth.
THEOREM Implements == Spec => ImplementsContract
BY InitInv, NextInv, InitRefines, NextRefines, PTL
   DEF Spec, ImplementsContract, Contract!Spec

-----------------------------------------------------------------------------
(***************************************************************************)
(* Why an upload survives one rejected token and two lost slices.          *)
(***************************************************************************)
Requests == {"parent", "precreate", "slice", "send"}

\* A token that is zero while requests are sent was rejected in this
\* attempt; a second attempt starts with a token the drive has just given,
\* so that one rejected in it is the second; and the tries of a slice
\* without a rejection are lost requests.
RejectionInv ==
    /\ access = "revoked" => rejections >= 1
    /\ pc \in Requests /\ expires = "zero" => access = "revoked"
    /\ attempt = 2 /\ pc = "token" => expires = "zero"
    /\ attempt = 2 /\ pc \in Requests \cup {"token"} => rejections >= 1
    /\ attempt = 2 /\ pc \in Requests /\ access = "revoked" => rejections >= 2
    /\ pc = "send" /\ expires # "zero" => tries <= losses

SInv == RejectionInv /\ SurvivesOneRejection

\* The numbers the invariant compares.
LEMMA Numbers ==
  ASSUME UInv
  PROVE  /\ pc \in PC /\ slices \in Nat /\ attempt \in 1..2 /\ tries \in Nat
         /\ losses \in Nat /\ rejections \in Nat
         /\ expires \in {"ahead", "past", "zero"} /\ access \in {"good", "revoked"}
<1>1. pc \in PC /\ slices \in Sizes /\ attempt \in 1..2 /\ tries \in 0..3
  BY DEF UInv, TypeOK, ClientType
<1>2. losses \in 0..faults /\ rejections \in 0..revokes+1 /\ faults \in Nat /\ revokes \in Nat
  BY DEF UInv, TypeOK, CountType
<1>3. expires \in {"ahead", "past", "zero"} /\ access \in {"good", "revoked"}
  BY DEF UInv, TypeOK, TokenType
<1> QED BY <1>1, <1>2, <1>3

LEMMA InitSurvives == Init => SInv
<1> SUFFICES ASSUME Init PROVE SInv OBVIOUS
<1>1. pc = "idle" /\ attempt = 1 /\ access \in {"good", "revoked"} /\ (access = "revoked" => rejections = 1)
  BY DEF Init
<1> QED BY <1>1 DEF SInv, RejectionInv, SurvivesOneRejection, Requests

\* A request that fails while the token has not been rejected, or in the
\* second attempt, fails the call: then it is not the first rejection.
LEMMA FailureSurvives ==
  ASSUME UInv, UInv', SInv, pc \in Requests, AttemptFails,
         UNCHANGED <<access, rejections, refreshable, slices>>,
         expires' = expires \/ (expires' = "zero" /\ access = "revoked"),
         broken' \/ losses' >= 3 \/ expires' = "zero" \/ slices > MaxSlices
  PROVE  SInv'
<1> USE DEF SInv, RejectionInv, SurvivesOneRejection
<1>1. CASE attempt = 2 \/ expires' # "zero" \/ ~refreshable
  <2>1. pc' = "failed" /\ attempt' = attempt /\ UNCHANGED <<access, rejections, refreshable, slices>>
    BY <1>1 DEF AttemptFails
  <2>2. expires' = "zero" => access = "revoked"
    OBVIOUS
  <2>3. refreshable /\ expires' = "zero" => rejections >= 2
    BY <1>1, <2>2
  <2>4. SurvivesOneRejection'
    <3>1. losses' \in Nat
      BY DEF UInv, TypeOK, CountType
    <3>2. refreshable /\ slices <= MaxSlices /\ ~(losses' >= 3) /\ ~broken' => rejections >= 2
      BY <2>3, Numbers
    <3> QED BY <2>1, <3>1, <3>2
  <2>5. RejectionInv'
    BY <2>1 DEF Requests
  <2> QED BY <2>4, <2>5
<1>2. CASE attempt = 1 /\ expires' = "zero" /\ refreshable
  BY <1>2, Numbers DEF AttemptFails, Requests
<1> QED BY <1>1, <1>2, Numbers

LEMMA SurvivesNext == ASSUME UInv, UInv', SInv, [Next]_vars PROVE SInv'
<1> USE Numbers DEF SInv, RejectionInv, SurvivesOneRejection, Requests, PC
<1>1. CASE Call
  BY <1>1 DEF Call, token
<1>2. CASE Another
  BY <1>2 DEF Another, token, history
<1>3. CASE Revoke
  BY <1>3 DEF Revoke, client
<1>4. CASE EnsureToken
  BY <1>4 DEF EnsureToken
<1>5. CASE CreateDirectory
  BY <1>5, FailureSurvives DEF CreateDirectory, Accepted, Rejected, Failed, Faulty
<1>6. CASE HashSource
  BY <1>6, FailureSurvives DEF HashSource, Failed, Faulty
<1>7. CASE RapidUpload
  BY <1>7, FailureSurvives DEF RapidUpload, Accepted, Failed, Faulty
<1>8. CASE Precreate
  BY <1>8, FailureSurvives DEF Precreate, Accepted, Rejected, Failed, Faulty
<1>9. CASE NextSlice
  BY <1>9 DEF NextSlice, token, history
<1>10. CASE SendSlice
  BY <1>10, FailureSurvives DEF SendSlice, Accepted, Failed, Faulty
<1>11. CASE SliceFails
  BY <1>11, FailureSurvives DEF SliceFails, Rejected, Faulty
<1>12. CASE Create
  BY <1>12, FailureSurvives DEF Create, Accepted, Rejected, Failed, Faulty
<1>13. CASE UNCHANGED vars
  BY <1>13 DEF vars, client, token, history
<1> QED BY <1>1, <1>2, <1>3, <1>4, <1>5, <1>6, <1>7, <1>8, <1>9, <1>10, <1>11, <1>12, <1>13 DEF Next, Step

THEOREM Survives == Spec => []SurvivesOneRejection
<1>1. UInv /\ UInv' /\ SInv /\ [Next]_vars => SInv'
  BY SurvivesNext
<1>2. SInv => SurvivesOneRejection
  BY DEF SInv
<1> QED BY Invariance, InitSurvives, <1>1, <1>2, PTL DEF Spec
=============================================================================
