--------------------------- MODULE BackgroundSync ---------------------------
(***************************************************************************)
(* The two threads of the background sysmodule (sysmodule/source/main.cpp):*)
(* the monitor that follows the running application and the main loop that *)
(* backs up closed titles and retries the queue, with the self-disable     *)
(* markers that survive a crash.                                           *)
(*                                                                         *)
(* They share g_runningTitleId, g_pendingTitleId and the work event; each  *)
(* access of one of these is a step of its own.  What prepare_title_       *)
(* backups and process_pending_backups do to the queue is the subject of   *)
(* BackupQueue; here they succeed or fail and leave a queue behind or not. *)
(* Retry times are the subject of RetryBackoff; here a retry may be due or *)
(* not.  A program id is abstracted to a title, the constant 1 by which    *)
(* an unresolved application is published to Unknown, and 0 to NoTitle.    *)
(***************************************************************************)
EXTENDS Naturals

CONSTANTS
    Game,          \* titles in the range of valid_game_title
    OtherApp,      \* further applications
    NoTitle, Unknown,
    Modes,         \* how the monitor may learn of applications
    MaxEvents,     \* bound: applications started and crashes
    MaxCrashes,    \* bound: power losses and crashes
    MaxFailures    \* bound: prepare_title_backups failing for lack of space

Title == Game \cup OtherApp

ASSUME TitleAssumption ==
    /\ Game # {} /\ Game \cap OtherApp = {}
    /\ NoTitle \notin Title \cup {Unknown} /\ Unknown \notin Title
ASSUME ModesAssumption == Modes # {} /\ Modes \subseteq {"events", "polling"}
ASSUME EventsAssumption == MaxEvents \in Nat /\ MaxCrashes \in Nat /\ MaxFailures \in Nat

VARIABLES
    app,           \* the running application: [pid, title], pid 0 for none
    launches,      \* the last process id given out
    processEvent,  \* s_processEvent is signalled
    enabled,       \* settings.enabled in baidu.json
    mode, mpc,     \* the monitor thread
    mon,           \* its MonitorState: pid, title, runningTicks (capped at 2)
    seen,          \* the process id its last query returned
    misses,        \* failureCount of the polling loop
    closing,       \* closedTitle of close_monitored_application
    running,       \* g_runningTitleId
    pending,       \* g_pendingTitleId
    workEvent,     \* s_workEvent is signalled
    mainPc,        \* the main thread
    deferred,      \* deferredTitle
    title,         \* the title of the operation under way
    waitsFor,      \* why the main thread sleeps
    queued,        \* pending_backups_exist()
    runMarker, interruptedMarker, bootFlag,   \* files on the card
    interrupted,   \* history: operations interrupted since one completed
    crashes, failures

env == <<app, launches, processEvent, enabled>>
monitor == <<mode, mpc, mon, seen, misses, closing>>
shared == <<running, pending, workEvent>>
main == <<mainPc, deferred, title, waitsFor>>
card == <<queued, runMarker, interruptedMarker, bootFlag>>
bounds == <<crashes, failures>>
syncVars == <<env, monitor, shared, main, card, interrupted, bounds>>

NoApp == [pid |-> 0, title |-> NoTitle]
NoProcess == [pid |-> 0, title |-> NoTitle, ticks |-> 0]

\* Program points inside a guarded operation.
Guarded == {"prepare", "saving", "upload", "end", "endMarker"}

Volatile ==
    /\ mpc' = "none" /\ mon' = NoProcess /\ seen' = 0 /\ misses' = 0 /\ closing' = NoTitle
    /\ running' = NoTitle /\ pending' = NoTitle /\ workEvent' = FALSE
    /\ deferred' = NoTitle /\ title' = NoTitle /\ waitsFor' = "nothing"
    /\ app' = NoApp /\ processEvent' = FALSE

SyncInit ==
    /\ app = NoApp /\ launches = 0 /\ processEvent = FALSE /\ enabled = TRUE
    /\ mode \in Modes /\ mpc = "none" /\ mon = NoProcess /\ seen = 0 /\ misses = 0
    /\ closing = NoTitle
    /\ running = NoTitle /\ pending = NoTitle /\ workEvent = FALSE
    /\ mainPc = "boot" /\ deferred = NoTitle /\ title = NoTitle /\ waitsFor = "nothing"
    /\ queued \in BOOLEAN
    /\ runMarker = FALSE /\ interruptedMarker = FALSE /\ bootFlag = TRUE
    /\ interrupted = 0
    /\ crashes = 0 /\ failures = 0

(***************************************************************************)
(* The console and its user.                                               *)
(***************************************************************************)
Launch(t) ==
    /\ mainPc # "off" /\ app = NoApp /\ launches + crashes < MaxEvents
    /\ launches' = launches + 1
    /\ app' = [pid |-> launches', title |-> t]
    /\ processEvent' = TRUE
    /\ UNCHANGED <<enabled, monitor, shared, main, card, interrupted, bounds>>

Exit ==
    /\ app # NoApp
    /\ app' = NoApp /\ processEvent' = TRUE
    /\ UNCHANGED <<launches, enabled, monitor, shared, main, card, interrupted, bounds>>

ToggleSetting ==
    /\ enabled' = ~enabled
    /\ UNCHANGED <<app, launches, processEvent, monitor, shared, main, card, interrupted, bounds>>

\* Power loss or a crash of the sysmodule.
Crash ==
    /\ mainPc # "off" /\ crashes < MaxCrashes /\ launches + crashes < MaxEvents
    /\ crashes' = crashes + 1
    /\ mainPc' = "off" /\ Volatile
    /\ interrupted' = IF mainPc \in Guarded /\ runMarker THEN interrupted + 1 ELSE interrupted
    /\ UNCHANGED <<launches, enabled, mode, card, failures>>

Start ==
    /\ mainPc = "off" /\ bootFlag
    /\ mainPc' = "boot" /\ mode' \in Modes
    /\ UNCHANGED <<env, mpc, mon, seen, misses, closing, shared, deferred, title, waitsFor,
                   card, interrupted, bounds>>

(***************************************************************************)
(* The monitor thread.                                                     *)
(***************************************************************************)
\* eventWait returns on the process event or after its reconcile timeout;
\* the polling loop comes round after its sleep.
MonitorWakes ==
    /\ mpc = "wait"
    /\ mpc' = "query" /\ processEvent' = FALSE
    /\ UNCHANGED <<app, launches, enabled, mode, mon, seen, misses, closing, shared, main,
                   card, interrupted, bounds>>

\* Three event errors in a row: MONITOR_MODE fallback=polling.
FallBackToPolling ==
    /\ mpc = "wait" /\ mode = "events" /\ "polling" \in Modes
    /\ mode' = "polling" /\ misses' = 0
    /\ UNCHANGED <<env, mpc, mon, seen, closing, shared, main, card, interrupted, bounds>>

QueryApplication ==
    /\ mpc = "query"
    /\ mpc' = "handle" /\ seen' = app.pid
    /\ UNCHANGED <<env, mode, mon, misses, closing, shared, main, card, interrupted, bounds>>

\* pminfoGetProgramId knows processes that still exist.
ProgramId(pid) == IF pid = app.pid THEN app.title ELSE NoTitle

Published(t) == IF t = NoTitle THEN Unknown ELSE t

AtLeastTwo(n) == IF n >= 2 THEN 2 ELSE n

\* observe_running_application for the process already followed, or, with
\* ticks = 0, for one just adopted.
Follow(pid, known, ticks) ==
    LET t == IF known = NoTitle THEN ProgramId(pid) ELSE known IN
    /\ mon' = [pid |-> pid, title |-> t,
               ticks |-> IF mode = "events" THEN 2 ELSE AtLeastTwo(ticks + 1)]
    /\ running' = Published(t)
    /\ mpc' = "wait"

SameApplication ==
    /\ mpc = "handle" /\ seen # 0 /\ seen = mon.pid
    /\ Follow(seen, mon.title, mon.ticks)
    /\ misses' = 0
    /\ UNCHANGED <<env, mode, seen, closing, pending, workEvent, main, card, interrupted, bounds>>

Adopt ==
    /\ \/ mpc = "handle" /\ seen # 0 /\ mon.pid = 0
       \/ mpc = "adopt"
    /\ Follow(seen, NoTitle, 0)
    /\ misses' = 0
    /\ UNCHANGED <<env, mode, seen, closing, pending, workEvent, main, card, interrupted, bounds>>

\* Variant for mutation: the sentinel of a direct transition is forgotten.
CloseUnblocked(another, next) ==
    /\ mon' = NoProcess
    /\ running' = NoTitle
    /\ IF mon.pid # 0 /\ mon.ticks >= 2
       THEN closing' = mon.title /\ mpc' = "signal"
       ELSE closing' = NoTitle /\ mpc' = next

\* close_monitored_application up to its store of g_runningTitleId; "next"
\* is where its caller goes on.
Close(another, next) ==
    /\ mon' = NoProcess
    /\ running' = IF another THEN Unknown ELSE NoTitle
    /\ IF mon.pid # 0 /\ mon.ticks >= 2
       THEN closing' = mon.title /\ mpc' = "signal"
       ELSE closing' = NoTitle /\ mpc' = next

\* Applications transition directly.
SwitchApplication ==
    /\ mpc = "handle" /\ seen # 0 /\ mon.pid \notin {0, seen}
    /\ Close(TRUE, "adopt")
    /\ misses' = 0
    /\ UNCHANGED <<env, mode, seen, pending, workEvent, main, card, interrupted, bounds>>

\* No application was found; polling asks twice before it believes it.
ApplicationGone ==
    /\ mpc = "handle" /\ seen = 0
    /\ mode = "polling" => misses >= 1
    /\ Close(FALSE, "wait")
    /\ misses' = 0
    /\ UNCHANGED <<env, mode, seen, pending, workEvent, main, card, interrupted, bounds>>

FirstMiss ==
    /\ mpc = "handle" /\ seen = 0 /\ mode = "polling" /\ misses = 0
    /\ misses' = 1 /\ mpc' = "wait"
    /\ UNCHANGED <<env, mode, mon, seen, closing, shared, main, card, interrupted, bounds>>

\* Variant for mutation: only a game that could be noted wakes the main loop.
SignalNotedGames ==
    /\ mpc = "signal"
    /\ pending' = IF closing \in Game /\ pending = NoTitle THEN closing ELSE pending
    /\ mpc' = IF pending' # pending THEN "fire" ELSE IF seen # 0 THEN "adopt" ELSE "wait"
    /\ UNCHANGED <<env, mode, mon, seen, misses, closing, running, workEvent, main, card,
                   interrupted, bounds>>

\* signal_closed_title: one compare-and-exchange from 0, then the event.
SignalClosedTitle ==
    /\ mpc = "signal"
    /\ pending' = IF closing \in Game /\ pending = NoTitle THEN closing ELSE pending
    /\ mpc' = "fire"
    /\ UNCHANGED <<env, mode, mon, seen, misses, closing, running, workEvent, main, card,
                   interrupted, bounds>>

FireWorkEvent ==
    /\ mpc = "fire"
    /\ workEvent' = TRUE
    /\ mpc' = IF seen # 0 THEN "adopt" ELSE "wait"
    /\ closing' = NoTitle
    /\ UNCHANGED <<env, mode, mon, seen, misses, running, pending, main, card, interrupted, bounds>>

(***************************************************************************)
(* The main thread: booting.                                               *)
(***************************************************************************)
\* handle_previous_interruption, file operation by file operation.
CheckRunMarker ==
    /\ mainPc = "boot"
    /\ runMarker' = FALSE
    /\ mainPc' = IF runMarker THEN "marker" ELSE "grace"
    /\ UNCHANGED <<env, monitor, shared, deferred, title, waitsFor, queued, interruptedMarker,
                   bootFlag, interrupted, bounds>>

\* Variant for mutation: the first interruption leaves no note.
ForgetInterruption ==
    /\ mainPc = "marker"
    /\ IF interruptedMarker THEN mainPc' = "disabled" /\ bootFlag' = FALSE
                            ELSE mainPc' = "grace" /\ UNCHANGED bootFlag
    /\ UNCHANGED <<env, monitor, shared, deferred, title, waitsFor, queued, runMarker,
                   interruptedMarker, interrupted, bounds>>

\* The first interruption is noted; the second disables the sysmodule.
CheckInterruptedMarker ==
    /\ mainPc = "marker"
    /\ IF interruptedMarker
       THEN mainPc' = "disabled" /\ bootFlag' = FALSE /\ UNCHANGED interruptedMarker
       ELSE mainPc' = "grace" /\ interruptedMarker' = TRUE /\ UNCHANGED bootFlag
    /\ UNCHANGED <<env, monitor, shared, deferred, title, waitsFor, queued, runMarker,
                   interrupted, bounds>>

\* The user renames boot2.flag.crashed back and restarts the console.  The
\* note of the first interruption is still there.
Reenable ==
    /\ mainPc = "disabled"
    /\ mainPc' = "off" /\ Volatile /\ bootFlag' = TRUE
    /\ interrupted' = 1
    /\ UNCHANGED <<launches, enabled, mode, queued, runMarker, interruptedMarker, bounds>>

\* After the startup grace: block the queue when an application runs
\* already, then start the monitor.
StartMonitor ==
    /\ mainPc = "grace"
    /\ running' = IF app # NoApp THEN Unknown ELSE running
    /\ mpc' = "wait" /\ mainPc' = "top"
    /\ UNCHANGED <<env, mode, mon, seen, misses, closing, pending, workEvent, deferred, title,
                   waitsFor, card, interrupted, bounds>>

(***************************************************************************)
(* The main loop.                                                          *)
(***************************************************************************)
WaitForWork(reason) == mainPc' = "wait" /\ waitsFor' = reason

ReadSettings ==
    /\ mainPc = "top"
    /\ IF enabled THEN mainPc' = "gate" /\ UNCHANGED waitsFor ELSE WaitForWork("setting")
    /\ UNCHANGED <<env, monitor, shared, deferred, title, card, interrupted, bounds>>

Gate ==
    /\ mainPc = "gate"
    /\ IF running = NoTitle THEN mainPc' = "take" /\ UNCHANGED waitsFor ELSE WaitForWork("close")
    /\ UNCHANGED <<env, monitor, shared, deferred, title, card, interrupted, bounds>>

\* Variant for mutation: the pending title is exchanged in any case.
TakeBothTitles ==
    /\ mainPc = "take"
    /\ LET t == IF deferred # NoTitle THEN deferred ELSE pending IN
       /\ title' = t
       /\ mainPc' = IF t # NoTitle THEN "delay" ELSE "queue"
    /\ pending' = NoTitle
    /\ deferred' = NoTitle
    /\ UNCHANGED <<env, monitor, running, workEvent, waitsFor, card, interrupted, bounds>>

TakeTitle ==
    /\ mainPc = "take"
    /\ LET t == IF deferred # NoTitle THEN deferred ELSE pending IN
       /\ title' = t
       /\ mainPc' = IF t # NoTitle THEN "delay" ELSE "queue"
    /\ pending' = IF deferred = NoTitle THEN NoTitle ELSE pending
    /\ deferred' = NoTitle
    /\ UNCHANGED <<env, monitor, running, workEvent, waitsFor, card, interrupted, bounds>>

\* Variant for mutation: an interrupted close delay gives the title up.
DelayGivesUp ==
    /\ mainPc = "delay"
    /\ IF running # NoTitle THEN mainPc' = "top" /\ title' = NoTitle
                            ELSE mainPc' \in {"delay", "begin"} /\ UNCHANGED title
    /\ UNCHANGED <<env, monitor, shared, deferred, waitsFor, card, interrupted, bounds>>

\* One second of the close delay.
DelaySecond ==
    /\ mainPc = "delay"
    /\ IF running # NoTitle
       THEN mainPc' = "top" /\ deferred' = title /\ title' = NoTitle
       ELSE mainPc' \in {"delay", "begin"} /\ UNCHANGED <<deferred, title>>
    /\ UNCHANGED <<env, monitor, shared, waitsFor, card, interrupted, bounds>>

\* begin_guarded_operation; a retry has no title.
BeginGuardedOperation ==
    /\ mainPc = "begin"
    /\ runMarker' = TRUE
    /\ mainPc' = IF title # NoTitle THEN "prepare" ELSE "upload"
    /\ UNCHANGED <<env, monitor, shared, deferred, title, waitsFor, queued, interruptedMarker,
                   bootFlag, interrupted, bounds>>

\* prepare_title_backups refuses while an application runs.
PrepareTitle ==
    /\ mainPc = "prepare"
    /\ IF running # NoTitle THEN mainPc' = "end" /\ title' = NoTitle
                            ELSE mainPc' = "saving" /\ UNCHANGED title
    /\ UNCHANGED <<env, monitor, shared, deferred, waitsFor, card, interrupted, bounds>>

\* Its saves are queued or found unchanged, or one of them fails: because
\* an application started meanwhile, or a file could not be written.
SavesPrepared ==
    /\ mainPc = "saving"
    /\ \/ /\ mainPc' = "upload" /\ queued' \in {queued, TRUE}
          /\ UNCHANGED failures
       \/ /\ \/ running # NoTitle /\ UNCHANGED failures
             \/ failures < MaxFailures /\ failures' = failures + 1
          /\ mainPc' = "end" /\ queued' \in {queued, TRUE}
    /\ title' = NoTitle
    /\ UNCHANGED <<env, monitor, shared, deferred, waitsFor, runMarker, interruptedMarker,
                   bootFlag, interrupted, crashes>>

ProcessPendingBackups ==
    /\ mainPc = "upload"
    /\ queued' \in {queued, FALSE}
    /\ mainPc' = "end"
    /\ UNCHANGED <<env, monitor, shared, deferred, title, waitsFor, runMarker,
                   interruptedMarker, bootFlag, interrupted, bounds>>

\* end_guarded_operation removes the two markers one after the other.
RemoveRunMarker ==
    /\ mainPc = "end"
    /\ runMarker' = FALSE /\ mainPc' = "endMarker"
    /\ UNCHANGED <<env, monitor, shared, deferred, title, waitsFor, queued, interruptedMarker,
                   bootFlag, interrupted, bounds>>

RemoveInterruptedMarker ==
    /\ mainPc = "endMarker"
    /\ interruptedMarker' = FALSE /\ mainPc' = "top"
    /\ interrupted' = 0
    /\ UNCHANGED <<env, monitor, shared, deferred, title, waitsFor, queued, runMarker,
                   bootFlag, bounds>>

\* No closed title: retry the queue when it is due.
CheckQueue ==
    /\ mainPc = "queue"
    /\ \/ ~queued /\ WaitForWork("work")
       \/ queued /\ WaitForWork("retry")
       \/ queued /\ mainPc' = "begin" /\ UNCHANGED waitsFor
    /\ UNCHANGED <<env, monitor, shared, deferred, title, card, interrupted, bounds>>

\* eventWait consumes the event; every wait times out as well.
WokenByEvent ==
    /\ mainPc = "wait" /\ workEvent
    /\ workEvent' = FALSE /\ mainPc' = "top" /\ waitsFor' = "nothing"
    /\ UNCHANGED <<env, monitor, running, pending, deferred, title, card, interrupted, bounds>>

WaitTimesOut ==
    /\ mainPc = "wait"
    /\ mainPc' = "top" /\ waitsFor' = "nothing"
    /\ UNCHANGED <<env, monitor, shared, deferred, title, card, interrupted, bounds>>

-----------------------------------------------------------------------------
MonitorStep ==
    \/ MonitorWakes \/ QueryApplication \/ SameApplication \/ Adopt \/ SwitchApplication
    \/ ApplicationGone \/ FirstMiss \/ SignalClosedTitle \/ FireWorkEvent

MainStep ==
    \/ CheckRunMarker \/ CheckInterruptedMarker \/ StartMonitor \/ ReadSettings \/ Gate
    \/ TakeTitle \/ DelaySecond \/ BeginGuardedOperation \/ PrepareTitle \/ SavesPrepared
    \/ ProcessPendingBackups \/ RemoveRunMarker \/ RemoveInterruptedMarker \/ CheckQueue
    \/ WokenByEvent \/ WaitTimesOut

SyncNext ==
    \/ \E t \in Title : Launch(t)
    \/ Exit \/ ToggleSetting \/ Crash \/ Start \/ Reenable \/ FallBackToPolling
    \/ MonitorStep \/ MainStep

SyncSpec == SyncInit /\ [][SyncNext]_syncVars
(***************************************************************************)
(* Both threads keep running, the user closes applications, and the close  *)
(* delay, a bounded loop, ends.                                            *)
(***************************************************************************)
Fairness ==
    /\ WF_syncVars(MonitorStep) /\ WF_syncVars(MainStep) /\ WF_syncVars(Exit)
    /\ SF_syncVars(DelaySecond /\ mainPc' = "begin")

FairSyncSpec == SyncSpec /\ Fairness

-----------------------------------------------------------------------------
(***************************************************************************)
(* Properties.                                                             *)
(***************************************************************************)
\* The titles the sysmodule has in hand.
InHand == {pending, deferred, title} \cap Game

\* While the main thread sleeps with a closed title in hand there is an
\* application running, a signal under way, or the settings are off: the
\* maintenance timeout does not delay a backup (main.cpp:519).
NoTitleIsSleptOver ==
    mainPc = "wait" /\ waitsFor # "setting" /\ InHand # {} =>
        workEvent \/ running # NoTitle \/ mpc \in {"signal", "fire"}

\* The same while process events tell of the applications.
SleepsOverNoTitle == mode = "events" => NoTitleIsSleptOver

\* When applications transition directly the queue stays blocked: a title
\* published is taken back only when the last query saw no application.
BlockedAcrossSwitch ==
    [][running # NoTitle /\ running' = NoTitle => seen = 0 \/ mainPc' = "off"]_syncVars

\* Whatever starts and stops meanwhile, a title in hand stays there until
\* prepare_title_backups has been called for it.
HeldUntilPrepared == [][mainPc' # "off" /\ mainPc # "disabled" => InHand \ InHand' \subseteq
                           IF mainPc \in {"prepare", "saving"} THEN {title} ELSE {}]_syncVars

\* Each title in hand gets its backup attempt, if the settings stay on and
\* the sysmodule does not crash first.
HeldTitleIsPrepared ==
    <>[]enabled => \A t \in Game :
        t \in InHand ~> (mainPc \in {"prepare", "saving"} /\ title = t) \/ mainPc = "off"

\* When operations keep being interrupted, and nothing else, the sysmodule
\* disables itself after the second (README.MD:248).
CrashLoopEnds == mainPc = "top" => interrupted < 2 \/ crashes > interrupted
=============================================================================
