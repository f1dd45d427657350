---------------------------- MODULE RetryBackoff ----------------------------
(***************************************************************************)
(* When the main loop of the background sysmodule retries its queue:       *)
(* retry_delay_seconds, retry_wait_ns and record_queue_attempt of          *)
(* sysmodule/source/main.cpp, in seconds.  The loop sleeps on the work     *)
(* event, which may wake it early, and at most 15 minutes at a time; the   *)
(* wall clock may be set back or forward.                                  *)
(***************************************************************************)
EXTENDS Integers

CONSTANTS
    RetryMinutes,   \* the values of background_retry_minutes, of 1..180
    Tick,           \* granularity of time, in seconds
    MaxTime,        \* bound: seconds of true time
    Jumps,          \* by how much the clock may be set
    MaxJumps        \* bound: how often it is set

ASSUME RetryMinutesAssumption == RetryMinutes # {} /\ RetryMinutes \subseteq 1..180
ASSUME TimeAssumption == Tick \in Nat \ {0} /\ MaxTime \in Nat
ASSUME JumpsAssumption == Jumps \subseteq Int /\ MaxJumps \in Nat

VARIABLES
    retryMinutes,          \* settings.retryMinutes
    lastQueueAttempt,      \* clock of the last attempt, 0 for none
    failedQueueBatches,
    time,                  \* true time since the first boot
    offset,                \* clock = time + offset
    sleepUntil,            \* true time at which the wait ends, 0 when awake
    backupsExist,          \* pending_backups_exist()
    attempted,             \* history: true time of the last attempt, 0 for none
    streak,                \* history: batches since one uploaded or a title closed
    ahead,                 \* history: by how much the clock was set ahead since then
    jumps

retryVars == <<retryMinutes, lastQueueAttempt, failedQueueBatches, time, offset, sleepUntil,
               backupsExist, attempted, streak, ahead, jumps>>
retryHistory == <<attempted, streak, ahead>>

MaxRetryBackoffSeconds == 3600
MainMaintenanceWait == 900
Epoch == 10 * MaxRetryBackoffSeconds

Smaller(a, b) == IF a < b THEN a ELSE b
Larger(a, b) == IF a > b THEN a ELSE b

Clock == time + offset

\* retry_delay_seconds: the base is doubled once per failed batch after the
\* first, up to an hour or the base.
Base == retryMinutes * 60
Cap == Larger(Base, MaxRetryBackoffSeconds)
\* Variant for mutation: the loop ends one doubling early.
LateDoubling(failures) ==
    LET delay[n \in 1..Larger(failures, 1)] ==
            IF n <= 2 THEN Base
            ELSE IF delay[n - 1] < Cap THEN Smaller(delay[n - 1] * 2, Cap) ELSE delay[n - 1]
    IN delay[Larger(failures, 1)]

RetryDelay(failures) ==
    LET delay[n \in 1..Larger(failures, 1)] ==
            IF n = 1 THEN Base
            ELSE IF delay[n - 1] < Cap THEN Smaller(delay[n - 1] * 2, Cap) ELSE delay[n - 1]
    IN delay[Larger(failures, 1)]

\* retry_wait_ns: a clock set back counts as no time elapsed.
RetryWait ==
    LET delay == RetryDelay(failedQueueBatches)
        elapsed == Larger(Clock - lastQueueAttempt, 0)
    IN IF lastQueueAttempt = 0 \/ elapsed >= delay THEN 0
       ELSE Smaller(delay - elapsed, MainMaintenanceWait)

RetryInit ==
    /\ retryMinutes \in RetryMinutes
    /\ lastQueueAttempt = 0 /\ failedQueueBatches = 0
    /\ time = 0 /\ offset = Epoch /\ sleepUntil = 0
    /\ backupsExist \in BOOLEAN /\ attempted = 0 /\ streak = 0 /\ ahead = 0 /\ jumps = 0

\* The batch ends: record_queue_attempt, with what is left in the queue.
RecordQueueAttempt(failures, uploaded, left) ==
    /\ lastQueueAttempt' = time' + offset
    /\ backupsExist' = left
    /\ failedQueueBatches' =
         IF ~left THEN 0 ELSE IF uploaded THEN 1 ELSE Smaller(failures + 1, 32)

\* process_pending_backups takes its time and uploads some, all or nothing;
\* the queue may be empty, when the saves of a title are unchanged.
Attempt(failures, before) ==
    \E uploaded, left \in BOOLEAN :
        /\ time + Tick <= MaxTime /\ time' = time + Tick
        /\ RecordQueueAttempt(failures, uploaded, left)
        /\ attempted' = time'
        /\ streak' = IF uploaded THEN 1 ELSE before + 1
        /\ ahead' = 0
        /\ UNCHANGED <<retryMinutes, offset, sleepUntil, jumps>>

\* A title was closed and its saves queued: an immediate attempt.
TitleClosed ==
    /\ sleepUntil = 0
    /\ Attempt(0, 0)

Retry ==
    /\ sleepUntil = 0 /\ backupsExist /\ RetryWait = 0
    /\ Attempt(failedQueueBatches, streak)

\* Nothing to retry: the state of the backoff is dropped.
NothingPending ==
    /\ sleepUntil = 0 /\ ~backupsExist
    /\ lastQueueAttempt' = 0 /\ failedQueueBatches' = 0
    /\ attempted' = 0 /\ streak' = 0 /\ ahead' = 0
    /\ sleepUntil' = time + MainMaintenanceWait
    /\ UNCHANGED <<retryMinutes, time, offset, backupsExist, jumps>>

WaitForRetry ==
    /\ sleepUntil = 0 /\ backupsExist /\ RetryWait # 0
    /\ sleepUntil' = time + RetryWait
    /\ UNCHANGED <<retryMinutes, lastQueueAttempt, failedQueueBatches, time, offset, backupsExist,
                   retryHistory, jumps>>

\* The wait times out, or the work event ends it early.
Wake ==
    /\ sleepUntil # 0
    /\ \/ time' = sleepUntil
       \/ time' = time + Tick /\ time' < sleepUntil
    /\ time' <= MaxTime
    /\ sleepUntil' = 0
    /\ UNCHANGED <<retryMinutes, lastQueueAttempt, failedQueueBatches, offset, backupsExist,
                   retryHistory, jumps>>

\* The user or a time server sets the clock.
SetClock ==
    /\ jumps < MaxJumps /\ jumps' = jumps + 1
    /\ \E d \in Jumps :
         /\ Clock + d > 0 /\ offset' = offset + d
         /\ ahead' = ahead + Larger(d, 0)
    /\ UNCHANGED <<retryMinutes, lastQueueAttempt, failedQueueBatches, time, sleepUntil,
                   backupsExist, attempted, streak>>

\* The console restarts: the backoff is forgotten, the queue is not.
Restart ==
    /\ lastQueueAttempt' = 0 /\ failedQueueBatches' = 0 /\ sleepUntil' = 0
    /\ attempted' = 0 /\ streak' = 0 /\ ahead' = 0
    /\ UNCHANGED <<retryMinutes, time, offset, backupsExist, jumps>>

RetryNext == TitleClosed \/ Retry \/ NothingPending \/ WaitForRetry \/ Wake \/ SetClock \/ Restart

RetrySpec == RetryInit /\ [][RetryNext]_retryVars

-----------------------------------------------------------------------------
\* The schedule of the change log: 5, 10, 20, 40, 60 minutes, that is the
\* base doubled with every batch that uploaded nothing, up to an hour.
Schedule(batches) ==
    IF batches > 6 THEN Cap ELSE Smaller(Base * <<1, 2, 4, 8, 16, 32>>[batches], Cap)

\* However the loop is woken meanwhile, a retry comes no earlier after the
\* last batch than the schedule of the change log says (CHANGELOG.MD:8), but
\* for what the clock was set ahead.
RetryNotEarly ==
    [][Retry /\ attempted # 0 => time - attempted >= Schedule(streak) - ahead]_retryVars
=============================================================================
