----------------------------- MODULE ThreadPool -----------------------------
(***************************************************************************)
(* The pool of two threads of JKSV (source/sys/threadpool.cpp): a queue of *)
(* jobs under a mutex, a condition variable and an exit flag.              *)
(*                                                                         *)
(* A thread that finds neither a job nor the flag holds the mutex until it *)
(* waits ("gap").  push_job takes the mutex and cannot come in between;    *)
(* exit does not take it and can.                                          *)
(***************************************************************************)
EXTENDS Sequences

CONSTANTS
    Thread,      \* s_threads
    NoJob

VARIABLES
    jobs,        \* s_jobQueue
    at,          \* where each thread is in thread_pool_function
    job,         \* the job it runs
    exitFlag,    \* s_exitFlag
    missed       \* history: threads the notification of exit did not reach

pool == <<jobs, at, job, exitFlag, missed>>

PoolInit ==
    /\ jobs = <<>> /\ at = [th \in Thread |-> "test"] /\ job = [th \in Thread |-> NoJob]
    /\ exitFlag = FALSE /\ missed = {}

\* s_jobMutex is free.
Unlocked == \A th \in Thread : at[th] # "gap"

\* Variant for mutation: nobody is woken.
NotNotified == at

\* notify_all
Notified == [th \in Thread |-> IF at[th] = "asleep" THEN "test" ELSE at[th]]

\* push_job
PushJob(j) ==
    /\ Unlocked
    /\ jobs' = Append(jobs, j) /\ at' = Notified
    /\ UNCHANGED <<job, exitFlag, missed>>

\* Variant for mutation: the condition leaves out the flag.
TestIgnoresExit(th) ==
    /\ at[th] = "test" /\ Unlocked
    /\ \/ /\ jobs # <<>>
          /\ at' = [at EXCEPT ![th] = "run"] /\ job' = [job EXCEPT ![th] = Head(jobs)]
          /\ jobs' = Tail(jobs)
       \/ /\ jobs = <<>>
          /\ at' = [at EXCEPT ![th] = "gap"]
          /\ UNCHANGED <<jobs, job>>
    /\ UNCHANGED <<exitFlag, missed>>

\* The condition, evaluated under the mutex, and what follows when it holds.
Test(th) ==
    /\ at[th] = "test" /\ Unlocked
    /\ \/ /\ exitFlag
          /\ at' = [at EXCEPT ![th] = "ended"]
          /\ UNCHANGED <<jobs, job>>
       \/ /\ ~exitFlag /\ jobs # <<>>
          /\ at' = [at EXCEPT ![th] = "run"] /\ job' = [job EXCEPT ![th] = Head(jobs)]
          /\ jobs' = Tail(jobs)
       \/ /\ ~exitFlag /\ jobs = <<>>
          /\ at' = [at EXCEPT ![th] = "gap"]
          /\ UNCHANGED <<jobs, job>>
    /\ UNCHANGED <<exitFlag, missed>>

\* The wait begins and releases the mutex.
Sleep(th) ==
    /\ at[th] = "gap"
    /\ at' = [at EXCEPT ![th] = "asleep"]
    /\ UNCHANGED <<jobs, job, exitFlag, missed>>

\* A job's function returns.
Return(th) ==
    /\ at' = [at EXCEPT ![th] = "test"] /\ job' = [job EXCEPT ![th] = NoJob]
    /\ UNCHANGED <<jobs, exitFlag, missed>>

\* exit, up to threadWaitForExit
Exit ==
    /\ ~exitFlag /\ exitFlag' = TRUE
    /\ at' = Notified
    /\ missed' = {th \in Thread : at[th] = "gap"}
    /\ UNCHANGED <<jobs, job>>
=============================================================================
