---------------------------- MODULE CopyPipeline ----------------------------
(***************************************************************************)
(* How JKSV's tasks copy files with two pool threads: directories with and *)
(* without journal (source/fs/io.cpp), archives in both directions         *)
(* (source/fs/zip.cpp), and downloads written by a second thread           *)
(* (source/curl/curl.cpp).                                                 *)
(*                                                                         *)
(* A task runs on one pool thread.  For each file it pushes a job that     *)
(* reads chunks into a bounded queue, and writes what it takes out of it;  *)
(* a download is the other way round.  Chunk n of file f is <<f, n>>; a    *)
(* read that returns nothing is NoData.  The reader has a pointer to what  *)
(* the task is copying at the moment, not a file of its own: the archive   *)
(* with its current file, or a File on the task's stack.                   *)
(***************************************************************************)
EXTENDS ThreadPool, Naturals, FiniteSets

CONSTANTS
    Archives,      \* bound: the sources, each a sequence of sizes in chunks
    Modes,         \* "unzip", "commit", "plain" (also into an archive), "download"
    QueueLimit,    \* SIZE_QUEUE_LIMIT, SIZE_BUFFER_LIMIT
    Journal,       \* journal size of the save, in chunks
    MaxTasks,      \* bound: tasks
    MaxShort,      \* bound: jobs that copy nothing (remote::initialize, update check)
    MaxFaults      \* bound: failures
NoData == <<>>

ASSUME ArchivesAssumption == \A archive \in Archives : archive \in Seq(Nat)
ASSUME QueueAssumption == QueueLimit \in Nat \ {0}
ASSUME JournalAssumption == Journal \in Nat /\ Journal > 1

VARIABLES
    task,        \* number of the task
    mode, sizes, \* what it does
    step,        \* where its function is
    file,        \* the file it has open, 0 before the first
    written,     \* i of its loop
    counted,     \* journalCount
    cursor,      \* chunks read or received of the file
    size, read,  \* fileSize and i of each thread's reader or writer loop
    buffers,     \* the bufferQueue of each file
    dest,        \* what has been written of each file
    journal,     \* save data: chunks written since the last commit
    skipped,     \* history: files that were not opened
    commitLost,  \*   a commit failed
    stray,       \*   a job was left behind by the function that waits for it
    started, faults

source == <<task, mode, sizes>>
loops == <<step, file, written, counted>>
shared == <<cursor, size, read, buffers>>
output == <<dest, journal, skipped, commitLost, stray>>
bounds == <<started, faults>>
vars == <<pool, source, loops, shared, output, bounds>>

Files == 1..Len(sizes)
Size(f) == sizes[f]
Journaled == mode \in {"unzip", "commit"}
Fault == faults < MaxFaults /\ faults' = faults + 1

Job(kind, number, f) == [kind |-> kind, task |-> number, file |-> f]
Running(th, kind) == at[th] = "run" /\ job[th].kind = kind

Init ==
    /\ PoolInit
    /\ task = 0 /\ mode = "plain" /\ sizes = <<>>
    /\ step = "idle" /\ file = 0 /\ written = 0 /\ counted = 0
    /\ cursor = 0 /\ size = [th \in Thread |-> 0] /\ read = [th \in Thread |-> 0] /\ buffers = <<>>
    /\ dest = <<>> /\ journal = 0 /\ skipped = {} /\ commitLost = FALSE /\ stray = FALSE
    /\ started = 0 /\ faults = 0

-----------------------------------------------------------------------------
(***************************************************************************)
(* The main thread.                                                        *)
(***************************************************************************)
\* A task is started; its state is modal.
StartTask ==
    /\ step = "idle" /\ task < MaxTasks /\ ~exitFlag
    /\ task' = task + 1 /\ mode' \in Modes /\ sizes' \in Archives
    /\ mode' = "download" => Len(sizes') = 1
    /\ PushJob(Job("task", task', 0))
    /\ step' = "next" /\ file' = 0 /\ written' = 0 /\ counted' = 0
    /\ cursor' = 0 /\ buffers' = [f \in DOMAIN sizes' |-> <<>>]
    /\ dest' = [f \in DOMAIN sizes' |-> <<>>] /\ skipped' = {}
    /\ UNCHANGED <<size, read, journal, commitLost, stray, bounds>>

\* JKSV: remote::initialize; MainMenuState: check_for_update.
StartShort ==
    /\ started < MaxShort /\ step = "idle" /\ ~exitFlag
    /\ started' = started + 1
    /\ PushJob(Job("short", 0, 0))
    /\ UNCHANGED <<source, loops, shared, output, faults>>

\* ~JKSV: the user leaves when no task is running, or the system asks for
\* it at any time; the jobs of a task that is running are then not done.
Quit ==
    /\ Exit
    /\ stray' = (stray \/ step # "idle")
    /\ UNCHANGED <<source, loops, shared, dest, journal, skipped, commitLost, bounds>>

-----------------------------------------------------------------------------
(***************************************************************************)
(* A task that copies.                                                     *)
(***************************************************************************)
Copying(th) == Running(th, "task") /\ mode # "download"

\* The next file is opened and its reader job pushed.
OpenFile(th) ==
    /\ Copying(th) /\ step = "next" /\ file < Len(sizes)
    /\ file' = file + 1 /\ written' = 0 /\ counted' = 0 /\ cursor' = 0
    /\ PushJob(Job("reader", task, file'))
    /\ step' = "write"
    /\ UNCHANGED <<source, size, read, buffers, output, bounds>>

\* Source or destination cannot be opened: the file is left out; an archive
\* whose next entry cannot be opened ends there.
SkipFile(th) ==
    /\ Copying(th) /\ step = "next" /\ file < Len(sizes) /\ Fault
    /\ \/ file' = file + 1 /\ skipped' = skipped \cup {file'}
       \/ mode = "unzip" /\ file' = Len(sizes) /\ skipped' = skipped \cup {f \in Files : f > file}
    /\ cursor' = 0
    /\ UNCHANGED <<pool, source, step, written, counted, size, read, buffers, dest, journal,
                   commitLost, stray, started>>

Amount(chunk) == IF chunk = NoData THEN 0 ELSE 1

\* Variant for mutation: the chunk at hand is not counted.
CommitLate(chunk) == Journaled /\ counted >= Journal

CommitNeeded(chunk) == Journaled /\ counted + Amount(chunk) >= Journal

\* A chunk is taken and written, after a commit if the journal would be full.
\* copy_zip_to_directory starts to count anew after a commit, copy_file_commit
\* does not.
WriteChunk(th) ==
    /\ Copying(th) /\ step = "write" /\ written < Size(file) /\ buffers[file] # <<>>
    /\ LET chunk == Head(buffers[file])
       IN /\ dest' = [dest EXCEPT ![file] = IF chunk = NoData THEN @ ELSE Append(@, chunk)]
          /\ written' = written + Amount(chunk)
          /\ \/ /\ ~CommitNeeded(chunk)
                /\ journal' = journal + (IF Journaled THEN Amount(chunk) ELSE 0)
                /\ counted' = counted + Amount(chunk)
                /\ UNCHANGED <<commitLost, faults>>
             \/ /\ CommitNeeded(chunk)
                /\ counted' = (IF mode = "unzip" THEN 0 ELSE counted) + Amount(chunk)
                /\ \/ journal' = Amount(chunk) /\ UNCHANGED <<commitLost, faults>>
                   \/ Fault /\ commitLost' = TRUE /\ journal' = journal + Amount(chunk)
    /\ buffers' = [buffers EXCEPT ![file] = Tail(@)]
    /\ UNCHANGED <<pool, source, step, file, cursor, size, read, skipped, stray, started>>

\* The reader of the file has not looked at it yet.
Unstarted ==
    \/ \E i \in DOMAIN jobs : jobs[i] = Job("reader", task, file)
    \/ \E th \in Thread : at[th] = "run" /\ job[th] = Job("reader", task, file) /\ size[th] = 0

\* Variant for mutation: the file is closed while chunks are still to come.
CloseUnwritten(th) ==
    /\ Copying(th) /\ step = "write"
    /\ journal' = (IF Journaled THEN 0 ELSE journal)
    /\ step' = "next" /\ stray' = (stray \/ Unstarted)
    /\ UNCHANGED <<pool, source, file, written, counted, shared, dest, skipped, commitLost, bounds>>

\* The file is complete, and committed.  Of an empty file the reader may
\* still be waiting for a thread.
CloseFile(th) ==
    /\ Copying(th) /\ step = "write" /\ written = Size(file)
    /\ \/ journal' = (IF Journaled THEN 0 ELSE journal) /\ UNCHANGED <<commitLost, faults>>
       \/ Journaled /\ Fault /\ commitLost' = TRUE /\ UNCHANGED journal
    /\ step' = "next" /\ stray' = (stray \/ Unstarted)
    /\ UNCHANGED <<pool, source, file, written, counted, shared, dest, skipped, started>>

\* The function returns: archive, files and mount are gone, and with the
\* mount what was not committed; the task is complete.
Finish(th) ==
    /\ Copying(th) /\ step = "next" /\ file = Len(sizes)
    /\ step' = "idle" /\ journal' = 0
    /\ Return(th)
    /\ UNCHANGED <<source, file, written, counted, shared, dest, skipped, commitLost, stray, bounds>>

-----------------------------------------------------------------------------
(***************************************************************************)
(* The jobs of the second thread.                                          *)
(***************************************************************************)
\* What the job was given is still there.  An archive lasts as long as its
\* task, a File as long as the copy of one file; the next one may lie in the
\* same place on the stack.
Current(th) == job[th].task = task /\ step # "idle"
Dangling(th) == ~Current(th) \/ (mode # "unzip" /\ job[th].file # file /\ size[th] = 0)

LoopDone(th) == size[th] > 0 /\ read[th] = size[th]

\* get_size, get_uncompressed_size: of whatever is open now.
StartReader(th) ==
    /\ Running(th, "reader") /\ Current(th) /\ size[th] = 0
    /\ IF Size(file) = 0
       THEN Return(th) /\ UNCHANGED <<size, read>>
       ELSE size' = [size EXCEPT ![th] = Size(file)] /\ UNCHANGED <<pool, read>>
    /\ UNCHANGED <<source, loops, cursor, buffers, output, bounds>>

\* A pointer into a frame that is gone: undefined, the reader ends or never does.
ReadDangling(th) ==
    /\ Running(th, "reader") /\ Dangling(th) /\ ~LoopDone(th)
    /\ \/ Return(th)
       \/ at' = [at EXCEPT ![th] = "lost"] /\ UNCHANGED <<jobs, job, exitFlag, missed>>
    /\ size' = [size EXCEPT ![th] = 0] /\ read' = [read EXCEPT ![th] = 0]
    /\ UNCHANGED <<source, loops, cursor, buffers, output, bounds>>

\* A chunk is read and pushed; while the queue is full the reader tries again.
ReadChunk(th) ==
    /\ Running(th, "reader") /\ Current(th) /\ read[th] < size[th]
    /\ Len(buffers[job[th].file]) < QueueLimit
    /\ LET chunk == IF cursor < Size(file) /\ file \notin skipped THEN <<file, cursor + 1>> ELSE NoData
       IN /\ buffers' = [buffers EXCEPT ![job[th].file] = Append(@, chunk)]
          /\ cursor' = cursor + Amount(chunk)
          /\ read' = [read EXCEPT ![th] = @ + Amount(chunk)]
    /\ UNCHANGED <<pool, source, loops, size, output, bounds>>

EndReader(th) ==
    /\ Running(th, "reader") /\ LoopDone(th)
    /\ size' = [size EXCEPT ![th] = 0] /\ read' = [read EXCEPT ![th] = 0]
    /\ Return(th)
    /\ UNCHANGED <<source, loops, cursor, buffers, output, bounds>>

EndShort(th) ==
    /\ Running(th, "short")
    /\ Return(th)
    /\ UNCHANGED <<source, loops, shared, output, bounds>>

-----------------------------------------------------------------------------
(***************************************************************************)
(* A download.                                                             *)
(***************************************************************************)
Downloading(th) == Running(th, "task") /\ mode = "download"

\* The file is created and the writer job pushed; or it cannot be.
OpenDownload(th) ==
    /\ Downloading(th) /\ step = "next" /\ file = 0
    /\ file' = 1
    /\ PushJob(Job("writer", task, 1))
    /\ step' = "receive"
    /\ UNCHANGED <<source, written, counted, shared, output, bounds>>

\* download_file_threaded
Receive(th) ==
    /\ Downloading(th) /\ step = "receive" /\ cursor < Size(1)
    /\ cursor' = cursor + 1
    /\ buffers' = [buffers EXCEPT ![1] = Append(@, <<1, cursor'>>)]
    /\ UNCHANGED <<pool, source, loops, size, read, output, bounds>>

\* curl::perform returns: the transfer is complete, or has failed and the
\* function returns without its writer.
Received(th) ==
    /\ Downloading(th) /\ step = "receive"
    /\ \/ cursor = Size(1) /\ step' = "acquire" /\ UNCHANGED <<pool, skipped, stray, faults>>
       \/ Fault /\ step' = "idle" /\ skipped' = {1} /\ stray' = TRUE /\ Return(th)
    /\ UNCHANGED <<source, file, written, counted, shared, dest, journal, commitLost, started>>

\* download_write_thread_function; a chunk that was not received is waited
\* for without end, also when the download has failed.
WriteDownload(th) ==
    /\ Running(th, "writer")
    /\ IF ~Current(th)
       THEN /\ at' = [at EXCEPT ![th] = "lost"]
            /\ UNCHANGED <<jobs, job, exitFlag, missed, dest, buffers>>
       ELSE IF Len(dest[1]) = Size(1)
       THEN Return(th) /\ UNCHANGED <<dest, buffers>>
       ELSE /\ buffers[1] # <<>>
            /\ dest' = [dest EXCEPT ![1] = Append(@, Head(buffers[1]))]
            /\ buffers' = [buffers EXCEPT ![1] = Tail(@)]
            /\ UNCHANGED pool
    /\ UNCHANGED <<source, loops, cursor, size, read, journal, skipped, commitLost, stray, bounds>>

\* Variant for mutation: the writer is not waited for.
AcquireNot(th) ==
    /\ Downloading(th) /\ step = "acquire"
    /\ step' = "idle" /\ Return(th)
    /\ UNCHANGED <<source, file, written, counted, shared, output, bounds>>

\* writeComplete.acquire: the writer has ended.
Acquire(th) ==
    /\ Downloading(th) /\ step = "acquire"
    /\ Job("writer", task, 1) \notin {jobs[i] : i \in DOMAIN jobs} \cup {job[w] : w \in Thread}
    /\ step' = "idle" /\ Return(th)
    /\ UNCHANGED <<source, file, written, counted, shared, output, bounds>>

-----------------------------------------------------------------------------
PoolStep(th) == (Test(th) \/ Sleep(th)) /\ UNCHANGED <<source, loops, shared, output, bounds>>

Step(th) ==
    \/ PoolStep(th) \/ EndShort(th)
    \/ OpenFile(th) \/ WriteChunk(th) \/ CloseFile(th) \/ Finish(th)
    \/ StartReader(th) \/ ReadDangling(th) \/ ReadChunk(th) \/ EndReader(th)
    \/ OpenDownload(th) \/ Receive(th) \/ Received(th) \/ WriteDownload(th) \/ Acquire(th)

Next ==
    \/ StartTask \/ StartShort \/ Quit
    \/ \E th \in Thread : Step(th) \/ SkipFile(th)

Spec == Init /\ [][Next]_vars

\* Every pool thread runs.
FairSpec == Spec /\ \A th \in Thread : WF_vars(Step(th))

-----------------------------------------------------------------------------
(***************************************************************************)
(* Properties.                                                             *)
(***************************************************************************)
\* Whatever the order of reader and writer, and even when a reader works for
\* another file than its own: a task that has returned has copied every file
\* it could open, as a whole and in order.
CompleteWhenDone ==
    step = "idle" => \A f \in Files \ skipped : dest[f] = [n \in 1..Size(f) |-> <<f, n>>]

\* As long as commits succeed, the journal of the save never fills up.
JournalFits == ~commitLost => journal < Journal

\* A function that waits for its reader or writer leaves it behind only for
\* an empty file, a failed download, or when JKSV exits meanwhile.
OnlyEmptyFilesStray ==
    [][stray' /\ ~stray => mode = "download" \/ exitFlag' # exitFlag \/ Size(file) = 0]_vars

\* Both threads taken by short jobs, full buffers and late readers included,
\* a task comes to an end, unless a job was left behind.
TaskEnds == step # "idle" ~> step = "idle" \/ stray

\* The pool stops when JKSV exits, unless a job was left behind or the
\* notification came between a thread's test and its wait.
PoolStops == exitFlag ~> \A th \in Thread : at[th] = "ended" \/ th \in missed \/ stray
=============================================================================
