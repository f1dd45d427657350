----------------------------- MODULE CopyProofs -----------------------------
(***************************************************************************)
(* That a restore never fills the journal of the save, that a task which   *)
(* has returned has copied every file it could open, and that it leaves    *)
(* only the reader of an empty file behind: for every set of archives,     *)
(* queue limit, journal size above one chunk and number of threads.        *)
(***************************************************************************)
EXTENDS CopyPipeline, TLAPS

\* Between files nothing is uncommitted; while a file is written the code's
\* count is at least what is.
CountInv ==
    /\ counted \in Nat /\ journal \in Nat
    /\ ~commitLost => IF step = "write" /\ Journaled
                      THEN journal <= counted /\ journal < Journal
                      ELSE journal = 0

LEMMA AmountIsSmall == \A chunk : Amount(chunk) \in {0, 1}
BY DEF Amount

LEMMA InitCounts == Init => CountInv
BY DEF Init, CountInv

LEMMA CountsKept ==
    ASSUME CountInv, UNCHANGED <<mode, step, counted, journal, commitLost>> PROVE CountInv'
BY DEF CountInv, Journaled

\* Steps from a point without uncommitted chunks to another.
LEMMA CountsStayZero ==
    ASSUME CountInv, step # "write", step' # "write", journal' = journal, commitLost' = commitLost,
           counted' \in Nat
    PROVE  CountInv'
BY DEF CountInv

LEMMA OpenFileCounts == ASSUME CountInv, NEW th, OpenFile(th) PROVE CountInv'
BY JournalAssumption DEF CountInv, OpenFile, source, output, Journaled

\* A chunk is counted before it is written, and committed before the count
\* reaches the journal's size.
LEMMA WriteChunkCounts == ASSUME CountInv, NEW th, WriteChunk(th) PROVE CountInv'
<1> DEFINE chunk == Head(buffers[file])
           a == Amount(chunk)
<1>1. a \in {0, 1}
  BY AmountIsSmall
<1>2. step = "write" /\ UNCHANGED <<step, mode>> /\ (Journaled' <=> Journaled)
  BY DEF WriteChunk, source, Journaled
<1>3. CASE ~CommitNeeded(chunk)
  <2>1. /\ journal' = journal + (IF Journaled THEN a ELSE 0)
        /\ counted' = counted + a
        /\ commitLost' = commitLost
    BY <1>3 DEF WriteChunk
  <2>2. Journaled => counted + a < Journal
    BY <1>1, <1>3, JournalAssumption DEF CommitNeeded, CountInv
  <2>3. CASE Journaled
    BY <2>1, <2>2, <2>3, <1>1, <1>2, JournalAssumption DEF CountInv
  <2>4. CASE ~Journaled
    BY <2>1, <2>4, <1>1, <1>2 DEF CountInv
  <2> QED BY <2>3, <2>4
<1>4. CASE CommitNeeded(chunk)
  <2>1. /\ counted' = (IF mode = "unzip" THEN 0 ELSE counted) + a
        /\ \/ journal' = a /\ commitLost' = commitLost
           \/ commitLost' = TRUE /\ journal' = journal + a
    BY <1>4 DEF WriteChunk
  <2>2. Journaled
    BY <1>4 DEF CommitNeeded
  <2>3. counted' \in Nat /\ a <= counted'
    BY <2>1, <1>1 DEF CountInv
  <2>4. CASE journal' = a /\ commitLost' = commitLost
    BY <2>2, <2>3, <2>4, <1>1, <1>2, JournalAssumption DEF CountInv
  <2>5. CASE commitLost' = TRUE /\ journal' = journal + a
    BY <2>3, <2>5, <1>1 DEF CountInv
  <2> QED BY <2>1, <2>4, <2>5
<1> QED BY <1>3, <1>4

LEMMA CloseFileCounts == ASSUME CountInv, NEW th, CloseFile(th) PROVE CountInv'
BY DEF CountInv, CloseFile, source, Journaled

\* The steps of the pool and its jobs, and of downloads.
LEMMA StepCounts == ASSUME CountInv, NEW th, Step(th) PROVE CountInv'
<1>1. CASE PoolStep(th) \/ EndShort(th)
  BY <1>1, CountsKept DEF PoolStep, EndShort, source, loops, output
<1>2. CASE OpenFile(th)
  BY <1>2, OpenFileCounts
<1>3. CASE WriteChunk(th)
  BY <1>3, WriteChunkCounts
<1>4. CASE CloseFile(th)
  BY <1>4, CloseFileCounts
<1>5. CASE Finish(th)
  BY <1>5 DEF Finish, CountInv
<1>6. CASE StartReader(th) \/ ReadDangling(th) \/ ReadChunk(th) \/ EndReader(th)
  BY <1>6, CountsKept DEF StartReader, ReadDangling, ReadChunk, EndReader, source, loops, output
<1>7. CASE OpenDownload(th)
  BY <1>7, CountsStayZero DEF OpenDownload, output, CountInv
<1>8. CASE Receive(th) \/ WriteDownload(th)
  BY <1>8, CountsKept DEF Receive, WriteDownload, source, loops, output
<1>9. CASE Received(th)
  BY <1>9, CountsStayZero DEF Received, CountInv
<1>10. CASE Acquire(th)
  BY <1>10, CountsStayZero DEF Acquire, output, CountInv
<1> QED BY <1>1, <1>2, <1>3, <1>4, <1>5, <1>6, <1>7, <1>8, <1>9, <1>10 DEF Step

LEMMA NextCounts == ASSUME CountInv, [Next]_vars PROVE CountInv'
<1>1. CASE StartTask
  BY <1>1, CountsStayZero DEF StartTask
<1>2. CASE StartShort \/ Quit
  BY <1>2, CountsKept DEF StartShort, Quit, source, loops, output
<1>3. CASE \E th \in Thread : Step(th)
  BY <1>3, StepCounts
<1>4. CASE \E th \in Thread : SkipFile(th)
  BY <1>4, CountsKept DEF SkipFile, source
<1>5. CASE UNCHANGED vars
  BY <1>5, CountsKept DEF vars, source, loops, output
<1> QED BY <1>1, <1>2, <1>3, <1>4, <1>5 DEF Next

\* What the code has counted bounds what is uncommitted (fs::copy_file_commit
\* and fs::copy_zip_to_directory).
THEOREM Counts == Spec => []CountInv
<1>1. CountInv /\ [Next]_vars => CountInv'
  BY NextCounts
<1> QED BY InitCounts, <1>1, PTL DEF Spec

\* As long as commits succeed the journal never fills up.
THEOREM JournalNeverFull == Spec => []JournalFits
<1>1. CountInv => JournalFits
  BY JournalAssumption DEF CountInv, JournalFits
<1> QED BY Counts, <1>1, PTL

-----------------------------------------------------------------------------
(***************************************************************************)
(* That a task which has returned has copied every file it could open.     *)
(***************************************************************************)
JobType == [kind : {"task", "short", "reader", "writer"}, task : Nat, file : Nat]
Chunk == (Nat \X Nat) \cup {NoData}

\* The jobs that wait or run.
Pending == {jobs[i] : i \in DOMAIN jobs} \cup {job[th] : th \in {t \in Thread : at[t] = "run"}}

Reader(f) == Job("reader", task, f)
Writer == Job("writer", task, 1)

PoolType ==
    /\ jobs \in Seq(JobType) /\ DOMAIN at = Thread /\ DOMAIN job = Thread
    /\ \A th \in Thread : at[th] = "run" => job[th] \in JobType
PipeType ==
    /\ PoolType
    /\ task \in Nat /\ sizes \in Seq(Nat) /\ file \in 0..Len(sizes)
    /\ written \in Nat /\ cursor \in Nat
    /\ DOMAIN buffers = Files /\ DOMAIN dest = Files
    /\ \A f \in Files : buffers[f] \in Seq(Chunk) /\ dest[f] \in Seq(Nat \X Nat)
    /\ step \in {"idle", "next", "write", "receive", "acquire"}
    /\ step = "write" => mode # "download" /\ file > 0
    /\ step \in {"receive", "acquire"} => mode = "download" /\ file = 1
    /\ mode = "download" => Len(sizes) = 1
    /\ mode = "download" /\ step = "next" => file = 0 /\ cursor = 0

\* A job of the current task is about a file that was opened.
JobsInv == \A j \in Pending :
    /\ j.task <= task
    /\ j.kind = "reader" /\ j.task = task => mode # "download" /\ j.file \in 1..file
    /\ j.kind = "writer" /\ j.task = task => mode = "download" /\ j.file = 1 /\ file = 1

\* Files to come are untouched, those behind were left out or copied as a whole.
Whole(f) == dest[f] = [n \in 1..Size(f) |-> <<f, n>>]
FilesInv ==
    /\ skipped \subseteq 1..file
    /\ step = "write" => file \notin skipped
    /\ step # "idle" => \A f \in Files : f > file => buffers[f] = <<>> /\ dest[f] = <<>>
    /\ mode # "download" => \A f \in 1..file : f \in skipped \/ Whole(f) \/ (step = "write" /\ f = file)

\* What has been written and what waits to be, of the file in hand: chunks
\* in order, each as far from the one before as chunks another reader took
\* lie in between, and after the last of the file only reads that gave nothing.
Flow == dest[file] \o buffers[file]
FlowInv == step = "write" =>
    /\ cursor <= Size(file) /\ written = Len(dest[file])
    /\ \A p \in 1..Len(Flow) :
        IF Flow[p] = NoData THEN cursor = Size(file)
        ELSE Flow[p][1] = file /\ Flow[p][2] \in p..cursor
    /\ \A p, q \in 1..Len(Flow) : p < q /\ Flow[q] # NoData =>
        Flow[p] # NoData /\ Flow[q][2] - Flow[p][2] >= q - p

\* A download arrives in order, and its writer is there until all is written.
DownloadInv == step \in {"receive", "acquire"} =>
    /\ Len(Flow) = cursor /\ cursor <= Size(1)
    /\ \A p \in 1..cursor : Flow[p] = <<1, p>>
    /\ step = "acquire" => cursor = Size(1)
    /\ Writer \in Pending \/ Len(dest[1]) = Size(1)

PipeInv == PipeType /\ JobsInv /\ FilesInv /\ FlowInv /\ DownloadInv /\ CompleteWhenDone

-----------------------------------------------------------------------------
\* What the operations of the pool leave pending.
LEMMA PendingType == PoolType => Pending \subseteq JobType
BY DEF PoolType, Pending

LEMMA PushPending ==
  ASSUME PoolType, NEW j \in JobType, PushJob(j)
  PROVE  PoolType' /\ Pending' = Pending \cup {j}
<1>1. jobs' = Append(jobs, j) /\ job' = job /\ DOMAIN at' = Thread
      /\ \A th \in Thread : at'[th] = "run" <=> at[th] = "run"
  BY DEF PushJob, Notified, PoolType
<1>2. jobs' \in Seq(JobType)
  BY <1>1 DEF PoolType
<1>3. {jobs'[i] : i \in DOMAIN jobs'} = {jobs[i] : i \in DOMAIN jobs} \cup {j}
  BY <1>1 DEF PoolType
<1> QED BY <1>1, <1>2, <1>3 DEF PoolType, Pending

LEMMA TestPending ==
  ASSUME PoolType, NEW th \in Thread, Test(th)
  PROVE  PoolType' /\ Pending' = Pending
<1>1. CASE at' = [at EXCEPT ![th] = "ended"] /\ UNCHANGED <<jobs, job>>
  BY <1>1 DEF Test, PoolType, Pending
<1>2. CASE at' = [at EXCEPT ![th] = "gap"] /\ UNCHANGED <<jobs, job>>
  BY <1>2 DEF Test, PoolType, Pending
<1>3. CASE /\ jobs # <<>> /\ at' = [at EXCEPT ![th] = "run"]
           /\ job' = [job EXCEPT ![th] = Head(jobs)] /\ jobs' = Tail(jobs)
  <2>1. Head(jobs) \in JobType /\ jobs' \in Seq(JobType)
    BY <1>3 DEF PoolType
  <2>2. {jobs[i] : i \in DOMAIN jobs} = {jobs'[i] : i \in DOMAIN jobs'} \cup {Head(jobs)}
    <3>1. ASSUME NEW i \in DOMAIN jobs PROVE jobs[i] = Head(jobs) \/ \E k \in DOMAIN jobs' : jobs'[k] = jobs[i]
      <4>1. CASE i = 1 BY <4>1, <1>3 DEF PoolType
      <4>2. CASE i # 1
        <5>1. i - 1 \in DOMAIN jobs' /\ jobs'[i-1] = jobs[i]
          BY <4>2, <1>3 DEF PoolType
        <5> QED BY <5>1
      <4> QED BY <4>1, <4>2
    <3>2. ASSUME NEW k \in DOMAIN jobs' PROVE k + 1 \in DOMAIN jobs /\ jobs[k+1] = jobs'[k]
      BY <1>3 DEF PoolType
    <3>3. 1 \in DOMAIN jobs /\ jobs[1] = Head(jobs)
      BY <1>3 DEF PoolType
    <3> QED BY <3>1, <3>2, <3>3
  <2>3. {job'[t] : t \in {u \in Thread : at'[u] = "run"}}
        = {job[t] : t \in {u \in Thread : at[u] = "run"}} \cup {Head(jobs)}
    BY <1>3 DEF Test, PoolType
  <2> QED BY <1>3, <2>1, <2>2, <2>3 DEF PoolType, Pending
<1> QED BY <1>1, <1>2, <1>3 DEF Test

LEMMA OtherPending ==
  ASSUME PoolType, NEW th \in Thread,
         \/ Sleep(th) \/ Exit \/ UNCHANGED <<jobs, at, job>>
  PROVE  PoolType' /\ Pending' = Pending
BY DEF PoolType, Pending, Sleep, Exit, Notified

\* The job of a thread is over, or the thread never comes back from it.
LEMMA EndPending ==
  ASSUME PoolType, NEW th \in Thread, at[th] = "run",
         Return(th) \/ (at' = [at EXCEPT ![th] = "lost"] /\ UNCHANGED <<jobs, job>>)
  PROVE  PoolType' /\ Pending' \subseteq Pending /\ Pending \subseteq Pending' \cup {job[th]}
BY DEF PoolType, Pending, Return

-----------------------------------------------------------------------------
\* Sequences of chunks.
LEMMA ChunksDiffer == \A a, b : <<a, b>> # NoData
BY DEF NoData

LEMMA FirstChunk ==
  ASSUME NEW b \in Seq(Chunk), b # <<>>
  PROVE  /\ Len(b) \in Nat /\ Len(b) > 0 /\ Head(b) = b[1] /\ Head(b) \in Chunk /\ Tail(b) \in Seq(Chunk)
         /\ Head(b) # NoData => Head(b) \in Nat \X Nat
BY DEF Chunk

LEMMA FlowAt ==
  ASSUME NEW d \in Seq(Nat \X Nat), NEW b \in Seq(Chunk)
  PROVE  /\ Len(d \o b) = Len(d) + Len(b)
         /\ \A p \in 1..Len(d) : (d \o b)[p] = d[p]
         /\ \A p \in 1..Len(b) : (d \o b)[Len(d) + p] = b[p]
OBVIOUS

\* A chunk that is pushed comes last.
LEMMA FlowPush ==
  ASSUME NEW d \in Seq(Nat \X Nat), NEW b \in Seq(Chunk), NEW x \in Chunk
  PROVE  d \o Append(b, x) = Append(d \o b, x)
OBVIOUS

LEMMA AppendAt ==
  ASSUME NEW s \in Seq(Chunk), NEW x \in Chunk
  PROVE  /\ Len(Append(s, x)) = Len(s) + 1 /\ Append(s, x)[Len(s) + 1] = x
         /\ \A p \in 1..Len(s) : Append(s, x)[p] = s[p]
OBVIOUS

\* A chunk that is written stays where it is in the flow.
LEMMA FlowMove ==
  ASSUME NEW d \in Seq(Nat \X Nat), NEW b \in Seq(Chunk), b # <<>>, Head(b) # NoData
  PROVE  Append(d, Head(b)) \o Tail(b) = d \o b
OBVIOUS

\* A read that gave nothing is dropped; what follows gave nothing either.
LEMMA FlowDrop ==
  ASSUME NEW d \in Seq(Nat \X Nat), NEW b \in Seq(Chunk), b # <<>>
  PROVE  /\ Len(d \o Tail(b)) = Len(d \o b) - 1
         /\ \A p \in 1..Len(d) : (d \o Tail(b))[p] = (d \o b)[p]
         /\ \A p \in Len(d)+1..Len(d \o b) - 1 : (d \o Tail(b))[p] = (d \o b)[p+1]
OBVIOUS

-----------------------------------------------------------------------------
LEMMA InitPipe == Init => PipeInv
<1> SUFFICES ASSUME Init PROVE PipeInv OBVIOUS
<1>1. PoolType /\ Pending = {}
  BY DEF Init, PoolInit, PoolType, Pending
<1>2. PipeType
  BY <1>1 DEF Init, PipeType, Files
<1>3. JobsInv /\ FilesInv /\ FlowInv /\ DownloadInv /\ CompleteWhenDone
  BY <1>1 DEF Init, JobsInv, FilesInv, FlowInv, DownloadInv, CompleteWhenDone, Files
<1> QED BY <1>2, <1>3 DEF PipeInv

\* Steps of the pool alone.
LEMMA PoolOnly ==
  ASSUME PipeInv, PoolType', UNCHANGED <<source, step, file, written, cursor, buffers, dest, skipped>>,
         \A j \in Pending' : j \in Pending \/ (j.kind = "short" /\ j.task = 0),
         step \in {"receive", "acquire"} /\ Writer \in Pending => Writer \in Pending' \/ Len(dest[1]) = Size(1)
  PROVE  PipeInv'
<1> USE DEF PipeInv, source
<1>1. PipeType'
  BY DEF PipeType, Files
<1>2. JobsInv'
  BY DEF JobsInv, PipeType
<1>3. FilesInv' /\ FlowInv' /\ CompleteWhenDone'
  BY DEF FilesInv, FlowInv, Flow, CompleteWhenDone, Files, Whole, Size
<1>4. DownloadInv'
  BY DEF DownloadInv, Flow, Size, Writer
<1> QED BY <1>1, <1>2, <1>3, <1>4

LEMMA StartTaskPipe == ASSUME PipeInv, StartTask PROVE PipeInv'
<1>1. PoolType /\ task \in Nat /\ task' = task + 1
  BY DEF StartTask, PipeInv, PipeType
<1>2. Job("task", task', 0) \in JobType
  BY <1>1 DEF Job, JobType
<1>3. PoolType' /\ Pending' = Pending \cup {Job("task", task', 0)}
  BY <1>1, <1>2, PushPending DEF StartTask
<1>4. PipeType'
  BY <1>1, <1>3, ArchivesAssumption DEF StartTask, PipeType, Files
<1>5. JobsInv'
  <2>1. ASSUME NEW j \in Pending PROVE j.task <= task' /\ j.task # task'
    <3>1. j \in JobType /\ j.task <= task
      BY <1>1, PendingType DEF PipeInv, JobsInv
    <3> QED BY <1>1, <3>1 DEF JobType
  <2> QED BY <1>1, <1>3, <2>1 DEF JobsInv, Job
<1>6. FilesInv' /\ FlowInv' /\ DownloadInv' /\ CompleteWhenDone'
  BY <1>4 DEF StartTask, FilesInv, FlowInv, DownloadInv, CompleteWhenDone, PipeType, Files
<1> QED BY <1>4, <1>5, <1>6 DEF PipeInv

LEMMA OpenFilePipe == ASSUME PipeInv, NEW th \in Thread, OpenFile(th) PROVE PipeInv'
<1>1. PoolType /\ task \in Nat /\ file' = file + 1 /\ file \in Nat /\ file' \in Files
      /\ mode # "download" /\ step = "next" /\ step' = "write"
      /\ UNCHANGED <<task, mode, sizes, buffers, dest, skipped>>
  BY DEF OpenFile, PipeInv, PipeType, Copying, source, output, Files
<1>2. Job("reader", task, file') \in JobType
  BY <1>1 DEF Job, JobType, Files
<1>3. PoolType' /\ Pending' = Pending \cup {Job("reader", task, file')}
  BY <1>1, <1>2, PushPending DEF OpenFile
<1>4. PipeType'
  BY <1>1, <1>3 DEF OpenFile, PipeInv, PipeType, Files
<1>5. JobsInv'
  BY <1>1, <1>3 DEF PipeInv, JobsInv, Job
<1>6. buffers[file'] = <<>> /\ dest[file'] = <<>>
  BY <1>1 DEF PipeInv, FilesInv
<1>7. FilesInv'
  BY <1>1 DEF PipeInv, FilesInv, Whole, Files, Size
<1>8. FlowInv'
  BY <1>1, <1>4, <1>6 DEF OpenFile, FlowInv, Flow, PipeType, Size, Files
<1>9. DownloadInv' /\ CompleteWhenDone'
  BY <1>1 DEF DownloadInv, CompleteWhenDone
<1> QED BY <1>4, <1>5, <1>7, <1>8, <1>9 DEF PipeInv

LEMMA SkipFilePipe == ASSUME PipeInv, NEW th \in Thread, SkipFile(th) PROVE PipeInv'
<1>1. /\ mode # "download" /\ step = "next" /\ file \in Nat /\ sizes \in Seq(Nat)
      /\ UNCHANGED <<pool, task, mode, sizes, step, written, buffers, dest>>
      /\ cursor' = 0 /\ file < file' /\ file' \in Files
      /\ skipped' = skipped \cup (file+1)..file'
  <2>1. file \in 0..Len(sizes) /\ Len(sizes) \in Nat /\ file < Len(sizes)
    BY DEF SkipFile, PipeInv, PipeType
  <2>2. \/ file' = file + 1 /\ skipped' = skipped \cup {file'}
        \/ file' = Len(sizes) /\ skipped' = skipped \cup {f \in 1..Len(sizes) : f > file}
    BY DEF SkipFile, Files
  <2>3. file < file' /\ file' \in Files /\ skipped' = skipped \cup (file+1)..file'
    BY <2>1, <2>2 DEF Files
  <2> QED
    BY <2>1, <2>3 DEF SkipFile, PipeInv, PipeType, Copying, source
<1>2. PipeType' /\ JobsInv'
  BY <1>1 DEF PipeInv, PipeType, PoolType, JobsInv, pool, Files, Pending
<1>3. FilesInv'
  <2>1. skipped \subseteq 1..file /\ \A f \in 1..file : f \in skipped \/ Whole(f)
    BY <1>1 DEF PipeInv, FilesInv
  <2>2. \A f \in 1..file' : f \in 1..file \/ f \in (file+1)..file'
    BY <1>1 DEF Files
  <2>3. \A f \in Files : f > file' => f > file
    BY <1>1 DEF Files
  <2>4. file' \in Nat /\ skipped' \subseteq 1..file'
    BY <1>1, <2>1 DEF Files
  <2>5. \A f \in 1..file' : f \in skipped' \/ Whole(f)
    BY <1>1, <2>1, <2>2
  <2> QED
    BY <1>1, <2>3, <2>4, <2>5 DEF PipeInv, FilesInv, Whole, Files, Size
<1>4. FlowInv' /\ DownloadInv' /\ CompleteWhenDone'
  BY <1>1 DEF FlowInv, DownloadInv, CompleteWhenDone
<1> QED BY <1>2, <1>3, <1>4 DEF PipeInv

LEMMA FinishPipe == ASSUME PipeInv, NEW th \in Thread, Finish(th) PROVE PipeInv'
<1>1. /\ mode # "download" /\ step = "next" /\ step' = "idle" /\ file = Len(sizes) /\ at[th] = "run"
      /\ UNCHANGED <<task, mode, sizes, file, written, cursor, buffers, dest, skipped>>
  BY DEF Finish, Copying, Running, source, shared
<1>2. PoolType' /\ Pending' \subseteq Pending
  BY <1>1, EndPending DEF Finish, PipeInv, PipeType
<1>3. PipeType' /\ JobsInv'
  BY <1>1, <1>2 DEF PipeInv, PipeType, JobsInv, Files
<1>4. FilesInv'
  BY <1>1 DEF PipeInv, FilesInv, Whole, Size
<1>5. CompleteWhenDone'
  BY <1>1 DEF PipeInv, PipeType, FilesInv, Whole, CompleteWhenDone, Files, Size
<1>6. FlowInv' /\ DownloadInv'
  BY <1>1 DEF FlowInv, DownloadInv
<1> QED BY <1>3, <1>4, <1>5, <1>6 DEF PipeInv

\* What the types say of the file in hand.
LEMMA InHand ==
  ASSUME PipeType, file \in Files
  PROVE  /\ dest[file] \in Seq(Nat \X Nat) /\ buffers[file] \in Seq(Chunk) /\ Flow \in Seq(Chunk)
         /\ file \in Nat /\ Size(file) \in Nat
BY DEF PipeType, Flow, Files, Size, Chunk

\* A chunk that came is written, a read that gave nothing is not.
LEMMA WriteChunkFlow ==
  ASSUME PipeInv, PipeType', NEW th, WriteChunk(th)
  PROVE  FlowInv'
<1> DEFINE d == dest[file]
           b == buffers[file]
<1>1. /\ step = "write" /\ step' = "write" /\ file \in Files /\ b # <<>>
      /\ UNCHANGED <<sizes, file, cursor>>
      /\ d \in Seq(Nat \X Nat) /\ b \in Seq(Chunk) /\ Flow = d \o b
  BY InHand DEF WriteChunk, PipeInv, PipeType, Files, source, Flow
<1>2. buffers'[file] = Tail(b)
  BY <1>1 DEF WriteChunk, PipeInv, PipeType
<1>3. /\ cursor <= Size(file) /\ written = Len(d)
      /\ \A p \in 1..Len(Flow) :
           IF Flow[p] = NoData THEN cursor = Size(file)
           ELSE Flow[p][1] = file /\ Flow[p][2] \in p..cursor
      /\ \A p, q \in 1..Len(Flow) : p < q /\ Flow[q] # NoData =>
           Flow[p] # NoData /\ Flow[q][2] - Flow[p][2] >= q - p
  BY <1>1 DEF PipeInv, FlowInv
<1>4. CASE Head(b) # NoData
  <2>1. dest'[file] = Append(d, Head(b)) /\ written' = written + 1
    BY <1>1, <1>4 DEF WriteChunk, PipeInv, PipeType, Amount
  <2>2. Flow' = Flow
    BY <1>1, <1>2, <1>4, <2>1, FlowMove DEF Flow
  <2>3. written' = Len(dest'[file])
    BY <1>1, <1>3, <2>1
  <2> QED
    BY <1>1, <2>2, <2>3 DEF PipeInv, FlowInv, Size
<1>5. CASE Head(b) = NoData
  <2>1. dest'[file] = d /\ written' = written
    BY <1>1, <1>5 DEF WriteChunk, PipeInv, PipeType, Amount
  <2>2. Flow' = d \o Tail(b)
    BY <1>1, <1>2, <2>1 DEF Flow
  <2> DEFINE n == Len(d)
             m == Len(Flow)
  <2>3. /\ Len(Flow') = m - 1
        /\ \A p \in 1..n : Flow'[p] = Flow[p]
        /\ \A p \in n+1..m - 1 : Flow'[p] = Flow[p+1]
    BY <1>1, <2>2, FlowDrop
  <2>4. n \in Nat /\ m \in Nat /\ n + 1 \in 1..m /\ Flow[n + 1] = NoData
    <3>1. m = n + Len(b) /\ Len(b) \in Nat /\ Len(b) > 0 /\ n \in Nat
      BY <1>1, FlowAt, FirstChunk
    <3>2. 1 \in 1..Len(b)
      BY <3>1
    <3>3. Flow[n + 1] = b[1]
      BY <1>1, <3>2, FlowAt
    <3>4. b[1] = NoData
      BY <1>1, <1>5, FirstChunk
    <3>5. \A x, y, z : x = y + z /\ y \in Nat /\ z \in Nat /\ z > 0 => x \in Nat /\ y + 1 \in 1..x
      OBVIOUS
    <3>6. m \in Nat /\ n + 1 \in 1..m
      BY <3>1, <3>5
    <3> QED BY <3>1, <3>3, <3>4, <3>6
  <2> HIDE DEF n, m
  <2>5. ASSUME NEW q \in 1..m, q > n PROVE Flow[q] = NoData
    <3>1. CASE q = n + 1
      BY <2>4, <3>1
    <3>2. CASE q # n + 1
      BY <1>3, <2>4, <2>5, <3>2 DEF m
    <3> QED BY <3>1, <3>2
  <2>6. ASSUME NEW p \in 1..Len(Flow')
        PROVE  p \in 1..m /\ (IF p <= n THEN Flow'[p] = Flow[p] ELSE Flow'[p] = NoData)
    <3>1. p \in 1..m-1
      BY <2>3, <2>6
    <3>2. CASE p <= n
      BY <2>3, <2>4, <3>1, <3>2
    <3>3. CASE p > n
      <4>1. p + 1 \in 1..m /\ p + 1 > n /\ p \in n+1..m-1
        BY <2>4, <3>1, <3>3
      <4> QED BY <2>3, <2>4, <2>5, <3>1, <3>3, <4>1
    <3> QED BY <2>4, <3>1, <3>2, <3>3
  <2>7. cursor = Size(file)
    BY <1>3, <2>4 DEF m
  <2>8. \A p \in 1..Len(Flow') :
          IF Flow'[p] = NoData THEN cursor = Size(file)
          ELSE Flow'[p][1] = file /\ Flow'[p][2] \in p..cursor
    BY <1>3, <2>6, <2>7 DEF m
  <2>9. ASSUME NEW p \in 1..Len(Flow'), NEW q \in 1..Len(Flow'), p < q, Flow'[q] # NoData
        PROVE  Flow'[p] # NoData /\ Flow'[q][2] - Flow'[p][2] >= q - p
    <3>1. p \in 1..m /\ q \in 1..m /\ q <= n /\ p <= n
      BY <2>4, <2>6, <2>9
    <3>2. Flow'[p] = Flow[p] /\ Flow'[q] = Flow[q]
      BY <2>6, <3>1
    <3> QED BY <1>3, <2>9, <3>1, <3>2 DEF m
  <2> QED
    BY <1>1, <1>3, <2>1, <2>7, <2>8, <2>9 DEF FlowInv, Size
<1> QED BY <1>4, <1>5

LEMMA WriteChunkPipe == ASSUME PipeInv, NEW th, WriteChunk(th) PROVE PipeInv'
<1>1. /\ step = "write" /\ step' = "write" /\ file \in Files /\ mode # "download"
      /\ UNCHANGED <<pool, task, mode, sizes, file, cursor, skipped>>
      /\ dest[file] \in Seq(Nat \X Nat) /\ buffers[file] \in Seq(Chunk) /\ buffers[file] # <<>>
  BY InHand DEF WriteChunk, PipeInv, PipeType, Files, source
<1>2. \E d \in Seq(Nat \X Nat) : dest' = [dest EXCEPT ![file] = d]
  <2>1. Head(buffers[file]) # NoData => Head(buffers[file]) \in Nat \X Nat
    BY <1>1, FirstChunk
  <2>2. CASE Head(buffers[file]) = NoData
    BY <1>1, <2>2 DEF WriteChunk
  <2>3. CASE Head(buffers[file]) # NoData
    <3>1. dest' = [dest EXCEPT ![file] = Append(dest[file], Head(buffers[file]))]
      BY <2>3 DEF WriteChunk
    <3>2. Append(dest[file], Head(buffers[file])) \in Seq(Nat \X Nat)
      BY <1>1, <2>1, <2>3
    <3> QED BY <3>1, <3>2
  <2> QED BY <2>2, <2>3
<1>3. buffers' = [buffers EXCEPT ![file] = Tail(buffers[file])] /\ Tail(buffers[file]) \in Seq(Chunk)
  BY <1>1 DEF WriteChunk
<1>4. written' \in Nat
  BY DEF WriteChunk, Amount, PipeInv, PipeType
<1>5. PipeType'
  BY <1>1, <1>2, <1>3, <1>4 DEF PipeInv, PipeType, PoolType, Files, pool
<1>6. JobsInv'
  BY <1>1 DEF PipeInv, JobsInv, Pending, pool
<1>7. FilesInv'
  <2>1. \A f \in Files : f # file => buffers'[f] = buffers[f] /\ dest'[f] = dest[f]
    BY <1>2, <1>3 DEF PipeInv, PipeType
  <2>2. \A f \in 1..file : f \in Files
    BY <1>1 DEF Files
  <2> QED
    BY <1>1, <2>1, <2>2 DEF PipeInv, FilesInv, Whole, Size, Files
<1>8. DownloadInv' /\ CompleteWhenDone'
  BY <1>1 DEF DownloadInv, CompleteWhenDone
<1> QED BY <1>5, <1>6, <1>7, <1>8, WriteChunkFlow DEF PipeInv

\* As many chunks as the file has, each at its place or later and none
\* twice: the file as a whole.
LEMMA WrittenIsWhole ==
  ASSUME PipeInv, step = "write", written = Size(file)
  PROVE  Whole(file)
<1> DEFINE d == dest[file]
           n == Size(file)
<1>1. /\ file \in Files /\ d \in Seq(Nat \X Nat) /\ buffers[file] \in Seq(Chunk)
      /\ n \in Nat /\ Len(d) = n /\ cursor \in Nat /\ cursor <= n
  BY InHand DEF PipeInv, PipeType, FlowInv, Files
<1>2. ASSUME NEW p \in 1..n PROVE p \in 1..Len(Flow) /\ Flow[p] = d[p] /\ d[p] \in Nat \X Nat /\ d[p] # NoData
  <2>1. d[p] \in Nat \X Nat
    BY <1>1, <1>2
  <2>2. d[p] # NoData
    BY <2>1, ChunksDiffer
  <2>3. Len(Flow) = Len(d) + Len(buffers[file]) /\ Len(buffers[file]) \in Nat /\ Flow[p] = d[p]
    <3>1. p \in 1..Len(d)
      BY <1>1, <1>2
    <3>2. Flow = d \o buffers[file]
      BY DEF Flow
    <3>3. Len(buffers[file]) \in Nat
      BY <1>1
    <3> QED BY <1>1, <3>1, <3>2, <3>3, FlowAt
  <2> QED BY <1>1, <2>1, <2>2, <2>3
<1>3. ASSUME NEW p \in 1..n PROVE d[p][1] = file /\ d[p][2] \in p..cursor
  BY <1>2, <1>3 DEF PipeInv, FlowInv
<1>4. ASSUME NEW p \in 1..n PROVE d[p][2] <= p
  <2>1. CASE p = n
    BY <1>1, <1>3, <2>1
  <2>2. CASE p < n
    <3>1. n \in 1..n /\ p < n
      BY <1>1, <2>2
    <3>2. d[n][2] - d[p][2] >= n - p
      <4>1. \A i, k \in 1..Len(Flow) : i < k /\ Flow[k] # NoData => Flow[k][2] - Flow[i][2] >= k - i
        BY DEF PipeInv, FlowInv
      <4>2. n \in 1..Len(Flow) /\ p \in 1..Len(Flow) /\ Flow[n] = d[n] /\ Flow[p] = d[p] /\ d[n] # NoData
        BY <1>2, <3>1
      <4> QED BY <3>1, <4>1, <4>2
    <3>3. d[n][2] <= n /\ d[n][2] \in Nat /\ d[p][2] \in Nat
      BY <1>1, <1>2, <1>3, <3>1
    <3>4. n \in Nat /\ p \in Nat
      BY <1>1
    <3> DEFINE last == d[n][2]
               this == d[p][2]
    <3>5. last - this >= n - p /\ last <= n /\ last \in Nat /\ this \in Nat
      BY <3>2, <3>3
    <3> HIDE DEF last, this, n
    <3>6. this <= p
      BY <3>4, <3>5
    <3> QED BY <3>6 DEF this
  <2> QED BY <1>1, <2>1, <2>2
<1>5. ASSUME NEW p \in 1..n PROVE d[p] = <<file, p>>
  <2>1. d[p][2] = p
    BY <1>1, <1>3, <1>4
  <2> QED BY <1>2, <1>3, <2>1
<1>6. d = [p \in 1..n |-> d[p]]
  BY <1>1
<1>7. [p \in 1..n |-> d[p]] = [p \in 1..n |-> <<file, p>>]
  BY <1>5
<1> QED BY <1>6, <1>7 DEF Whole

LEMMA CloseFilePipe == ASSUME PipeInv, NEW th, CloseFile(th) PROVE PipeInv'
<1>1. /\ step = "write" /\ step' = "next" /\ mode # "download" /\ written = Size(file)
      /\ UNCHANGED <<pool, source, file, written, cursor, buffers, dest, skipped>>
  BY DEF CloseFile, Copying, shared
<1>2. PipeType' /\ JobsInv'
  BY <1>1 DEF PipeInv, PipeType, PoolType, JobsInv, Files, Pending, pool, source
<1>3. FilesInv'
  BY <1>1, WrittenIsWhole DEF PipeInv, FilesInv, Whole, Size, Files, source
<1>4. FlowInv' /\ DownloadInv' /\ CompleteWhenDone'
  BY <1>1 DEF FlowInv, DownloadInv, CompleteWhenDone
<1> QED BY <1>2, <1>3, <1>4 DEF PipeInv

\* A reader reads on in the file in hand, and pushes what it got, or did not
\* get, to the queue it was given, which may be that of an earlier file.
LEMMA ReadChunkFlow ==
  ASSUME PipeInv, PipeType', NEW th \in Thread, ReadChunk(th)
  PROVE  FlowInv'
<1> SUFFICES ASSUME step = "write" PROVE FlowInv'
  BY DEF FlowInv, ReadChunk, loops
<1> DEFINE f == job[th].file
           real == cursor < Size(file)
           x == IF real THEN <<file, cursor + 1>> ELSE NoData
           n == Len(Flow)
<1>1. /\ UNCHANGED <<sizes, step, file, written, dest>> /\ file \in Files
      /\ dest[file] \in Seq(Nat \X Nat) /\ buffers[file] \in Seq(Chunk) /\ Flow \in Seq(Chunk)
      /\ cursor \in Nat /\ Size(file) \in Nat /\ file \in Nat
      /\ file \notin skipped
  BY InHand DEF PipeInv, PipeType, FilesInv, ReadChunk, source, loops, output, Files
<1>2. buffers' = [buffers EXCEPT ![f] = Append(buffers[f], x)]
      /\ cursor' = cursor + (IF real THEN 1 ELSE 0)
  BY <1>1, ChunksDiffer DEF ReadChunk, Amount
<1>3. /\ cursor <= Size(file) /\ written = Len(dest[file])
      /\ \A p \in 1..n : IF Flow[p] = NoData THEN cursor = Size(file)
                         ELSE Flow[p][1] = file /\ Flow[p][2] \in p..cursor
      /\ \A p, q \in 1..n : p < q /\ Flow[q] # NoData =>
           Flow[p] # NoData /\ Flow[q][2] - Flow[p][2] >= q - p
  BY DEF PipeInv, FlowInv
<1>4. CASE f # file
  <2>1. Flow' = Flow
    <3>1. buffers'[file] = buffers[file]
      BY <1>1, <1>2, <1>4 DEF PipeInv, PipeType
    <3> QED BY <1>1, <3>1 DEF Flow
  <2>2. \A p \in 1..n : IF Flow[p] = NoData THEN cursor' = Size(file)
                         ELSE Flow[p][1] = file /\ Flow[p][2] \in p..cursor'
    BY <1>1, <1>2, <1>3
  <2>3. cursor' <= Size(file)
    BY <1>1, <1>2, <1>3
  <2> QED
    BY <1>1, <1>3, <2>1, <2>2, <2>3 DEF FlowInv, Size
<1>5. CASE f = file
  <2>1. Flow' = Append(Flow, x) /\ x \in Chunk
    <3>1. x \in Chunk
      <4>1. <<file, cursor + 1>> \in Chunk /\ NoData \in Chunk
        BY <1>1 DEF Chunk
      <4> QED BY <4>1
    <3>2. buffers'[file] = Append(buffers[file], x)
      BY <1>1, <1>2, <1>5 DEF PipeInv, PipeType
    <3> QED BY <1>1, <3>1, <3>2, FlowPush, ZenonT(60) DEF Flow
  <2> HIDE DEF x
  <2>2. n \in Nat /\ Len(Flow') = n + 1 /\ Flow'[n+1] = x /\ \A p \in 1..n : Flow'[p] = Flow[p]
    BY <1>1, <2>1
  <2>3. cursor' <= Size(file) /\ cursor' \in Nat
    BY <1>1, <1>2, <1>3
  <2> HIDE DEF n
  <2>4. CASE ~real
    <3>1. x = NoData /\ cursor' = cursor /\ cursor = Size(file)
      BY <1>1, <1>2, <1>3, <2>4 DEF x
    <3>2. \A p \in 1..n+1 : IF Flow'[p] = NoData THEN cursor' = Size(file)
                             ELSE Flow'[p][1] = file /\ Flow'[p][2] \in p..cursor'
      BY <1>3, <2>2, <3>1
    <3>3. ASSUME NEW p \in 1..n+1, NEW q \in 1..n+1, p < q, Flow'[q] # NoData
          PROVE  Flow'[p] # NoData /\ Flow'[q][2] - Flow'[p][2] >= q - p
      <4>1. p \in 1..n /\ q \in 1..n
        BY <2>2, <3>1, <3>3
      <4> QED BY <1>3, <2>2, <3>3, <4>1
    <3> QED BY <1>1, <1>3, <2>2, <2>3, <3>2, <3>3 DEF FlowInv, Size
  <2>5. CASE real
    <3>1. x = <<file, cursor + 1>> /\ cursor' = cursor + 1 /\ x # NoData
      BY <1>2, <2>5, ChunksDiffer DEF x
    <3>2. \A p \in 1..n : Flow[p] # NoData /\ Flow[p][1] = file /\ Flow[p][2] \in p..cursor
      BY <1>1, <1>3, <2>5
    <3>3. n <= cursor
      <4>1. CASE n = 0
        BY <1>1, <4>1
      <4>2. CASE n # 0
        <5>1. n \in 1..n
          BY <2>2, <4>2
        <5>2. Flow[n][2] \in n..cursor
          BY <3>2, <5>1
        <5> QED BY <1>1, <2>2, <5>2
      <4> QED BY <4>1, <4>2
    <3>4. ASSUME NEW p \in 1..n+1
          PROVE  Flow'[p] # NoData /\ Flow'[p][1] = file /\ Flow'[p][2] \in p..cursor'
      <4>1. CASE p = n + 1
        BY <1>1, <2>2, <3>1, <3>3, <4>1
      <4>2. CASE p \in 1..n
        <5>1. Flow'[p] = Flow[p] /\ Flow[p][2] \in p..cursor
          BY <2>2, <3>2, <4>2
        <5>2. p..cursor \subseteq p..cursor'
          BY <1>1, <3>1
        <5> QED BY <3>2, <4>2, <5>1, <5>2
      <4> QED BY <2>2, <4>1, <4>2
    <3>5. ASSUME NEW p \in 1..n+1, NEW q \in 1..n+1, p < q
          PROVE  Flow'[q][2] - Flow'[p][2] >= q - p
      <4>1. CASE q \in 1..n
        <5>1. p \in 1..n
          BY <2>2, <3>5, <4>1
        <5> QED BY <1>3, <2>2, <3>2, <3>5, <4>1, <5>1
      <4>2. CASE q = n + 1
        <5>1. p \in 1..n /\ n \in 1..n /\ Flow'[q][2] = cursor + 1 /\ Flow'[p] = Flow[p]
          BY <2>2, <3>1, <3>5, <4>2
        <5> DEFINE last == Flow[n][2]
                   this == Flow[p][2]
        <5>2. last \in n..cursor /\ this \in p..cursor
          BY <3>2, <5>1
        <5>3. p < n => last - this >= n - p
          BY <1>3, <3>2, <5>1
        <5> HIDE DEF last, this
        <5>4. p = n => last = this
          BY DEF last, this
        <5>5. cursor + 1 - this >= q - p
          BY <1>1, <2>2, <4>2, <5>1, <5>2, <5>3, <5>4
        <5>6. Flow'[p][2] = this
          BY <5>1 DEF this
        <5> DEFINE newest == Flow'[q][2]
                   other == Flow'[p][2]
        <5>7. newest = cursor + 1 /\ other = this
          BY <5>1, <5>6
        <5> HIDE DEF newest, other
        <5>8. newest - other >= q - p
          BY <1>1, <5>2, <5>5, <5>7
        <5> QED BY <5>8 DEF newest, other
      <4> QED BY <2>2, <4>1, <4>2
    <3> QED BY <1>1, <1>3, <2>2, <2>3, <3>4, <3>5 DEF FlowInv, Size
  <2> QED BY <2>4, <2>5
<1> QED BY <1>4, <1>5

LEMMA ReadChunkPipe == ASSUME PipeInv, NEW th \in Thread, ReadChunk(th) PROVE PipeInv'
<1>1. /\ UNCHANGED <<pool, task, mode, sizes, step, file, written, dest, skipped>>
      /\ at[th] = "run" /\ job[th].kind = "reader" /\ job[th].task = task /\ step # "idle"
  BY DEF ReadChunk, Running, Current, source, loops, output
<1>2. mode # "download" /\ job[th].file \in 1..file
  BY <1>1 DEF PipeInv, JobsInv, Pending
<1>3. file \in Files /\ job[th].file \in Files /\ file \in Nat
  BY <1>2 DEF PipeInv, PipeType, Files
<1>4. \E x \in Chunk : buffers' = [buffers EXCEPT ![job[th].file] = Append(buffers[job[th].file], x)]
  <2>1. <<file, cursor + 1>> \in Chunk /\ NoData \in Chunk
    BY <1>3 DEF PipeInv, PipeType, Chunk
  <2> QED BY <2>1 DEF ReadChunk
<1>5. cursor' \in Nat
  BY DEF ReadChunk, PipeInv, PipeType, Amount
<1>6. PipeType'
  <2>1. PICK x \in Chunk : buffers' = [buffers EXCEPT ![job[th].file] = Append(buffers[job[th].file], x)]
    BY <1>4
  <2>2. ASSUME NEW f \in Files PROVE buffers'[f] \in Seq(Chunk)
    <3>1. DOMAIN buffers = Files /\ buffers[f] \in Seq(Chunk)
      BY DEF PipeInv, PipeType
    <3>2. Append(buffers[f], x) \in Seq(Chunk)
      BY <3>1
    <3> QED BY <2>1, <3>1, <3>2
  <2>3. PoolType'
    BY <1>1 DEF PipeInv, PipeType, PoolType, pool
  <2> QED BY <1>1, <1>2, <1>5, <2>1, <2>2, <2>3 DEF PipeInv, PipeType, Files
<1>7. JobsInv'
  BY <1>1 DEF PipeInv, JobsInv, Pending, pool
<1>8. FilesInv'
  <2>1. \A f \in Files : f > file => buffers'[f] = buffers[f]
    BY <1>2, <1>3, <1>4 DEF PipeInv, PipeType, Files
  <2> QED BY <1>1, <2>1 DEF PipeInv, FilesInv, Whole, Size, Files
<1>9. DownloadInv' /\ CompleteWhenDone'
  BY <1>1, <1>2 DEF PipeInv, PipeType, DownloadInv, CompleteWhenDone
<1> QED BY <1>6, <1>7, <1>8, <1>9, ReadChunkFlow DEF PipeInv

-----------------------------------------------------------------------------
\* Steps of the pool and of jobs that touch no file.
LEMMA PoolStepPipe == ASSUME PipeInv, NEW th \in Thread, PoolStep(th) PROVE PipeInv'
<1>1. UNCHANGED <<source, step, file, written, cursor, buffers, dest, skipped>>
  BY DEF PoolStep, loops, shared, output
<1>2. PoolType' /\ Pending' = Pending
  BY TestPending, OtherPending DEF PoolStep, PipeInv, PipeType
<1> QED BY <1>1, <1>2, PoolOnly

LEMMA StartShortPipe == ASSUME PipeInv, StartShort PROVE PipeInv'
<1>1. UNCHANGED <<source, step, file, written, cursor, buffers, dest, skipped>>
  BY DEF StartShort, loops, shared, output
<1>2. Job("short", 0, 0) \in JobType /\ Job("short", 0, 0).kind = "short" /\ Job("short", 0, 0).task = 0
  BY DEF Job, JobType
<1>3. PoolType' /\ Pending' = Pending \cup {Job("short", 0, 0)}
  BY <1>2, PushPending DEF StartShort, PipeInv, PipeType
<1> QED BY <1>1, <1>2, <1>3, PoolOnly

LEMMA QuitPipe == ASSUME PipeInv, Quit PROVE PipeInv'
<1>1. UNCHANGED <<source, step, file, written, cursor, buffers, dest, skipped>>
  BY DEF Quit, loops, shared
<1>2. PoolType' /\ Pending' = Pending
  BY DEF Quit, Exit, Notified, PipeInv, PipeType, PoolType, Pending
<1> QED BY <1>1, <1>2, PoolOnly

\* A job other than the writer of a download ends, or is lost.
LEMMA JobEndsPipe ==
  ASSUME PipeInv, NEW th \in Thread, at[th] = "run", job[th].kind # "writer",
         Return(th) \/ (at' = [at EXCEPT ![th] = "lost"] /\ UNCHANGED <<jobs, job>>),
         UNCHANGED <<source, step, file, written, cursor, buffers, dest, skipped>>
  PROVE  PipeInv'
<1>1. PoolType' /\ Pending' \subseteq Pending /\ Pending \subseteq Pending' \cup {job[th]}
  BY EndPending DEF PipeInv, PipeType
<1>2. Writer # job[th]
  BY DEF Writer, Job
<1> QED BY <1>1, <1>2, PoolOnly

LEMMA ReaderPipe ==
  ASSUME PipeInv, NEW th \in Thread,
         EndShort(th) \/ StartReader(th) \/ ReadDangling(th) \/ EndReader(th)
  PROVE  PipeInv'
<1>1. /\ UNCHANGED <<source, step, file, written, cursor, buffers, dest, skipped>>
      /\ at[th] = "run" /\ job[th].kind # "writer"
  BY DEF EndShort, StartReader, ReadDangling, EndReader, loops, shared, output, Running
<1>2. CASE UNCHANGED pool
  <2>1. PoolType' /\ Pending' = Pending
    BY <1>2 DEF PipeInv, PipeType, PoolType, Pending, pool
  <2> QED BY <1>1, <2>1, PoolOnly
<1>3. CASE Return(th) \/ (at' = [at EXCEPT ![th] = "lost"] /\ UNCHANGED <<jobs, job>>)
  BY <1>1, <1>3, JobEndsPipe
<1> QED BY <1>2, <1>3 DEF EndShort, StartReader, ReadDangling, EndReader

-----------------------------------------------------------------------------
\* A download.
LEMMA OneFile ==
  ASSUME PipeType, mode = "download"
  PROVE  /\ Files = {1} /\ Size(1) \in Nat /\ cursor \in Nat
         /\ DOMAIN dest = {1} /\ dest[1] \in Seq(Nat \X Nat)
         /\ DOMAIN buffers = {1} /\ buffers[1] \in Seq(Chunk)
         /\ step \in {"receive", "acquire"} => file = 1 /\ Flow = dest[1] \o buffers[1]
<1>1. Len(sizes) = 1 /\ sizes \in Seq(Nat)
  BY DEF PipeType
<1>2. Files = {1}
  BY <1>1 DEF Files
<1>3. Size(1) \in Nat
  BY <1>1 DEF Size
<1> QED BY <1>2, <1>3 DEF PipeType, Flow

LEMMA OpenDownloadPipe == ASSUME PipeInv, NEW th, OpenDownload(th) PROVE PipeInv'
<1>1. /\ mode = "download" /\ step = "next" /\ step' = "receive" /\ file = 0 /\ file' = 1
      /\ UNCHANGED <<source, written, cursor, buffers, dest, skipped>>
      /\ Len(sizes) = 1 /\ cursor = 0 /\ task \in Nat /\ sizes \in Seq(Nat)
  BY DEF OpenDownload, Downloading, PipeInv, PipeType, shared, output
<1>2. Writer \in JobType
  BY <1>1 DEF Writer, Job, JobType
<1>3. PoolType' /\ Pending' = Pending \cup {Writer}
  BY <1>2, PushPending DEF OpenDownload, PipeInv, PipeType, Writer
<1>4. PipeType'
  BY <1>1, <1>3 DEF PipeInv, PipeType, Files, source
<1>5. JobsInv'
  BY <1>1, <1>3 DEF PipeInv, JobsInv, source, Writer, Job
<1>6. Files = {1} /\ skipped = {}
  BY <1>1 DEF Files, PipeInv, FilesInv
<1>7. FilesInv'
  BY <1>1, <1>6 DEF FilesInv, Files, source
<1>8. dest[1] = <<>> /\ buffers[1] = <<>>
  BY <1>1, <1>6 DEF PipeInv, FilesInv
<1>9. Flow' = <<>> /\ Size(1) \in Nat /\ Size(1)' = Size(1)
  BY <1>1, <1>8 DEF Flow, Size, source
<1>10. Writer' \in Pending'
  BY <1>1, <1>3 DEF Writer, source
<1>11. DownloadInv'
  BY <1>1, <1>9, <1>10 DEF DownloadInv
<1>12. FlowInv' /\ CompleteWhenDone'
  BY <1>1 DEF FlowInv, CompleteWhenDone
<1> QED BY <1>4, <1>5, <1>7, <1>11, <1>12 DEF PipeInv

LEMMA ReceivePipe == ASSUME PipeInv, NEW th, Receive(th) PROVE PipeInv'
<1>1. /\ mode = "download" /\ step = "receive" /\ file = 1 /\ cursor < Size(1)
      /\ UNCHANGED <<pool, source, step, file, written, dest, skipped>>
      /\ Files = {1} /\ cursor \in Nat /\ Size(1) \in Nat /\ cursor' = cursor + 1
      /\ buffers' = [buffers EXCEPT ![1] = Append(buffers[1], <<1, cursor + 1>>)]
      /\ dest[1] \in Seq(Nat \X Nat) /\ buffers[1] \in Seq(Chunk) /\ DOMAIN buffers = Files
      /\ Flow = dest[1] \o buffers[1]
  BY OneFile DEF Receive, Downloading, PipeInv, loops, output
<1>2. <<1, cursor + 1>> \in Chunk
  BY <1>1 DEF Chunk
<1>3. buffers'[1] = Append(buffers[1], <<1, cursor + 1>>) /\ buffers'[1] \in Seq(Chunk) /\ DOMAIN buffers' = Files
  BY <1>1, <1>2
<1>4. PipeType'
  BY <1>1, <1>3 DEF PipeInv, PipeType, PoolType, Files, pool, source
<1>5. JobsInv' /\ FilesInv'
  BY <1>1 DEF PipeInv, JobsInv, FilesInv, Files, Pending, pool, source
<1>6. Flow' = Append(Flow, <<1, cursor + 1>>) /\ Flow \in Seq(Chunk)
  <2>1. Flow' = dest[1] \o Append(buffers[1], <<1, cursor + 1>>)
    BY <1>1, <1>3 DEF Flow
  <2>2. dest[1] \in Seq(Chunk)
    BY <1>1 DEF Chunk
  <2>3. Flow \in Seq(Chunk)
    BY <1>1, <2>2
  <2>4. dest[1] \o Append(buffers[1], <<1, cursor + 1>>) = Append(dest[1] \o buffers[1], <<1, cursor + 1>>)
    BY <1>1, <1>2, FlowPush
  <2> QED BY <1>1, <2>1, <2>3, <2>4
<1>7. Len(Flow) = cursor /\ \A p \in 1..cursor : Flow[p] = <<1, p>>
  BY <1>1 DEF PipeInv, DownloadInv
<1>8. Len(Flow') = cursor' /\ \A p \in 1..cursor' : Flow'[p] = <<1, p>>
  <2>1. Len(Flow') = cursor + 1 /\ Flow'[cursor + 1] = <<1, cursor + 1>>
        /\ \A p \in 1..cursor : Flow'[p] = Flow[p]
    BY <1>2, <1>6, <1>7, AppendAt
  <2>2. cursor \in Nat /\ cursor' = cursor + 1
    BY <1>1
  <2>3. ASSUME NEW p \in 1..cursor' PROVE Flow'[p] = <<1, p>>
    <3>1. p \in 1..cursor \/ p = cursor + 1
      BY <2>2
    <3> QED BY <1>7, <2>1, <3>1
  <2> QED BY <2>1, <2>2, <2>3
<1>9. Writer' = Writer /\ Pending' = Pending /\ Size(1)' = Size(1) /\ dest' = dest
  BY <1>1 DEF Writer, Pending, Size, pool, source
<1>10. Writer \in Pending \/ Len(dest[1]) = Size(1)
  BY <1>1 DEF PipeInv, DownloadInv
<1>11. DownloadInv'
  <2>1. cursor' <= Size(1)
    BY <1>1
  <2> QED BY <1>1, <1>8, <1>9, <1>10, <2>1 DEF DownloadInv
<1>12. FlowInv' /\ CompleteWhenDone'
  BY <1>1 DEF FlowInv, CompleteWhenDone
<1> QED BY <1>4, <1>5, <1>11, <1>12 DEF PipeInv

LEMMA ReceivedPipe == ASSUME PipeInv, NEW th \in Thread, Received(th) PROVE PipeInv'
<1>1. /\ mode = "download" /\ step = "receive" /\ file = 1 /\ at[th] = "run" /\ Files = {1}
      /\ UNCHANGED <<source, file, written, cursor, buffers, dest>>
  BY OneFile DEF Received, Downloading, Running, PipeInv, shared
<1>2. CASE cursor = Size(1) /\ step' = "acquire" /\ UNCHANGED <<pool, skipped>>
  <2>1. PipeType' /\ JobsInv' /\ FilesInv'
    BY <1>1, <1>2 DEF PipeInv, PipeType, PoolType, JobsInv, FilesInv, Files, Whole, Size,
       Pending, pool, source
  <2>2. Writer' = Writer /\ Pending' = Pending /\ Size(1)' = Size(1) /\ Flow' = Flow
    BY <1>1, <1>2 DEF Writer, Pending, Size, Flow, pool, source
  <2>3. DownloadInv'
    BY <1>1, <1>2, <2>2 DEF PipeInv, DownloadInv
  <2> QED BY <1>2, <2>1, <2>3 DEF PipeInv, FlowInv, CompleteWhenDone
<1>3. CASE step' = "idle" /\ skipped' = {1} /\ Return(th)
  <2>1. PoolType' /\ Pending' \subseteq Pending
    BY <1>1, <1>3, EndPending DEF PipeInv, PipeType
  <2>2. PipeType' /\ JobsInv' /\ FilesInv'
    BY <1>1, <1>3, <2>1 DEF PipeInv, PipeType, JobsInv, FilesInv, Files, source
  <2>3. CompleteWhenDone'
    BY <1>1, <1>3 DEF CompleteWhenDone, Files, source
  <2> QED BY <1>3, <2>2, <2>3 DEF PipeInv, FlowInv, DownloadInv
<1> QED BY <1>2, <1>3 DEF Received

\* The writer writes what comes next, and ends when all is written.
LEMMA WriteDownloadPipe == ASSUME PipeInv, NEW th \in Thread, WriteDownload(th) PROVE PipeInv'
<1>1. /\ at[th] = "run" /\ job[th].kind = "writer" /\ job[th] \in Pending /\ job[th] \in JobType
      /\ UNCHANGED <<source, step, file, written, cursor, skipped>>
  BY DEF WriteDownload, Running, Pending, PipeInv, PipeType, PoolType, loops
<1>2. CASE ~Current(th)
  <2>1. at' = [at EXCEPT ![th] = "lost"] /\ UNCHANGED <<jobs, job, dest, buffers>>
    BY <1>2 DEF WriteDownload
  <2>2. PoolType' /\ Pending' \subseteq Pending /\ Pending \subseteq Pending' \cup {job[th]}
    BY <1>1, <2>1, EndPending DEF PipeInv, PipeType
  <2>3. step \in {"receive", "acquire"} => job[th] # Writer
    BY <1>2 DEF Current, Writer, Job
  <2> QED BY <1>1, <2>1, <2>2, <2>3, PoolOnly
<1>3. CASE Current(th) /\ Len(dest[1]) = Size(1)
  <2>1. Return(th) /\ UNCHANGED <<dest, buffers>>
    BY <1>3 DEF WriteDownload
  <2>2. PoolType' /\ Pending' \subseteq Pending
    BY <1>1, <2>1, EndPending DEF PipeInv, PipeType
  <2> QED BY <1>1, <1>3, <2>1, <2>2, PoolOnly
<1>4. CASE Current(th) /\ Len(dest[1]) # Size(1)
  <2> DEFINE d == dest[1]
             b == buffers[1]
  <2>1. b # <<>> /\ dest' = [dest EXCEPT ![1] = Append(d, Head(b))]
        /\ buffers' = [buffers EXCEPT ![1] = Tail(b)] /\ UNCHANGED pool
    BY <1>4 DEF WriteDownload
  <2>2. mode = "download" /\ file = 1 /\ step # "idle"
    BY <1>1, <1>4 DEF PipeInv, JobsInv, Current
  <2>3. /\ step \in {"receive", "acquire"} /\ Files = {1} /\ DOMAIN dest = {1} /\ DOMAIN buffers = {1}
        /\ d \in Seq(Nat \X Nat) /\ b \in Seq(Chunk) /\ Flow = d \o b
    BY <2>2, OneFile DEF PipeInv, PipeType
  <2>4. Len(Flow) = cursor /\ \A p \in 1..cursor : Flow[p] = <<1, p>>
    BY <2>3 DEF PipeInv, DownloadInv
  <2>5. Head(b) # NoData
    <3>1. Len(b) \in Nat /\ Len(b) > 0 /\ Head(b) = b[1]
      BY <2>1, <2>3, FirstChunk
    <3>2. 1 \in 1..Len(b) /\ Len(d) \in Nat
      BY <2>3, <3>1
    <3>3. Len(Flow) = Len(d) + Len(b) /\ Flow[Len(d) + 1] = b[1]
      BY <2>3, <3>2, FlowAt
    <3>4. \A x, y, z : x = y + z /\ y \in Nat /\ z \in Nat /\ z > 0 => y + 1 \in 1..x
      OBVIOUS
    <3>5. Len(d) + 1 \in 1..cursor
      BY <2>4, <3>1, <3>2, <3>3, <3>4
    <3>6. b[1] = <<1, Len(d) + 1>>
      BY <2>4, <3>3, <3>5
    <3> QED BY <3>1, <3>6, ChunksDiffer
  <2>6. Head(b) \in Nat \X Nat /\ Tail(b) \in Seq(Chunk)
    BY <2>1, <2>3, <2>5, FirstChunk
  <2>7. /\ dest'[1] = Append(d, Head(b)) /\ dest'[1] \in Seq(Nat \X Nat) /\ DOMAIN dest' = {1}
        /\ buffers'[1] = Tail(b) /\ buffers'[1] \in Seq(Chunk) /\ DOMAIN buffers' = {1}
    BY <2>1, <2>3, <2>6
  <2>8. Flow' = Flow
    BY <1>1, <2>1, <2>2, <2>3, <2>5, <2>7, FlowMove DEF Flow
  <2>9. PipeType' /\ JobsInv' /\ FilesInv'
    BY <1>1, <2>1, <2>2, <2>3, <2>7, SMTT(30)
    DEF PipeInv, PipeType, PoolType, JobsInv, FilesInv, Files, Pending, pool, source
  <2>10. DownloadInv'
    <3>1. Writer' = Writer /\ Pending' = Pending /\ Size(1)' = Size(1)
      BY <1>1, <2>1 DEF Writer, Pending, Size, pool, source
    <3>2. Writer \in Pending
      BY <1>4, <2>3 DEF PipeInv, DownloadInv
    <3> QED BY <1>1, <2>8, <3>1, <3>2 DEF PipeInv, DownloadInv
  <2> QED BY <1>1, <2>3, <2>9, <2>10 DEF PipeInv, FlowInv, CompleteWhenDone
<1> QED BY <1>2, <1>3, <1>4

\* The task goes on only when its writer has ended.
LEMMA AcquirePipe == ASSUME PipeInv, NEW th \in Thread, Acquire(th) PROVE PipeInv'
<1>1. /\ mode = "download" /\ step = "acquire" /\ step' = "idle" /\ file = 1 /\ Files = {1}
      /\ at[th] = "run" /\ Return(th) /\ UNCHANGED <<source, file, written, cursor, buffers, dest, skipped>>
      /\ dest[1] \in Seq(Nat \X Nat) /\ buffers[1] \in Seq(Chunk) /\ Size(1) \in Nat
  BY OneFile DEF Acquire, Downloading, Running, PipeInv, shared, output
<1>2. PoolType' /\ Pending' \subseteq Pending
  BY <1>1, EndPending DEF PipeInv, PipeType
<1>3. Writer \notin Pending
  BY DEF Acquire, Writer, Pending
<1>4. Len(dest[1]) = Size(1) /\ cursor = Size(1) /\ \A p \in 1..cursor : Flow[p] = <<1, p>>
  BY <1>1, <1>3 DEF PipeInv, DownloadInv
<1>5. ASSUME NEW p \in 1..Size(1) PROVE dest[1][p] = <<1, p>>
  <2>1. Flow[p] = dest[1][p]
    BY <1>1, <1>4, FlowAt DEF Flow
  <2> QED BY <1>4, <2>1
<1>6. dest[1] = [p \in 1..Size(1) |-> dest[1][p]]
  BY <1>1, <1>4
<1>7. [p \in 1..Size(1) |-> dest[1][p]] = [p \in 1..Size(1) |-> <<1, p>>]
  BY <1>5
<1>8. PipeType' /\ JobsInv' /\ FilesInv'
  BY <1>1, <1>2 DEF PipeInv, PipeType, JobsInv, FilesInv, Files, source
<1>9. CompleteWhenDone'
  BY <1>1, <1>6, <1>7 DEF CompleteWhenDone, Files, Size, source
<1> QED BY <1>1, <1>8, <1>9 DEF PipeInv, FlowInv, DownloadInv

LEMMA NextPipe == ASSUME PipeInv, [Next]_vars PROVE PipeInv'
<1>1. CASE StartTask \/ StartShort \/ Quit
  BY <1>1, StartTaskPipe, StartShortPipe, QuitPipe
<1>2. CASE \E th \in Thread : Step(th)
  <2>1. PICK th \in Thread : Step(th)
    BY <1>2
  <2> QED
    BY <2>1, PoolStepPipe, ReaderPipe, OpenFilePipe, WriteChunkPipe, CloseFilePipe, FinishPipe,
       ReadChunkPipe, OpenDownloadPipe, ReceivePipe, ReceivedPipe, WriteDownloadPipe, AcquirePipe
    DEF Step
<1>3. CASE \E th \in Thread : SkipFile(th)
  BY <1>3, SkipFilePipe
<1>4. CASE UNCHANGED vars
  <2>1. PoolType' /\ Pending' = Pending
    BY <1>4 DEF PipeInv, PipeType, PoolType, Pending, vars, pool
  <2> QED BY <1>4, <2>1, PoolOnly DEF vars, loops, shared, output
<1> QED BY <1>1, <1>2, <1>3, <1>4 DEF Next

\* What lies between reader and writer, at every point of a copy.
THEOREM Pipeline == Spec => []PipeInv
<1>1. PipeInv /\ [Next]_vars => PipeInv'
  BY NextPipe
<1> QED BY InitPipe, <1>1, PTL DEF Spec

\* A task that has returned has copied every file it could open, as a whole
\* and in order, whatever the queue limit, the number of threads and files.
THEOREM CopyComplete == Spec => []CompleteWhenDone
<1>1. PipeInv => CompleteWhenDone
  BY DEF PipeInv
<1> QED BY Pipeline, <1>1, PTL

-----------------------------------------------------------------------------
(***************************************************************************)
(* That only the reader of an empty file is left behind.                   *)
(***************************************************************************)
\* The reader of the file in hand is one job, and once there is something of
\* the file it has started.
OneReader == step = "write" =>
    /\ \A i, k \in DOMAIN jobs : jobs[i] = Reader(file) /\ jobs[k] = Reader(file) => i = k
    /\ \A th \in Thread : at[th] = "run" /\ job[th] = Reader(file) =>
        /\ \A i \in DOMAIN jobs : jobs[i] # Reader(file)
        /\ \A t \in Thread : at[t] = "run" /\ job[t] = Reader(file) => t = th
    /\ written > 0 \/ buffers[file] # <<>> => ~Unstarted
ReaderInv ==
    /\ OneReader
    /\ DOMAIN size = Thread /\ DOMAIN read = Thread
    /\ \A th \in Thread : size[th] \in Nat /\ read[th] \in Nat

LEMMA InitReader == Init => ReaderInv
BY DEF Init, ReaderInv, OneReader

\* Steps of the loops' own counts.
LEMMA LoopCounts ==
  ASSUME PipeInv, ReaderInv, [Next]_vars
  PROVE  /\ DOMAIN size' = Thread /\ DOMAIN read' = Thread
         /\ \A th \in Thread : size'[th] \in Nat /\ read'[th] \in Nat
<1>1. CASE \E th \in Thread : Step(th)
  <2>1. PICK th \in Thread : Step(th)
    BY <1>1
  <2>2. CASE StartReader(th)
    <3>1. Current(th) /\ job[th].kind = "reader" /\ job[th] \in Pending
      BY <2>2 DEF StartReader, Running, Pending
    <3>2. file \in Files
      BY <3>1 DEF PipeInv, PipeType, JobsInv, Files, Current
    <3>3. Size(file) \in Nat
      BY <3>2, InHand DEF PipeInv
    <3> QED BY <2>2, <3>3 DEF StartReader, ReaderInv
  <2>3. CASE ReadDangling(th) \/ EndReader(th)
    BY <2>3 DEF ReadDangling, EndReader, ReaderInv
  <2>4. CASE ReadChunk(th)
    BY <2>4, AmountIsSmall DEF ReadChunk, ReaderInv
  <2>5. CASE UNCHANGED <<size, read>>
    BY <2>5 DEF ReaderInv
  <2> QED
    BY <2>1, <2>2, <2>3, <2>4, <2>5
    DEF Step, PoolStep, EndShort, OpenFile, WriteChunk, CloseFile, Finish, OpenDownload, Receive,
        Received, WriteDownload, Acquire, shared
<1>2. CASE UNCHANGED <<size, read>>
  BY <1>2 DEF ReaderInv
<1> QED BY <1>1, <1>2 DEF Next, StartTask, StartShort, Quit, SkipFile, vars, shared

\* The jobs that wait stay, and no thread takes one.
LEMMA ReaderStays ==
  ASSUME OneReader, UNCHANGED <<task, step, file, jobs>>,
         \A th \in Thread : at'[th] = "run" =>
            at[th] = "run" /\ job'[th] = job[th] /\ (size'[th] = 0 => size[th] = 0),
         step = "write" /\ (written' > 0 \/ buffers'[file] # <<>>) => written > 0 \/ buffers[file] # <<>>
  PROVE  OneReader'
<1> SUFFICES ASSUME step = "write" PROVE OneReader'
  BY DEF OneReader
<1>1. Reader(file)' = Reader(file)
  BY DEF Reader
<1>2. Unstarted' => Unstarted
  BY DEF Unstarted
<1> QED BY <1>1, <1>2 DEF OneReader

LEMMA TestReader == ASSUME PipeInv, OneReader, NEW th \in Thread, PoolStep(th) PROVE OneReader'
<1> SUFFICES ASSUME step = "write" PROVE OneReader'
  BY DEF OneReader, PoolStep, loops
<1>1. UNCHANGED <<task, step, file, written, buffers, size>> /\ PoolType
  BY DEF PoolStep, source, loops, shared, PipeInv, PipeType
<1>2. CASE /\ jobs # <<>> /\ at' = [at EXCEPT ![th] = "run"] /\ at[th] = "test"
           /\ job' = [job EXCEPT ![th] = Head(jobs)] /\ jobs' = Tail(jobs)
  <2> DEFINE R == Reader(file)
  <2>1. /\ \A k \in DOMAIN jobs' : k + 1 \in DOMAIN jobs /\ k + 1 # 1 /\ jobs'[k] = jobs[k + 1]
        /\ 1 \in DOMAIN jobs /\ Head(jobs) = jobs[1]
    BY <1>1, <1>2 DEF PoolType
  <2>2. job'[th] = jobs[1] /\ \A t \in Thread : t # th => at'[t] = at[t] /\ job'[t] = job[t]
    BY <1>1, <1>2, <2>1 DEF PoolType
  <2>3. Reader(file)' = R
    BY <1>1 DEF Reader
  <2> HIDE DEF R
  <2>4. /\ \A i, k \in DOMAIN jobs : jobs[i] = R /\ jobs[k] = R => i = k
        /\ \A u \in Thread : at[u] = "run" /\ job[u] = R =>
             /\ \A i \in DOMAIN jobs : jobs[i] # R
             /\ \A t \in Thread : at[t] = "run" /\ job[t] = R => t = u
    BY DEF OneReader, R
  <2>5. \A i, k \in DOMAIN jobs' : jobs'[i] = R /\ jobs'[k] = R => i = k
    <3>1. ASSUME NEW i \in DOMAIN jobs', NEW k \in DOMAIN jobs', jobs'[i] = R, jobs'[k] = R PROVE i = k
      <4>1. i + 1 = k + 1
        BY <2>1, <2>4, <3>1
      <4>2. DOMAIN jobs' \subseteq Nat
        BY <1>1, <1>2 DEF PoolType
      <4> QED BY <4>1, <4>2
    <3> QED BY <3>1
  <2>6. ASSUME NEW u \in Thread, at'[u] = "run", job'[u] = R
        PROVE  /\ \A i \in DOMAIN jobs' : jobs'[i] # R
               /\ \A t \in Thread : at'[t] = "run" /\ job'[t] = R => t = u
    <3>1. CASE u = th
      BY <2>1, <2>2, <2>4, <2>6, <3>1
    <3>2. CASE u # th
      BY <2>1, <2>2, <2>4, <2>6, <3>2
    <3> QED BY <3>1, <3>2
  <2>7. Unstarted' => Unstarted
    BY <1>1, <2>1, <2>2 DEF Unstarted
  <2>8. written' > 0 \/ buffers'[file'] # <<>> => ~Unstarted'
    BY <1>1, <2>7 DEF OneReader
  <2> QED BY <1>1, <2>3, <2>5, <2>6, <2>8 DEF OneReader
<1>3. CASE UNCHANGED jobs /\ \A t \in Thread : at'[t] = "run" => at[t] = "run" /\ job'[t] = job[t]
  BY <1>1, <1>3, ReaderStays
<1>4. CASE Sleep(th)
  <2>1. UNCHANGED jobs /\ \A t \in Thread : at'[t] = "run" => at[t] = "run" /\ job'[t] = job[t]
    BY <1>1, <1>4 DEF Sleep, PoolType
  <2> QED BY <1>3, <2>1
<1>5. CASE Test(th) /\ UNCHANGED <<jobs, job>>
  <2>1. \A t \in Thread : at'[t] = "run" => at[t] = "run"
    BY <1>1, <1>5 DEF Test, PoolType
  <2> QED BY <1>3, <1>5, <2>1
<1> QED BY <1>2, <1>4, <1>5 DEF PoolStep, Test

\* The file that is opened has no reader yet.
LEMMA OpenFileReader == ASSUME PipeInv, NEW th \in Thread, OpenFile(th) PROVE OneReader'
<1> DEFINE R == Job("reader", task, file + 1)
<1>1. /\ jobs' = Append(jobs, R) /\ job' = job /\ \A t \in Thread : at'[t] = "run" <=> at[t] = "run"
      /\ UNCHANGED <<task, buffers>> /\ file' = file + 1 /\ written' = 0
      /\ jobs \in Seq(JobType) /\ file \in Nat /\ file + 1 \in Files /\ step # "idle"
  BY DEF OpenFile, PushJob, Notified, source, PipeInv, PipeType, PoolType, Files
<1>2. Reader(file)' = R
  BY <1>1 DEF Reader
<1>3. R \notin Pending
  <2>1. R.task = task /\ R.kind = "reader" /\ R.file \notin 1..file
    BY <1>1 DEF Job
  <2> QED BY <2>1 DEF PipeInv, JobsInv
<1>4. /\ \A i \in DOMAIN jobs : jobs[i] # R
      /\ \A t \in Thread : at'[t] = "run" => job'[t] # R
  BY <1>1, <1>3 DEF Pending
<1>5. DOMAIN jobs' = 1..Len(jobs) + 1 /\ \A i \in DOMAIN jobs' : i # Len(jobs) + 1 => jobs'[i] # R
  <2> HIDE DEF R
  <2>1. Len(jobs) \in Nat /\ DOMAIN jobs = 1..Len(jobs)
    BY <1>1
  <2>2. R \in JobType
    BY <1>1 DEF R, Job, JobType, PipeInv, PipeType
  <2>3. DOMAIN jobs' = 1..Len(jobs) + 1 /\ \A i \in 1..Len(jobs) : jobs'[i] = jobs[i]
    BY <1>1, <2>2
  <2> QED BY <1>4, <2>1, <2>3
<1>6. buffers'[file'] = <<>>
  BY <1>1 DEF PipeInv, FilesInv
<1> HIDE DEF R
<1> QED BY <1>1, <1>2, <1>4, <1>5, <1>6 DEF OneReader

\* The reader that pushes to the queue of the file in hand is the file's.
LEMMA ReadChunkReader == ASSUME PipeInv, ReaderInv, NEW th \in Thread, ReadChunk(th) PROVE OneReader'
<1> SUFFICES ASSUME step = "write" PROVE OneReader'
  BY DEF OneReader, ReadChunk, loops
<1>1. /\ UNCHANGED <<jobs, at, job, task, step, file, written, size>>
      /\ at[th] = "run" /\ job[th].kind = "reader" /\ job[th].task = task /\ size[th] # 0
  BY DEF ReadChunk, Running, Current, pool, source, loops, ReaderInv
<1>2. CASE job[th].file # file
  <2>1. buffers'[file] = buffers[file]
    <3>1. DOMAIN buffers = Files /\ file \in Files
      BY DEF PipeInv, PipeType, Files
    <3> QED BY <1>2, <3>1 DEF ReadChunk
  <2> QED BY <1>1, <2>1, ReaderStays DEF ReaderInv
<1>3. CASE job[th].file = file
  <2>1. job[th] \in JobType
    BY <1>1 DEF PipeInv, PipeType, PoolType
  <2>2. job[th] = Reader(file)
    BY <1>1, <1>3, <2>1 DEF Reader, Job, JobType
  <2>3. ~Unstarted
    BY <1>1, <2>2 DEF ReaderInv, OneReader, Unstarted, Reader
  <2>4. ~Unstarted'
    BY <1>1, <2>3 DEF Unstarted
  <2>5. Reader(file)' = Reader(file)
    BY <1>1 DEF Reader
  <2> QED BY <1>1, <2>4, <2>5 DEF ReaderInv, OneReader
<1> QED BY <1>2, <1>3

LEMMA NextReader == ASSUME PipeInv, ReaderInv, [Next]_vars PROVE OneReader'
<1>1. PoolType /\ OneReader
  BY DEF PipeInv, PipeType, ReaderInv
<1>2. CASE StartTask
  BY <1>2 DEF StartTask, OneReader
<1>3. CASE StartShort
  <2>1. step' # "write"
    BY <1>3 DEF StartShort, loops
  <2> QED BY <2>1 DEF OneReader
<1>4. CASE Quit
  <2>1. /\ UNCHANGED <<task, step, file, jobs, job, size, written, buffers>>
        /\ \A th \in Thread : at'[th] = "run" => at[th] = "run"
    BY <1>4 DEF Quit, Exit, Notified, source, loops, shared
  <2> QED BY <1>1, <2>1, ReaderStays
<1>5. ASSUME NEW th \in Thread, Step(th) PROVE OneReader'
  <2>1. CASE PoolStep(th)
    BY <1>1, <2>1, TestReader
  <2>2. CASE EndShort(th) \/ StartReader(th) \/ ReadDangling(th) \/ EndReader(th)
    <3>1. UNCHANGED <<task, step, file, jobs, written, buffers>>
      BY <2>2 DEF EndShort, StartReader, ReadDangling, EndReader, Return, source, loops,
         shared, pool
    <3>2. \A t \in Thread : at'[t] = "run" => at[t] = "run" /\ job'[t] = job[t]
      BY <1>1, <2>2 DEF EndShort, StartReader, ReadDangling, EndReader, Return, PoolType, pool
    <3>3. \A t \in Thread : at'[t] = "run" => (size'[t] = 0 => size[t] = 0)
      <4>1. CASE EndShort(th) \/ StartReader(th)
        BY <4>1 DEF EndShort, StartReader, shared, ReaderInv
      <4>2. CASE ReadDangling(th) \/ EndReader(th)
        <5>1. at'[th] # "run" /\ \A t \in Thread : t # th => size'[t] = size[t]
          BY <1>1, <4>2 DEF ReadDangling, EndReader, Return, PoolType, ReaderInv
        <5> QED BY <5>1
      <4> QED BY <2>2, <4>1, <4>2
    <3> QED BY <1>1, <3>1, <3>2, <3>3, ReaderStays
  <2>3. CASE OpenFile(th)
    BY <2>3, OpenFileReader
  <2>4. CASE WriteChunk(th)
    <3>1. /\ UNCHANGED <<jobs, at, job, task, step, file, size>> /\ buffers[file] # <<>>
      BY <2>4 DEF WriteChunk, pool, source
    <3> QED BY <1>1, <3>1, ReaderStays
  <2>5. CASE ReadChunk(th)
    BY <2>5, ReadChunkReader
  <2>6. CASE WriteDownload(th)
    <3>1. step # "write" \/ (UNCHANGED <<task, step, file, jobs, size, written, buffers>>
             /\ \A t \in Thread : at'[t] = "run" => at[t] = "run" /\ job'[t] = job[t])
      <4>1. CASE Current(th)
        <5>1. job[th] \in Pending /\ job[th].kind = "writer" /\ job[th].task = task
          BY <2>6, <4>1 DEF WriteDownload, Running, Pending, Current
        <5> QED BY <5>1 DEF PipeInv, PipeType, JobsInv
      <4>2. CASE ~Current(th)
        BY <1>1, <2>6, <4>2 DEF WriteDownload, source, loops, PoolType
      <4> QED BY <4>1, <4>2
    <3>2. step' = step
      BY <2>6 DEF WriteDownload, loops
    <3> QED BY <1>1, <3>1, <3>2, ReaderStays DEF OneReader
  <2>7. CASE step' # "write"
    BY <2>7 DEF OneReader
  <2>8. CASE CloseFile(th) \/ Finish(th) \/ OpenDownload(th) \/ Receive(th) \/ Received(th) \/ Acquire(th)
    <3>1. step' # "write"
      BY <2>8 DEF CloseFile, Finish, OpenDownload, Receive, Received, Acquire, loops
    <3> QED BY <2>7, <3>1
  <2> QED BY <1>5, <2>1, <2>2, <2>3, <2>4, <2>5, <2>6, <2>8 DEF Step
<1>6. CASE \E th \in Thread : SkipFile(th)
  <2>1. step' # "write"
    BY <1>6 DEF SkipFile
  <2> QED BY <2>1 DEF OneReader
<1>7. CASE UNCHANGED vars
  BY <1>1, <1>7, ReaderStays DEF vars, pool, source, loops, shared
<1> QED BY <1>2, <1>3, <1>4, <1>5, <1>6, <1>7 DEF Next

\* A function that waits for its reader leaves it behind only for an empty
\* file (or a failed download, or when JKSV exits): of any other file the
\* reader has started before the last chunk can be written.
THEOREM ReadersEnd == Spec => OnlyEmptyFilesStray
<1>1. PipeInv /\ ReaderInv /\ [Next]_vars => ReaderInv'
  BY LoopCounts, NextReader DEF ReaderInv
<1>2. ASSUME PipeInv, ReaderInv, [Next]_vars, stray', ~stray
      PROVE  mode = "download" \/ exitFlag' # exitFlag \/ Size(file) = 0
  <2>1. CASE Quit
    BY <2>1 DEF Quit, Exit
  <2>2. CASE \E th \in Thread : CloseFile(th)
    <3>1. step = "write" /\ written = Size(file) /\ Unstarted
      BY <1>2, <2>2 DEF CloseFile
    <3>2. written \in Nat /\ ~(written > 0)
      <4>1. written > 0 => ~Unstarted
        BY <1>2, <3>1 DEF ReaderInv, OneReader
      <4> QED BY <1>2, <3>1, <4>1 DEF PipeInv, PipeType
    <3>3. Size(file) = 0
      BY <3>1, <3>2
    <3> QED BY <3>3
  <2>3. CASE \E th \in Thread : Received(th)
    BY <2>3 DEF Received, Downloading
  <2>4. CASE UNCHANGED stray
    BY <1>2, <2>4
  <2> QED
    BY <1>2, <2>1, <2>2, <2>3, <2>4
    DEF Next, Step, StartTask, StartShort, SkipFile, PoolStep, EndShort, OpenFile, WriteChunk, Finish,
        StartReader, ReadDangling, ReadChunk, EndReader, OpenDownload, Receive, WriteDownload, Acquire,
        output, vars
<1>3. PipeInv /\ ReaderInv /\ [Next]_vars
      => [stray' /\ ~stray => mode = "download" \/ exitFlag' # exitFlag \/ Size(file) = 0]_vars
  BY <1>2
<1> QED BY Pipeline, InitReader, <1>1, <1>3, PTL DEF Spec, OnlyEmptyFilesStray
=============================================================================
