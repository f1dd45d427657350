-------------------------- MODULE BackupQueueProofs --------------------------
(***************************************************************************)
(* The safety properties of BackupQueue, proved for every set of saves,    *)
(* every bound and every Digest, along the inductive invariant IInv.       *)
(***************************************************************************)
EXTENDS BackupQueue, TLAPS

\* The three kinds of file are told apart.
LEMMA FileKinds ==
    /\ \A k \in Key : Zip(k) \in File /\ Meta(k) \in File /\ Sig(k) \in File
    /\ \A f \in File : f[2] \in Key /\ (f = Zip(f[2]) \/ f = Meta(f[2]) \/ f = Sig(f[2]))
    /\ \A j, k : Zip(j) # Meta(k) /\ Zip(j) # Sig(k) /\ Meta(j) # Sig(k)
    /\ \A j, k : j # k => Zip(j) # Zip(k) /\ Meta(j) # Meta(k) /\ Sig(j) # Sig(k)
    /\ \A k : Zip(k)[1] = "zip" /\ Meta(k)[1] = "meta" /\ Sig(k)[1] = "sig"
    /\ \A k : Zip(k)[2] = k /\ Meta(k)[2] = k /\ Sig(k)[2] = k
  BY DEF Zip, Meta, Sig, File, Kind

\* What the locals are when no operation is under way.
LEMMA NothingLeft ==
    /\ AnyKey \in Key
    /\ NoSignature \in Signature
    /\ NoJob.file = Zip(AnyKey) /\ NoJob.data = 0 /\ NoJob.then = "idle" /\ NoJob.else = "idle"
    /\ 0 \in Version
  BY KeyAssumption, BoundsAssumption DEF AnyKey, NoSignature, NoJob, Signature, Version

\* A fresh card, or one with entries of an earlier release, fits.
LEMMA InitIInv == Init => IInv
  <1>0. SUFFICES ASSUME NEW legacy \in SUBSET Legacy,
          save = [k \in Key |-> IF k \in legacy THEN 1 ELSE 0],
          cloud = [k \in Key |-> {}],
          target = [f \in File |->
           IF f[2] \notin legacy \/ f[1] = "sig" THEN NoFile
           ELSE IF f[1] = "zip" THEN 1 ELSE LegacyEntry],
          tmp = [f \in File |-> NoFile],
          bak = [f \in File |-> NoFile],
          pc = "idle",
          todo = {}, ok = TRUE, cur = AnyKey, now = NoSignature,
          job = NoJob, had = FALSE, toRead = {}, batch = {},
          promised = [k \in Key |-> IF k \in legacy THEN 1 ELSE 0],
          crashes = 0, faults = 0
        PROVE IInv
    BY DEF Init

  <1>1. AnyKey \in Key
    BY KeyAssumption DEF AnyKey
  <1>2. ASSUME NEW k \in Key
        PROVE /\ target[Zip(k)] = IF k \in legacy THEN 1 ELSE NoFile
              /\ target[Meta(k)] = IF k \in legacy THEN LegacyEntry ELSE NoFile
              /\ target[Sig(k)] = NoFile
              /\ tmp[Zip(k)] = NoFile /\ tmp[Meta(k)] = NoFile /\ tmp[Sig(k)] = NoFile
              /\ bak[Zip(k)] = NoFile /\ bak[Meta(k)] = NoFile /\ bak[Sig(k)] = NoFile
    BY <1>0, FileKinds, KeyAssumption
  <1>3. 1 \in Version /\ 0 \in Version /\ LegacyEntry \in Entry /\ NoSignature \in Signature
    BY BoundsAssumption DEF Version, Entry, Signature, LegacyEntry, NoSignature
  <1>4. TypeOK
    <2>1. \A k \in Key : Holds(Zip(k), Version) /\ Holds(Meta(k), Entry) /\ Holds(Sig(k), Signature)
      BY <1>2, <1>3 DEF Holds
    <2>2. NoJob.file = Zip(AnyKey) /\ NoJob.data = 0 /\ NoJob.then = "idle" /\ NoJob.else = "idle"
      BY DEF NoJob
    <2> QED
      BY <1>0, <1>1, <1>3, <2>1, <2>2, FileKinds, BoundsAssumption DEF TypeOK, PreparePC
  <1>5. FilesInv
    <2>1. ASSUME NEW k \in Key
          PROVE save[k] = (IF k \in legacy THEN 1 ELSE 0) /\ cloud[k] = {}
      BY <1>0
    <2>2. LegacyEntry # NoFile /\ 1 # NoFile
      BY <1>3, FilesAssumption
    <2>3. LegacyEntry.sig.commit = 1 /\ LegacyEntry.sig.files = 1
      BY DEF LegacyEntry
    <2>4. ASSUME NEW k \in Key
          PROVE /\ NoNewerThan(k, save[k])
                /\ Exists(Meta(k)) => Describes(target[Meta(k)].sig, k)
                /\ ~Exists(Sig(k))
      <3>1. CASE k \in legacy
        BY <1>2, <2>1, <2>2, <2>3, <3>1 DEF NoNewerThan, Describes, Ordered, Exists
      <3>2. CASE k \notin legacy
        BY <1>2, <2>1, <3>2 DEF NoNewerThan, Exists
      <3> QED BY <3>1, <3>2
    <2> QED
      BY <2>4 DEF FilesInv
  <1>6. JobInv /\ PrepareInv /\ BatchInv
    BY <1>0 DEF JobInv, PrepareInv, BatchInv, At, ReplacePC
  <1> QED BY <1>4, <1>5, <1>6 DEF IInv

\* Nothing but the three file states is said by FilesInv.
LEMMA FilesUntouched == ASSUME FilesInv, UNCHANGED <<save, cloud, target>> PROVE FilesInv'
  BY DEF FilesInv, NoNewerThan, Describes, Received, Exists

\* Migrating an entry changes its legacy mark alone.
LEMMA MigratedEntry ==
  ASSUME NEW k \in Key, NEW e \in Entry, NEW then, NEW else
  PROVE  LET new == Replace(Meta(k), [e EXCEPT !.legacy = FALSE], then, else) IN
         /\ new.file = Meta(k) /\ new.then = then /\ new.else = else
         /\ new.data \in Entry /\ new.data.sig = e.sig
  BY DEF Replace, Entry

-----------------------------------------------------------------------------
(***************************************************************************)
(* Every action keeps every conjunct of the invariant.                     *)
(***************************************************************************)

\* A commit only moves a save away from what is known of it.
LEMMA GameCommitsKeeps == ASSUME NEW k \in Key, IInv, GameCommits(k) PROVE IInv'
  <1>0. ASSUME NEW j \in Key
        PROVE /\ save[j] \in Nat /\ save'[j] \in Nat /\ save[j] <= save'[j]
              /\ j # k => save'[j] = save[j]
              /\ cloud[j] \subseteq Nat
              /\ Exists(Zip(j)) => target[Zip(j)] \in Nat
    BY BoundsAssumption DEF GameCommits, IInv, TypeOK, Holds, Exists, Version
  <1>1. TypeOK'
    BY BoundsAssumption DEF GameCommits, IInv, disk, locals, bounds, TypeOK, Holds, Version
  <1>2. FilesInv'
    <2>1. UNCHANGED <<cloud, target>>
      BY DEF GameCommits, disk
    <2>2. ASSUME NEW j \in Key PROVE NoNewerThan(j, save[j])'
      <3>1. \A u \in cloud[j] : u <= save[j]
        BY DEF IInv, FilesInv, NoNewerThan
      <3>2. Exists(Zip(j)) => target[Zip(j)] <= save[j]
        BY DEF IInv, FilesInv, NoNewerThan
      <3>3. \A u \in cloud[j] : u <= save'[j]
        BY <1>0, <3>1
      <3>4. Exists(Zip(j)) => target[Zip(j)] <= save'[j]
        BY <1>0, <3>2
      <3> QED
        BY <2>1, <3>3, <3>4 DEF NoNewerThan, Exists
    <2> QED
      BY <2>1, <2>2 DEF IInv, FilesInv, Describes, Received, Exists
  <1>3. JobInv'
    BY DEF GameCommits, Mounted, MountedPCs, IInv, disk, locals, bounds, TypeOK, Holds,
       JobInv, Describes, Received, Exists, ReplacePC
  <1>4. PrepareInv'
    <2>1. UNCHANGED <<cloud, target, tmp, pc, now, cur, job>>
      BY DEF GameCommits, disk, locals
    <2>2. cur \in Key /\ now.commit \in Nat
      BY DEF IInv, TypeOK, Signature, Version
    <2>3. pc = "mount" => now.commit <= save'[cur]
      BY <1>0, <2>2 DEF IInv, PrepareInv
    <2>4. pc = "compare" \/ At({"zip", "dropMeta", "saveMeta", "queued"}) => save'[cur] = save[cur]
      <3>1. ASSUME pc = "compare" \/ At({"zip", "dropMeta", "saveMeta", "queued"}) PROVE cur # k
        <4>1. ~Mounted(k)
          BY DEF GameCommits
        <4>2. pc \in MountedPCs \/ (pc \in ReplacePC /\ job.then \in MountedPCs)
          BY <3>1 DEF At, MountedPCs
        <4> QED
          BY <4>1, <4>2 DEF Mounted
      <3> QED
        BY <1>0, <2>2, <3>1
    <2> QED
      BY <2>1, <2>3, <2>4 DEF IInv, PrepareInv, At, NoNewerThan, Exists
  <1>5. BatchInv'
    BY DEF GameCommits, IInv, disk, locals, bounds, BatchInv, At, Describes, Exists
  <1> QED BY <1>1, <1>2, <1>3, <1>4, <1>5 DEF IInv

LEMMA CrashTypes == ASSUME IInv, Crash PROVE TypeOK'
  <1>1. \A f \in File : tmp'[f] \in {tmp[f], Torn}
    BY FileKinds DEF Crash, IInv, TypeOK
  <1>2. \A k \in Key : Holds(Zip(k), Version)' /\ Holds(Meta(k), Entry)' /\ Holds(Sig(k), Signature)'
    BY <1>1, FileKinds DEF Crash, IInv, TypeOK, Holds
  <1>3. DOMAIN tmp' = File
    BY DEF Crash, IInv, TypeOK
  <1>4. job' = NoJob /\ todo' = {} /\ toRead' = {} /\ ok' = TRUE /\ cur' = AnyKey
        /\ now' = NoSignature /\ had' = FALSE /\ batch' = {} /\ pc' = "off"
    BY DEF Crash, Unwound
  <1>5. save' = save /\ cloud' = cloud /\ target' = target /\ bak' = bak /\ promised' = promised
        /\ faults' = faults /\ crashes' \in Nat
    BY DEF Crash, IInv, TypeOK
  <1>6. pc' \in PreparePC /\ "idle" \in PreparePC
    BY <1>4 DEF PreparePC
  <1> QED
    BY <1>2, <1>3, <1>4, <1>5, <1>6, FileKinds, NothingLeft, ZenonT(60) DEF IInv, TypeOK

\* A crash tears at most one .tmp file and forgets everything else.
LEMMA CrashKeeps == ASSUME IInv, Crash PROVE IInv'
  <1>1. TypeOK'
    BY CrashTypes
  <1>2. FilesInv'
    BY FilesUntouched DEF Crash, IInv, disk
  <1>3. JobInv'
    BY DEF Crash, IInv, JobInv, ReplacePC
  <1>4. PrepareInv'
    BY DEF Crash, IInv, PrepareInv, At, ReplacePC
  <1>5. BatchInv'
    BY DEF Crash, Unwound, IInv, BatchInv
  <1> QED
    BY <1>1, <1>2, <1>3, <1>4, <1>5 DEF IInv

\* Booting touches no file.
LEMMA BootKeeps == ASSUME IInv, Boot PROVE IInv'
  <1>1. TypeOK'
    BY DEF Boot, IInv, disk, locals, bounds, TypeOK, Holds, PreparePC
  <1>2. FilesInv'
    BY FilesUntouched DEF Boot, IInv, disk
  <1>3. JobInv'
    BY DEF Boot, IInv, JobInv, ReplacePC
  <1>4. PrepareInv'
    BY DEF Boot, IInv, PrepareInv, At, ReplacePC
  <1>5. BatchInv'
    BY DEF Boot, IInv, locals, BatchInv, At, QueuePC, ReplacePC
  <1> QED
    BY <1>1, <1>2, <1>3, <1>4, <1>5 DEF IInv

LEMMA StartTitleKeeps == ASSUME NEW ks \in SUBSET Key, IInv, StartTitle(ks) PROVE IInv'
  <1>1. TypeOK'
    BY DEF StartTitle, IInv, disk, locals, bounds, TypeOK, Holds, PreparePC
  <1>2. FilesInv'
    BY FilesUntouched DEF StartTitle, IInv, disk
  <1>3. JobInv'
    BY DEF StartTitle, IInv, JobInv, ReplacePC
  <1>4. PrepareInv'
    BY DEF StartTitle, IInv, PrepareInv, At, ReplacePC
  <1>5. BatchInv'
    BY DEF StartTitle, IInv, BatchInv, At, QueuePC, ReplacePC
  <1> QED
    BY <1>1, <1>2, <1>3, <1>4, <1>5 DEF IInv

LEMMA StartRetryKeeps == ASSUME IInv, StartRetry PROVE IInv'
  <1>1. TypeOK'
    BY DEF StartRetry, OpenQueue, IInv, disk, locals, bounds, TypeOK, Holds, QueuePC
  <1>2. FilesInv'
    BY FilesUntouched DEF StartRetry, IInv, disk
  <1>3. JobInv'
    BY DEF StartRetry, OpenQueue, IInv, JobInv, ReplacePC
  <1>4. PrepareInv'
    BY DEF StartRetry, OpenQueue, IInv, PrepareInv, At, ReplacePC
  <1>5. BatchInv'
    BY DEF StartRetry, OpenQueue, IInv, disk, BatchInv, At, Exists, ReplacePC
  <1> QED
    BY <1>1, <1>2, <1>3, <1>4, <1>5 DEF IInv

\* Once written, the .tmp file holds what the job carries.
LEMMA WriteTempKeeps == ASSUME IInv, WriteTemp PROVE IInv'
  <1>1. TypeOK'
    BY FileKinds, NothingLeft DEF WriteTemp, Fault, IInv, locals, TypeOK, Holds, QueuePC,
       ReplacePC, Entry, Exists
  <1>2. FilesInv'
    BY FilesUntouched DEF WriteTemp, IInv, disk
  <1>3. JobInv'
    BY FileKinds, FilesAssumption DEF WriteTemp, IInv, locals, TypeOK, JobInv, Describes,
       Received, ReplacePC
  <1>4. PrepareInv'
    BY FileKinds DEF WriteTemp, IInv, locals, TypeOK, JobInv, PrepareInv, At, Received,
       PreparePC, QueuePC
  <1>5. BatchInv'
    BY FileKinds, FilesAssumption DEF WriteTemp, IInv, disk, locals, bounds, TypeOK, Holds,
       FilesInv, JobInv, BatchInv, At, Describes, Exists, QueuePC, ReplacePC
  <1> QED
    BY <1>1, <1>2, <1>3, <1>4, <1>5 DEF IInv

LEMMA PutAsideTypes == ASSUME IInv, PutAside PROVE TypeOK'
  <1>1. \A f \in File : target'[f] \in {target[f], NoFile} /\ bak'[f] \in {target[f], bak[f], NoFile}
    BY FileKinds DEF PutAside, IInv, TypeOK
  <1>2. \A k \in Key : Holds(Zip(k), Version)' /\ Holds(Meta(k), Entry)' /\ Holds(Sig(k), Signature)'
    BY <1>1, FileKinds DEF PutAside, IInv, TypeOK, Holds
  <1>3. DOMAIN target' = File /\ DOMAIN bak' = File
    BY DEF PutAside, IInv, TypeOK
  <1>4. faults' \in Nat /\ pc' \in PreparePC \cup QueuePC \cup ReplacePC
    BY DEF PutAside, Fault, IInv, TypeOK, ReplacePC
  <1>5. had' \in BOOLEAN
    BY DEF PutAside, Exists, IInv, TypeOK
  <1> QED
    BY <1>2, <1>3, <1>4, <1>5 DEF PutAside, IInv, TypeOK

LEMMA PutAsideJob == ASSUME IInv, PutAside PROVE JobInv'
  <1>1. job' = job /\ tmp' = tmp /\ cur' = cur /\ save' = save /\ cloud' = cloud
    BY DEF PutAside
  <1>2. CASE pc' = "publish" /\ had' = Exists(job.file) /\ bak' = [bak EXCEPT ![job.file] = target[job.file]]
             /\ target' = [target EXCEPT ![job.file] = NoFile]
    <2> DEFINE k == job.file[2]
    <2>0. k \in Key /\ tmp[job.file] = job.data /\ pc' # "write" /\ job.file \in File
          /\ pc = "aside" /\ pc \in ReplacePC
      BY <1>2, FileKinds DEF PutAside, IInv, TypeOK, JobInv, ReplacePC
    <2>1. bak'[job.file] = target[job.file] /\ \A f \in File : f # job.file => target'[f] = target[f]
      BY <1>2, <2>0 DEF IInv, TypeOK
    <2>2. CASE job.file = Zip(k)
      <3>1. had' => bak'[job.file] \in {v \in Version : v <= save[k]}
        BY <1>2, <2>0, <2>1, <2>2 DEF Exists, IInv, TypeOK, Holds, FilesInv, NoNewerThan
      <3>2. ~Exists(Meta(k))'
        <4>1. k = cur /\ target[Meta(cur)] = NoFile
          BY <2>0, <2>2, FileKinds DEF Exists, IInv, JobInv
        <4>2. target'[Meta(k)] = target[Meta(k)]
          BY <2>0, <2>1, <2>2, FileKinds
        <4> QED
          BY <1>1, <4>1, <4>2 DEF Exists
      <3> QED
        BY <1>1, <1>2, <2>0, <2>2, <3>1, <3>2, FileKinds DEF IInv, JobInv
    <2>3. CASE job.file = Meta(k)
      <3>1. had' => bak'[job.file] \in Entry /\ Describes(target[Meta(k)].sig, k)
        BY <1>2, <2>0, <2>1, <2>3, ZenonT(60) DEF Exists, IInv, TypeOK, Holds, FilesInv
      <3>2. target'[Zip(k)] = target[Zip(k)]
        BY <2>0, <2>1, <2>3, FileKinds
      <3> QED
        BY <1>1, <1>2, <2>0, <2>1, <2>3, <3>1, <3>2, FileKinds DEF IInv, JobInv, Describes
    <2>4. CASE job.file = Sig(k)
      <3>0. Exists(Sig(k)) => target[Sig(k)] \in Signature /\ Received(target[Sig(k)], k)
        BY <2>0 DEF Exists, IInv, TypeOK, Holds, FilesInv
      <3>1. had' => bak'[job.file] \in Signature /\ Received(bak'[job.file], k)
        BY <1>2, <2>1, <2>4, <3>0
      <3>2. Received(job.data, k) /\ job.then = "dropZip" /\ job.else = "dropZip"
        BY <2>0, <2>4, FileKinds DEF IInv, JobInv
      <3>3. job.file[1] = "sig"
        BY <2>4, FileKinds
      <3> QED
        BY <1>1, <1>2, <2>0, <3>1, <3>2, <3>3 DEF JobInv, Received
    <2> QED
      BY <2>0, <2>2, <2>3, <2>4, FileKinds
  <1>3. CASE pc' = job.else
    <2>1. pc' \notin ReplacePC
      BY <1>3 DEF IInv, TypeOK, PreparePC, QueuePC, ReplacePC
    <2> QED
      BY <2>1 DEF JobInv
  <1> QED
    BY <1>2, <1>3 DEF PutAside

\* What is put aside fits as well as it did in place.
LEMMA PutAsideKeeps == ASSUME IInv, PutAside PROVE IInv'
  <1>1. TypeOK'
    BY PutAsideTypes
  <1>2. FilesInv'
    BY FileKinds DEF PutAside, IInv, disk, locals, TypeOK, FilesInv, NoNewerThan, Describes,
       Received, Exists
  <1>3. JobInv'
    BY PutAsideJob
  <1>4. PrepareInv'
    BY FileKinds DEF PutAside, IInv, TypeOK, JobInv, PrepareInv, At, PreparePC, QueuePC
  <1>5. BatchInv'
    BY FileKinds, FilesAssumption DEF PutAside, Fault, IInv, TypeOK, FilesInv, JobInv,
       BatchInv, At, Describes, Exists, QueuePC, ReplacePC
  <1> QED
    BY <1>1, <1>2, <1>3, <1>4, <1>5 DEF IInv

LEMMA PublishTypes == ASSUME IInv, Publish PROVE TypeOK'
  <1>0. ASSUME NEW k \in Key
        PROVE /\ job.file = Zip(k) => tmp[Zip(k)] \in Version
              /\ job.file = Meta(k) => tmp[Meta(k)] \in Entry
              /\ job.file = Sig(k) => tmp[Sig(k)] \in Signature
    BY FileKinds DEF Publish, IInv, TypeOK, JobInv, ReplacePC
  <1>1. ASSUME NEW f \in File
        PROVE /\ target'[f] \in {target[f], bak[f]} \/ (f = job.file /\ target'[f] = tmp[f])
              /\ bak'[f] \in {bak[f], NoFile} /\ tmp'[f] \in {tmp[f], NoFile}
    BY FileKinds DEF Publish, IInv, TypeOK
  <1>2. \A k \in Key : Holds(Zip(k), Version)' /\ Holds(Meta(k), Entry)' /\ Holds(Sig(k), Signature)'
    BY <1>0, <1>1, FileKinds DEF IInv, TypeOK, Holds
  <1>3. DOMAIN target' = File /\ DOMAIN bak' = File /\ DOMAIN tmp' = File
    BY DEF Publish, IInv, TypeOK
  <1>4. faults' \in Nat /\ pc' \in PreparePC \cup QueuePC \cup ReplacePC
    BY DEF Publish, Fault, IInv, TypeOK
  <1> QED
    BY <1>2, <1>3, <1>4 DEF Publish, locals, IInv, TypeOK

LEMMA PublishFiles == ASSUME IInv, Publish PROVE FilesInv'
  <1>0. /\ save' = save /\ cloud' = cloud /\ job.file \in File /\ job.file[2] \in Key
        /\ \A f \in File \ {job.file} : target'[f] = target[f]
        /\ tmp[job.file] = job.data
        /\ target'[job.file] \in {job.data, target[job.file]} \/ (had /\ target'[job.file] = bak[job.file])
    BY FileKinds DEF Publish, IInv, TypeOK, JobInv, ReplacePC
  <1> SUFFICES ASSUME NEW k \in Key
               PROVE /\ NoNewerThan(k, save[k])'
                     /\ Exists(Meta(k))' => Describes(target[Meta(k)].sig, k)'
                     /\ Exists(Sig(k))' => Received(target[Sig(k)], k)'
    BY DEF FilesInv
  <1>1. /\ NoNewerThan(k, save[k])
        /\ Exists(Meta(k)) => Describes(target[Meta(k)].sig, k)
        /\ Exists(Sig(k)) => Received(target[Sig(k)], k)
    BY DEF IInv, FilesInv
  <1>2. CASE job.file = Zip(k)
    <2>1. k = cur /\ ~Exists(Meta(k)) /\ job.data = save[k]
          /\ (had => bak[Zip(k)] \in {v \in Version : v <= save[k]})
      BY <1>2, FileKinds DEF Publish, IInv, JobInv, ReplacePC
    <2>2. target'[Meta(k)] = target[Meta(k)] /\ target'[Sig(k)] = target[Sig(k)]
      BY <1>0, <1>2, FileKinds
    <2>3. save[k] \in Nat
      BY BoundsAssumption DEF IInv, TypeOK, Version
    <2>4. Exists(Zip(k))' => target'[Zip(k)] <= save[k]
      BY <1>0, <1>1, <1>2, <2>1, <2>3 DEF NoNewerThan, Exists
    <2> QED
      BY <1>0, <1>1, <2>1, <2>2, <2>4 DEF NoNewerThan, Received, Exists
  <1>3. CASE job.file = Meta(k)
    <2>1. Describes(job.data.sig, k) /\ (had => Describes(bak[Meta(k)].sig, k))
      BY <1>3, FileKinds DEF Publish, IInv, JobInv, ReplacePC
    <2>2. target'[Zip(k)] = target[Zip(k)] /\ target'[Sig(k)] = target[Sig(k)]
      BY <1>0, <1>3, FileKinds
    <2>3. Exists(Meta(k))' => Describes(target'[Meta(k)].sig, k)
      BY <1>0, <1>1, <1>3, <2>1 DEF Exists
    <2> QED
      BY <1>0, <1>1, <2>2, <2>3 DEF NoNewerThan, Received, Describes, Exists
  <1>4. CASE job.file = Sig(k)
    <2>1. Received(job.data, k) /\ (had => Received(bak[Sig(k)], k))
      BY <1>4, FileKinds DEF Publish, IInv, JobInv, ReplacePC
    <2>2. target'[Zip(k)] = target[Zip(k)] /\ target'[Meta(k)] = target[Meta(k)]
      BY <1>0, <1>4, FileKinds
    <2>3. Exists(Sig(k))' => Received(target'[Sig(k)], k)
      BY <1>0, <1>1, <1>4, <2>1 DEF Exists
    <2> QED
      BY <1>0, <1>1, <2>2, <2>3 DEF NoNewerThan, Received, Describes, Exists
  <1>5. CASE job.file \notin {Zip(k), Meta(k), Sig(k)}
    BY <1>0, <1>1, <1>5, FileKinds DEF NoNewerThan, Received, Describes, Exists
  <1> QED
    BY <1>2, <1>3, <1>4, <1>5

\* What gets into place is the job's content or what was there.
LEMMA PublishKeeps == ASSUME IInv, Publish PROVE IInv'
  <1>1. TypeOK'
    BY PublishTypes
  <1>2. FilesInv'
    BY PublishFiles
  <1>3. JobInv'
    BY FileKinds DEF Publish, IInv, TypeOK, JobInv, PrepareInv, ReplacePC
  <1>4. PrepareInv'
    BY FileKinds DEF Publish, Fault, IInv, locals, TypeOK, JobInv, PrepareInv, At, Exists,
       PreparePC, QueuePC
  <1>5. BatchInv'
    BY FileKinds, FilesAssumption DEF Publish, IInv, disk, locals, bounds, TypeOK, Holds,
       FilesInv, JobInv, BatchInv, At, NoNewerThan, Describes, Received, Exists, PreparePC,
       QueuePC
  <1> QED
    BY <1>1, <1>2, <1>3, <1>4, <1>5 DEF IInv

LEMMA FillMetaPrepare == ASSUME NEW k \in Key, IInv, FillMeta(k) PROVE PrepareInv'
  <1>1. CASE pc' = "mount" /\ now' = [commit |-> save[k], files |-> 0]
    <2>1. now'.commit = save[k] /\ cur' = k /\ UNCHANGED <<save, cloud, target>> /\ save[k] \in Nat
      BY <1>1, BoundsAssumption DEF FillMeta, disk, IInv, TypeOK, Version
    <2>2. NoNewerThan(k, save[k])
      BY DEF IInv, FilesInv
    <2> QED
      BY <1>1, <2>1, <2>2 DEF PrepareInv, At, NoNewerThan, Exists, ReplacePC
  <1>2. CASE pc' = "failed"
    BY <1>2 DEF PrepareInv, At, ReplacePC
  <1> QED
    BY <1>1, <1>2 DEF FillMeta

\* Nothing is newer than the commit just read.
LEMMA FillMetaKeeps == ASSUME NEW k \in Key, IInv, FillMeta(k) PROVE IInv'
  <1>1. TypeOK'
    BY NothingLeft DEF FillMeta, Fault, IInv, disk, locals, bounds, TypeOK, Holds,
       PreparePC, Signature
  <1>2. FilesInv'
    BY FilesUntouched DEF FillMeta, IInv, disk
  <1>3. JobInv'
    BY DEF FillMeta, IInv, JobInv, ReplacePC
  <1>4. PrepareInv'
    BY FillMetaPrepare
  <1>5. BatchInv'
    BY DEF FillMeta, IInv, BatchInv, At, QueuePC, ReplacePC
  <1> QED
    BY <1>1, <1>2, <1>3, <1>4, <1>5 DEF IInv

LEMMA MountSaveKeeps == ASSUME IInv, MountSave PROVE IInv'
  <1>1. TypeOK'
    BY DEF MountSave, IInv, disk, locals, bounds, TypeOK, Holds, PreparePC
  <1>2. FilesInv'
    BY FilesUntouched DEF MountSave, IInv, disk
  <1>3. JobInv'
    BY DEF MountSave, IInv, JobInv, ReplacePC
  <1>4. PrepareInv'
    BY DEF MountSave, IInv, disk, locals, PrepareInv, At, NoNewerThan, Exists, ReplacePC
  <1>5. BatchInv'
    BY DEF MountSave, IInv, locals, BatchInv, At, QueuePC, ReplacePC
  <1> QED
    BY <1>1, <1>2, <1>3, <1>4, <1>5 DEF IInv

LEMMA CompareFacts ==
  ASSUME IInv, Compare
  PROVE  /\ UNCHANGED <<save, cloud, target, tmp, bak, cur>> /\ cur \in Key
         /\ \/ job' = job /\ pc' \in {"empty", "skipped", "zip"}
            \/ /\ pc' = "write" /\ Exists(Meta(cur)) /\ target[Meta(cur)] \in Entry
               /\ \E next \in {"skipped", "zip"} :
                    job' = Replace(Meta(cur), [target[Meta(cur)] EXCEPT !.legacy = FALSE], next, next)
  <1>1. UNCHANGED <<save, cloud, target, tmp, bak, cur>> /\ cur \in Key
    BY DEF Compare, disk, IInv, TypeOK
  <1>2. Exists(Meta(cur)) => target[Meta(cur)] \in Entry
    BY <1>1 DEF IInv, TypeOK, Holds, Exists
  <1> QED
    BY <1>1, <1>2 DEF Compare

LEMMA CompareTypes == ASSUME IInv, Compare PROVE TypeOK'
  <1>1. now' \in Signature
    BY DEF Compare, IInv, TypeOK, Signature
  <1>2. CASE job' = job /\ pc' \in {"empty", "skipped", "zip"}
    BY <1>1, <1>2 DEF Compare, disk, bounds, IInv, TypeOK, Holds, PreparePC
  <1>3. ASSUME pc' = "write", target[Meta(cur)] \in Entry,
               NEW next \in {"skipped", "zip"},
               job' = Replace(Meta(cur), [target[Meta(cur)] EXCEPT !.legacy = FALSE], next, next)
        PROVE TypeOK'
    <2>1. cur \in Key
      BY DEF IInv, TypeOK
    <2>2. job'.file = Meta(cur) /\ job'.then = next /\ job'.else = next /\ job'.data \in Entry
      BY <1>3, <2>1, MigratedEntry
    <2>3. job'.file \in File /\ job'.file[1] = "meta"
      BY <2>1, <2>2, FileKinds
    <2> QED
      BY <1>1, <1>3, <2>2, <2>3 DEF Compare, disk, bounds, IInv, TypeOK, Holds, PreparePC,
         ReplacePC
  <1>4. \/ job' = job /\ pc' \in {"empty", "skipped", "zip"}
        \/ /\ pc' = "write" /\ Exists(Meta(cur)) /\ target[Meta(cur)] \in Entry
           /\ \E next \in {"skipped", "zip"} :
                job' = Replace(Meta(cur), [target[Meta(cur)] EXCEPT !.legacy = FALSE], next, next)
    BY CompareFacts
  <1> QED
    BY <1>2, <1>3, <1>4

LEMMA CompareJob == ASSUME IInv, Compare PROVE JobInv'
  <1>1. /\ UNCHANGED <<target, cur>> /\ cur \in Key
        /\ \/ pc' \in {"empty", "skipped", "zip"}
           \/ /\ pc' = "write" /\ Exists(Meta(cur)) /\ target[Meta(cur)] \in Entry
              /\ \E next \in {"skipped", "zip"} :
                   job' = Replace(Meta(cur), [target[Meta(cur)] EXCEPT !.legacy = FALSE], next, next)
    BY CompareFacts
  <1>2. CASE pc' \in {"empty", "skipped", "zip"}
    BY <1>2 DEF JobInv, ReplacePC
  <1>3. ASSUME pc' = "write", Exists(Meta(cur)), target[Meta(cur)] \in Entry,
               NEW next \in {"skipped", "zip"},
               job' = Replace(Meta(cur), [target[Meta(cur)] EXCEPT !.legacy = FALSE], next, next)
        PROVE JobInv'
    <2>1. /\ job'.file = Meta(cur) /\ job'.then = next /\ job'.else = next
          /\ job'.data.sig = target[Meta(cur)].sig
      BY <1>1, <1>3, MigratedEntry
    <2>2. Describes(target[Meta(cur)].sig, cur)
      BY <1>1, <1>3 DEF IInv, FilesInv
    <2> QED
      BY <1>1, <1>3, <2>1, <2>2, FileKinds DEF JobInv, Describes
  <1> QED
    BY <1>1, <1>2, <1>3

LEMMA ComparePrepare == ASSUME IInv, Compare PROVE PrepareInv'
  <1> DEFINE seen == [now EXCEPT !.files = save[cur]]
  <1>1. /\ now' = seen /\ UNCHANGED <<save, cloud, target, tmp, cur>> /\ cur \in Key /\ pc = "compare"
    BY DEF Compare, disk, IInv, TypeOK
  <1>2. /\ seen.commit = now.commit /\ seen.files = save[cur] /\ now.commit \in Nat /\ save[cur] \in Nat
        /\ now.commit <= save[cur] /\ NoNewerThan(cur, now.commit)
    BY <1>1, BoundsAssumption DEF IInv, TypeOK, Signature, Version, PrepareInv
  <1>3. ASSUME Exists(Sig(cur)), SameSignature(target[Sig(cur)], seen)
        PROVE now.commit \in cloud[cur]
    <2>1. target[Sig(cur)].commit = now.commit
      BY <1>2, <1>3 DEF SameSignature
    <2>2. Received(target[Sig(cur)], cur) /\ target[Sig(cur)] \in Signature
      BY <1>1, <1>3 DEF Exists, IInv, FilesInv, TypeOK, Holds
    <2>3. target[Sig(cur)].files <= now.commit
      BY <1>2, <2>2 DEF Received, NoNewerThan
    <2>4. target[Sig(cur)].files = now.commit
      BY <1>2, <2>1, <2>2, <2>3, BoundsAssumption DEF Received, Ordered, Signature, Version
    <2> QED
      BY <2>2, <2>4 DEF Received
  <1>4. ASSUME Exists(Meta(cur)), Exists(Zip(cur)), SameSignature(target[Meta(cur)].sig, seen)
        PROVE target[Zip(cur)] = now.commit
    <2>1. target[Meta(cur)].sig.commit = now.commit
      BY <1>2, <1>4 DEF SameSignature
    <2>2. /\ target[Meta(cur)].sig.files = target[Zip(cur)] /\ Ordered(target[Meta(cur)].sig)
          /\ target[Zip(cur)] \in Version
      BY <1>1, <1>4 DEF Exists, IInv, FilesInv, Describes, TypeOK, Holds
    <2>3. target[Zip(cur)] <= now.commit
      BY <1>2, <1>4 DEF NoNewerThan
    <2> QED
      BY <1>2, <2>1, <2>2, <2>3, BoundsAssumption DEF Ordered, Version
  <1>5. pc' \in {"empty", "skipped", "zip", "write"} /\ (pc' = "write" => job'.then \in {"skipped", "zip"})
    BY DEF Compare, Replace
  <1>6. At({"skipped"})' => now.commit \in cloud[cur] \cup {target[Zip(cur)]}
    BY <1>3, <1>4 DEF Compare, Replace, At, ReplacePC
  <1>7. Ordered(now')
    BY <1>1, <1>2 DEF Ordered
  <1> QED
    BY <1>1, <1>2, <1>5, <1>6, <1>7 DEF PrepareInv, At, ReplacePC

LEMMA CompareKeeps == ASSUME IInv, Compare PROVE IInv'
  <1>1. TypeOK'
    BY CompareTypes
  <1>2. FilesInv'
    BY FilesUntouched DEF Compare, IInv, disk
  <1>3. JobInv'
    BY CompareJob
  <1>4. PrepareInv'
    BY ComparePrepare
  <1>5. BatchInv'
    BY DEF Compare, IInv, BatchInv, At, QueuePC, ReplacePC
  <1> QED
    BY <1>1, <1>2, <1>3, <1>4, <1>5 DEF IInv

LEMMA CreateZipKeeps == ASSUME IInv, CreateZip PROVE IInv'
  <1>1. TypeOK'
    BY FileKinds DEF CreateZip, Fault, IInv, disk, locals, bounds, TypeOK, Holds, PreparePC
  <1>2. FilesInv'
    BY FilesUntouched DEF CreateZip, IInv, disk
  <1>3. JobInv'
    BY DEF CreateZip, IInv, JobInv, ReplacePC
  <1>4. PrepareInv'
    BY FileKinds DEF CreateZip, IInv, locals, TypeOK, PrepareInv, At, ReplacePC
  <1>5. BatchInv'
    BY DEF CreateZip, IInv, locals, BatchInv, At, QueuePC, ReplacePC
  <1> QED
    BY <1>1, <1>2, <1>3, <1>4, <1>5 DEF IInv

\* The archive goes into place without metadata.
LEMMA DropOldMetadataKeeps == ASSUME IInv, DropOldMetadata PROVE IInv'
  <1>1. TypeOK'
    BY FileKinds DEF DropOldMetadata, Replace, IInv, disk, locals, bounds, TypeOK, Holds,
       PreparePC, ReplacePC
  <1>2. FilesInv'
    BY DEF DropOldMetadata, IInv, disk, locals, FilesInv, NoNewerThan, Describes, Received,
       Exists
  <1>3. JobInv'
    BY FileKinds DEF DropOldMetadata, Replace, IInv, TypeOK, JobInv, PrepareInv, Exists
  <1>4. PrepareInv'
    BY DEF DropOldMetadata, Replace, IInv, PrepareInv, At
  <1>5. BatchInv'
    BY DEF DropOldMetadata, IInv, BatchInv, At, QueuePC, ReplacePC
  <1> QED
    BY <1>1, <1>2, <1>3, <1>4, <1>5 DEF IInv

LEMMA WritePendingMetadataKeeps == ASSUME IInv, WritePendingMetadata PROVE IInv'
  <1>1. TypeOK'
    BY FileKinds DEF WritePendingMetadata, Replace, IInv, disk, locals, bounds, TypeOK,
       Holds, PreparePC, ReplacePC, Entry
  <1>2. FilesInv'
    BY FilesUntouched DEF WritePendingMetadata, IInv, disk
  <1>3. JobInv'
    BY FileKinds DEF WritePendingMetadata, Replace, IInv, disk, JobInv, PrepareInv, At,
       Describes
  <1>4. PrepareInv'
    BY DEF WritePendingMetadata, Replace, IInv, PrepareInv, At
  <1>5. BatchInv'
    BY DEF WritePendingMetadata, IInv, BatchInv, At, QueuePC, ReplacePC
  <1> QED
    BY <1>1, <1>2, <1>3, <1>4, <1>5 DEF IInv

LEMMA CleanupKeeps == ASSUME IInv, Cleanup PROVE IInv'
  <1>1. TypeOK'
    BY FileKinds DEF Cleanup, IInv, disk, locals, bounds, TypeOK, Holds, PreparePC
  <1>2. FilesInv'
    BY FileKinds DEF Cleanup, IInv, TypeOK, FilesInv, NoNewerThan, Describes, Received,
       Exists
  <1>3. JobInv'
    BY DEF Cleanup, IInv, JobInv, ReplacePC
  <1>4. PrepareInv'
    BY DEF Cleanup, IInv, PrepareInv, At, ReplacePC
  <1>5. BatchInv'
    BY DEF Cleanup, IInv, locals, BatchInv, At, QueuePC, ReplacePC
  <1> QED
    BY <1>1, <1>2, <1>3, <1>4, <1>5 DEF IInv

LEMMA PrepareReturnsKeeps == ASSUME IInv, PrepareReturns PROVE IInv'
  <1>1. TypeOK'
    BY FileKinds, NothingLeft DEF PrepareReturns, IInv, disk, locals, bounds, TypeOK, Holds,
       PreparePC, Signature
  <1>2. FilesInv'
    BY FilesUntouched DEF PrepareReturns, IInv, disk
  <1>3. JobInv'
    BY DEF PrepareReturns, IInv, JobInv, ReplacePC
  <1>4. PrepareInv'
    BY DEF PrepareReturns, IInv, PrepareInv, At, ReplacePC
  <1>5. BatchInv'
    BY DEF PrepareReturns, IInv, BatchInv, At, QueuePC, ReplacePC
  <1> QED
    BY <1>1, <1>2, <1>3, <1>4, <1>5 DEF IInv

LEMMA PrepareDoneTypes == ASSUME IInv, PrepareDone PROVE TypeOK'
  <1>1. /\ save' = save /\ cloud' = cloud /\ target' = target /\ tmp' = tmp /\ bak' = bak
        /\ promised' = promised /\ crashes' = crashes /\ faults' = faults
    BY DEF PrepareDone, disk, bounds
  <1>2. \A k \in Key : Holds(Zip(k), Version)' /\ Holds(Meta(k), Entry)' /\ Holds(Sig(k), Signature)'
    BY <1>1 DEF IInv, TypeOK, Holds
  <1>3. CASE ok
    <2>1. /\ todo' = todo /\ ok' = ok /\ cur' = cur /\ now' = now /\ job' = job /\ had' = had
          /\ toRead' \subseteq Key /\ batch' = {} /\ pc' \in QueuePC
      BY <1>3 DEF PrepareDone, OpenQueue, QueuePC
    <2> QED
      BY <1>1, <1>2, <2>1 DEF IInv, TypeOK
  <1>4. CASE ~ok
    <2>1. /\ todo' = {} /\ ok' = TRUE /\ cur' = AnyKey /\ now' = NoSignature /\ job' = NoJob
          /\ had' = FALSE /\ toRead' = {} /\ batch' = {} /\ pc' = "idle"
      BY <1>4 DEF PrepareDone, Unwound
    <2> QED
      BY <1>1, <1>2, <2>1, FileKinds, NothingLeft, ZenonT(60) DEF IInv, TypeOK, PreparePC
  <1> QED
    BY <1>3, <1>4

LEMMA PrepareDoneKeeps == ASSUME IInv, PrepareDone PROVE IInv'
  <1>1. TypeOK'
    BY PrepareDoneTypes
  <1>2. FilesInv'
    BY FilesUntouched DEF PrepareDone, IInv, disk
  <1>3. JobInv'
    BY DEF PrepareDone, OpenQueue, IInv, JobInv, ReplacePC
  <1>4. PrepareInv'
    BY DEF PrepareDone, OpenQueue, IInv, PrepareInv, At, ReplacePC
  <1>5. BatchInv'
    BY DEF PrepareDone, Unwound, OpenQueue, IInv, disk, BatchInv, At, Exists, ReplacePC
  <1> QED
    BY <1>1, <1>2, <1>3, <1>4, <1>5 DEF IInv

LEMMA ListEntryFacts ==
  ASSUME NEW k \in Key, IInv, ListEntry(k)
  PROVE  /\ target[Meta(k)] \in Entry /\ Describes(target[Meta(k)].sig, k)
         /\ batch' \subseteq batch \cup {[key |-> k, sig |-> target[Meta(k)].sig]}
         /\ save' = save /\ cloud' = cloud /\ target' = target /\ tmp' = tmp /\ bak' = bak
         /\ promised' = promised /\ todo' = todo /\ ok' = ok /\ cur' = cur /\ now' = now /\ had' = had
         /\ toRead' \subseteq Key /\ crashes' = crashes /\ faults' = faults
         /\ \/ job' = job /\ pc' = "list"
            \/ /\ pc' = "write"
               /\ job'.file = Meta(k) /\ job'.then = "list" /\ job'.else = "list"
               /\ job'.data \in Entry /\ job'.data.sig = target[Meta(k)].sig
  <1>1. Exists(Meta(k))
    BY DEF ListEntry, IInv, BatchInv
  <1>2. target[Meta(k)] \in Entry /\ Describes(target[Meta(k)].sig, k)
    BY <1>1 DEF Exists, IInv, TypeOK, Holds, FilesInv
  <1>3. /\ save' = save /\ cloud' = cloud /\ target' = target /\ tmp' = tmp /\ bak' = bak
        /\ promised' = promised /\ todo' = todo /\ ok' = ok /\ cur' = cur /\ now' = now /\ had' = had
        /\ crashes' = crashes /\ faults' = faults
    BY DEF ListEntry, disk, bounds
  <1>4. batch' \subseteq batch \cup {[key |-> k, sig |-> target[Meta(k)].sig]}
    BY DEF ListEntry
  <1>5. toRead' \subseteq Key
    BY DEF ListEntry, IInv, TypeOK
  <1>6. CASE target[Meta(k)].legacy
    <2>1. /\ pc' = "write"
          /\ job' = Replace(Meta(k), [target[Meta(k)] EXCEPT !.legacy = FALSE], "list", "list")
      BY <1>6 DEF ListEntry
    <2>2. /\ job'.file = Meta(k) /\ job'.then = "list" /\ job'.else = "list"
          /\ job'.data \in Entry /\ job'.data.sig = target[Meta(k)].sig
      BY <1>2, <2>1, MigratedEntry
    <2> QED
      BY <1>2, <1>3, <1>4, <1>5, <2>1, <2>2
  <1>7. CASE ~target[Meta(k)].legacy
    <2>1. job' = job /\ pc' = "list"
      BY <1>7 DEF ListEntry
    <2> QED
      BY <1>2, <1>3, <1>4, <1>5, <2>1
  <1> QED
    BY <1>6, <1>7

LEMMA ListEntryTypes == ASSUME NEW k \in Key, IInv, ListEntry(k) PROVE TypeOK'
  <1>0. /\ target[Meta(k)] \in Entry
        /\ batch' \subseteq batch \cup {[key |-> k, sig |-> target[Meta(k)].sig]}
        /\ save' = save /\ cloud' = cloud /\ target' = target /\ tmp' = tmp /\ bak' = bak
        /\ promised' = promised /\ todo' = todo /\ ok' = ok /\ cur' = cur /\ now' = now /\ had' = had
        /\ toRead' \subseteq Key /\ crashes' = crashes /\ faults' = faults
        /\ \/ job' = job /\ pc' = "list"
           \/ /\ pc' = "write"
              /\ job'.file = Meta(k) /\ job'.then = "list" /\ job'.else = "list"
              /\ job'.data \in Entry
    BY ListEntryFacts
  <1>1. batch' \subseteq [key : Key, sig : Signature]
    BY <1>0 DEF IInv, TypeOK, Entry
  <1>2. \A j \in Key : Holds(Zip(j), Version)' /\ Holds(Meta(j), Entry)' /\ Holds(Sig(j), Signature)'
    BY <1>0 DEF IInv, TypeOK, Holds
  <1>3. CASE job' = job /\ pc' = "list"
    BY <1>0, <1>1, <1>2, <1>3 DEF IInv, TypeOK, QueuePC
  <1>4. CASE pc' = "write" /\ job'.file = Meta(k) /\ job'.then = "list" /\ job'.else = "list"
             /\ job'.data \in Entry
    <2>1. job'.file \in File /\ job'.file[1] = "meta"
      BY <1>4, FileKinds
    <2> QED
      BY <1>0, <1>1, <1>2, <1>4, <2>1 DEF IInv, TypeOK, QueuePC, ReplacePC
  <1> QED
    BY <1>0, <1>3, <1>4

LEMMA ListEntryJob == ASSUME NEW k \in Key, IInv, ListEntry(k) PROVE JobInv'
  <1>0. /\ Describes(target[Meta(k)].sig, k) /\ target' = target
        /\ \/ pc' = "list"
           \/ /\ pc' = "write"
              /\ job'.file = Meta(k) /\ job'.then = "list" /\ job'.else = "list"
              /\ job'.data.sig = target[Meta(k)].sig
    BY ListEntryFacts
  <1>1. CASE pc' = "list"
    BY <1>1 DEF JobInv, ReplacePC
  <1>2. CASE pc' = "write" /\ job'.file = Meta(k) /\ job'.then = "list" /\ job'.else = "list"
             /\ job'.data.sig = target[Meta(k)].sig
    <2>1. Describes(job.data.sig, k)'
      BY <1>0, <1>2 DEF Describes
    <2> QED
      BY <1>2, <2>1, FileKinds DEF JobInv
  <1> QED
    BY <1>0, <1>1, <1>2

LEMMA ListEntryKeeps == ASSUME NEW k \in Key, IInv, ListEntry(k) PROVE IInv'
  <1>1. TypeOK'
    BY ListEntryTypes
  <1>2. FilesInv'
    BY FilesUntouched DEF ListEntry, IInv, disk
  <1>3. JobInv'
    BY ListEntryJob
  <1>4. PrepareInv'
    BY DEF ListEntry, Replace, IInv, disk, PrepareInv, At
  <1>5. BatchInv'
    BY FileKinds DEF ListEntry, Replace, IInv, disk, TypeOK, FilesInv, BatchInv, At,
       Describes, Exists, PreparePC, ReplacePC
  <1> QED
    BY <1>1, <1>2, <1>3, <1>4, <1>5 DEF IInv

LEMMA ListDoneTypes == ASSUME IInv, ListDone PROVE TypeOK'
  <1>1. /\ save' = save /\ cloud' = cloud /\ target' = target /\ tmp' = tmp /\ bak' = bak
        /\ promised' = promised /\ crashes' = crashes /\ faults' = faults /\ job' = NoJob
    BY DEF ListDone, Unwound, disk, bounds
  <1>2. \A k \in Key : Holds(Zip(k), Version)' /\ Holds(Meta(k), Entry)' /\ Holds(Sig(k), Signature)'
    BY <1>1 DEF IInv, TypeOK, Holds
  <1>3. CASE pc' = "upload" /\ UNCHANGED <<todo, ok, cur, now, had, toRead, batch>>
    BY <1>1, <1>2, <1>3, FileKinds, NothingLeft DEF IInv, TypeOK, PreparePC, QueuePC
  <1>4. CASE pc' = "idle" /\ Unwound
    <2>1. /\ todo' = {} /\ ok' = TRUE /\ cur' = AnyKey /\ now' = NoSignature
          /\ had' = FALSE /\ toRead' = {} /\ batch' = {} /\ pc' = "idle"
      BY <1>4 DEF Unwound
    <2> QED
      BY <1>1, <1>2, <2>1, FileKinds, NothingLeft, ZenonT(60) DEF IInv, TypeOK, PreparePC
  <1> QED
    BY <1>3, <1>4 DEF ListDone

LEMMA ListDoneKeeps == ASSUME IInv, ListDone PROVE IInv'
  <1>1. TypeOK'
    BY ListDoneTypes
  <1>2. FilesInv'
    BY FilesUntouched DEF ListDone, IInv, disk
  <1>3. JobInv'
    BY DEF ListDone, IInv, JobInv, ReplacePC
  <1>4. PrepareInv'
    BY DEF ListDone, IInv, PrepareInv, At, ReplacePC
  <1>5. BatchInv'
    BY DEF ListDone, Unwound, IInv, disk, BatchInv, At, Describes, QueuePC
  <1> QED
    BY <1>1, <1>2, <1>3, <1>4, <1>5 DEF IInv

LEMMA UploadDeferredKeeps == ASSUME IInv, UploadDeferred PROVE IInv'
  <1>1. TypeOK'
    BY FileKinds, NothingLeft DEF UploadDeferred, Unwound, IInv, disk, locals, bounds,
       TypeOK, Holds, PreparePC, NoJob
  <1>2. FilesInv'
    BY FilesUntouched DEF UploadDeferred, IInv, disk
  <1>3. JobInv'
    BY DEF UploadDeferred, IInv, JobInv, ReplacePC
  <1>4. PrepareInv'
    BY DEF UploadDeferred, IInv, PrepareInv, At, ReplacePC
  <1>5. BatchInv'
    BY DEF UploadDeferred, Unwound, IInv, BatchInv
  <1> QED
    BY <1>1, <1>2, <1>3, <1>4, <1>5 DEF IInv

LEMMA UploadArrivesKeeps == ASSUME NEW k \in Key, IInv, UploadArrives(k) PROVE IInv'
  <1>1. TypeOK'
    BY DEF UploadArrives, IInv, disk, locals, bounds, TypeOK, Holds, Exists
  <1>2. FilesInv'
    BY DEF UploadArrives, IInv, disk, FilesInv, NoNewerThan, Describes, Received, Exists
  <1>3. JobInv'
    BY DEF UploadArrives, IInv, disk, locals, JobInv, Describes, Received, Exists
  <1>4. PrepareInv'
    BY DEF UploadArrives, IInv, disk, locals, PrepareInv, At
  <1>5. BatchInv'
    BY DEF UploadArrives, IInv, disk, locals, BatchInv, At, Describes, Exists
  <1> QED
    BY <1>1, <1>2, <1>3, <1>4, <1>5 DEF IInv

LEMMA UploadOkJob == ASSUME NEW k \in Key, IInv, UploadOk(k) PROVE JobInv'
  <1>1. PICK i \in batch : i.key = k /\ job' = Replace(Sig(k), i.sig, "dropZip", "dropZip")
    BY DEF UploadOk
  <1>2. /\ UNCHANGED <<target, cloud>> /\ pc' = "write"
        /\ target[Zip(k)] \in cloud[k] /\ target[Zip(k)] # NoFile
    BY DEF UploadOk, disk, Exists
  <1>3. Received(i.sig, k)
    BY <1>1, <1>2 DEF IInv, BatchInv, Describes, Received
  <1>4. Received(i.sig, k)'
    BY <1>2, <1>3 DEF Received
  <1> QED
    BY <1>1, <1>2, <1>4, FileKinds DEF JobInv, Replace

\* An item's signature may be stored once its archive arrived.
LEMMA UploadOkKeeps == ASSUME NEW k \in Key, IInv, UploadOk(k) PROVE IInv'
  <1>1. TypeOK'
    BY FileKinds DEF UploadOk, Replace, IInv, disk, locals, bounds, TypeOK, Holds, QueuePC,
       ReplacePC
  <1>2. FilesInv'
    BY FilesUntouched DEF UploadOk, IInv, disk
  <1>3. JobInv'
    BY UploadOkJob
  <1>4. PrepareInv'
    BY DEF UploadOk, Replace, IInv, PrepareInv, At
  <1>5. BatchInv'
    BY DEF UploadOk, Replace, IInv, disk, BatchInv, At, Describes, QueuePC, ReplacePC
  <1> QED
    BY <1>1, <1>2, <1>3, <1>4, <1>5 DEF IInv

LEMMA UploadFailsKeeps == ASSUME NEW k \in Key, IInv, UploadFails(k) PROVE IInv'
  <1>1. TypeOK'
    BY DEF UploadFails, IInv, disk, locals, bounds, TypeOK, Holds
  <1>2. FilesInv'
    BY FilesUntouched DEF UploadFails, IInv, disk
  <1>3. JobInv'
    BY DEF UploadFails, IInv, disk, JobInv, Describes, Received, Exists
  <1>4. PrepareInv'
    BY DEF UploadFails, IInv, disk, PrepareInv, At
  <1>5. BatchInv'
    BY DEF UploadFails, IInv, disk, BatchInv, At, Describes, Exists
  <1> QED
    BY <1>1, <1>2, <1>3, <1>4, <1>5 DEF IInv

LEMMA DropZipKeeps == ASSUME IInv, DropZip PROVE IInv'
  <1>1. TypeOK'
    BY FileKinds DEF DropZip, Fault, IInv, disk, locals, bounds, TypeOK, Holds, QueuePC
  <1>2. FilesInv'
    BY FileKinds DEF DropZip, IInv, TypeOK, FilesInv, NoNewerThan, Describes, Received,
       Exists
  <1>3. JobInv'
    BY DEF DropZip, IInv, JobInv, ReplacePC
  <1>4. PrepareInv'
    BY DEF DropZip, IInv, PrepareInv, At, ReplacePC
  <1>5. BatchInv'
    BY FileKinds DEF DropZip, IInv, locals, TypeOK, BatchInv, At, Describes, QueuePC,
       ReplacePC
  <1> QED
    BY <1>1, <1>2, <1>3, <1>4, <1>5 DEF IInv

LEMMA DropEntryKeeps == ASSUME IInv, DropEntry PROVE IInv'
  <1>1. TypeOK'
    BY FileKinds, NothingLeft DEF DropEntry, IInv, disk, locals, bounds, TypeOK, Holds,
       PreparePC, QueuePC
  <1>2. FilesInv'
    BY DEF DropEntry, IInv, disk, locals, FilesInv, NoNewerThan, Describes, Received, Exists
  <1>3. JobInv'
    BY DEF DropEntry, IInv, JobInv, ReplacePC
  <1>4. PrepareInv'
    BY DEF DropEntry, IInv, PrepareInv, At, ReplacePC
  <1>5. BatchInv'
    BY DEF DropEntry, IInv, BatchInv, At, Describes, QueuePC, ReplacePC
  <1> QED
    BY <1>1, <1>2, <1>3, <1>4, <1>5 DEF IInv

LEMMA UploadDoneKeeps == ASSUME IInv, UploadDone PROVE IInv'
  <1>1. TypeOK'
    BY FileKinds, NothingLeft DEF UploadDone, Unwound, IInv, disk, locals, bounds, TypeOK,
       Holds, PreparePC, NoJob
  <1>2. FilesInv'
    BY FilesUntouched DEF UploadDone, IInv, disk
  <1>3. JobInv'
    BY DEF UploadDone, IInv, JobInv, ReplacePC
  <1>4. PrepareInv'
    BY DEF UploadDone, IInv, PrepareInv, At, ReplacePC
  <1>5. BatchInv'
    BY DEF UploadDone, Unwound, IInv, BatchInv
  <1> QED
    BY <1>1, <1>2, <1>3, <1>4, <1>5 DEF IInv

-----------------------------------------------------------------------------
LEMMA NextKeeps == IInv /\ [Next]_vars => IInv'
  <1>0. SUFFICES ASSUME IInv, [Next]_vars PROVE IInv'
    OBVIOUS
  <1>1. ASSUME NEW k \in Key, GameCommits(k) PROVE IInv'
    BY <1>0, <1>1, GameCommitsKeeps
  <1>2. CASE Crash
    BY <1>0, <1>2, CrashKeeps
  <1>3. CASE Boot
    BY <1>0, <1>3, BootKeeps
  <1>4. ASSUME NEW ks \in SUBSET Key, StartTitle(ks) PROVE IInv'
    BY <1>0, <1>4, StartTitleKeeps
  <1>5. CASE StartRetry
    BY <1>0, <1>5, StartRetryKeeps
  <1>6. CASE WriteTemp
    BY <1>0, <1>6, WriteTempKeeps
  <1>7. CASE PutAside
    BY <1>0, <1>7, PutAsideKeeps
  <1>8. CASE Publish
    BY <1>0, <1>8, PublishKeeps
  <1>9. ASSUME NEW k \in Key, FillMeta(k) PROVE IInv'
    BY <1>0, <1>9, FillMetaKeeps
  <1>10. CASE MountSave
    BY <1>0, <1>10, MountSaveKeeps
  <1>11. CASE Compare
    BY <1>0, <1>11, CompareKeeps
  <1>12. CASE CreateZip
    BY <1>0, <1>12, CreateZipKeeps
  <1>13. CASE DropOldMetadata
    BY <1>0, <1>13, DropOldMetadataKeeps
  <1>14. CASE WritePendingMetadata
    BY <1>0, <1>14, WritePendingMetadataKeeps
  <1>15. CASE Cleanup
    BY <1>0, <1>15, CleanupKeeps
  <1>16. CASE PrepareReturns
    BY <1>0, <1>16, PrepareReturnsKeeps
  <1>17. CASE PrepareDone
    BY <1>0, <1>17, PrepareDoneKeeps
  <1>18. ASSUME NEW k \in Key, ListEntry(k) PROVE IInv'
    BY <1>0, <1>18, ListEntryKeeps
  <1>19. CASE ListDone
    BY <1>0, <1>19, ListDoneKeeps
  <1>20. CASE UploadDeferred
    BY <1>0, <1>20, UploadDeferredKeeps
  <1>21. ASSUME NEW k \in Key, UploadArrives(k) PROVE IInv'
    BY <1>0, <1>21, UploadArrivesKeeps
  <1>22. ASSUME NEW k \in Key, UploadOk(k) PROVE IInv'
    BY <1>0, <1>22, UploadOkKeeps
  <1>23. ASSUME NEW k \in Key, UploadFails(k) PROVE IInv'
    BY <1>0, <1>23, UploadFailsKeeps
  <1>24. CASE DropZip
    BY <1>0, <1>24, DropZipKeeps
  <1>25. CASE DropEntry
    BY <1>0, <1>25, DropEntryKeeps
  <1>26. CASE UploadDone
    BY <1>0, <1>26, UploadDoneKeeps
  <1>27. CASE UNCHANGED vars
    <2>1. TypeOK'
      BY <1>0, <1>27 DEF vars, disk, locals, bounds, IInv, TypeOK, Holds
    <2>2. FilesInv'
      BY <1>0, <1>27, FilesUntouched DEF vars, disk, IInv
    <2>3. JobInv' /\ PrepareInv' /\ BatchInv'
      BY <1>0, <1>27 DEF vars, disk, locals, IInv, JobInv, PrepareInv, BatchInv, At,
         NoNewerThan,
         Describes, Received, Exists
    <2> QED
      BY <2>1, <2>2, <2>3 DEF IInv
  <1> QED
    BY <1>0, <1>1, <1>2, <1>3, <1>4, <1>5, <1>6, <1>7, <1>8, <1>9, <1>10, <1>11, <1>12,
       <1>13, <1>14, <1>15, <1>16, <1>17, <1>18, <1>19, <1>20, <1>21, <1>22, <1>23, <1>24,
       <1>25, <1>26, <1>27 DEF Next, ReplaceStep, PrepareStep, QueueStep

\* The inductive invariant holds throughout.
THEOREM Invariance == Spec => []IInv
  BY InitIInv, NextKeeps, PTL DEF Spec

\* Whatever is interrupted or fails, every file in place is absent or
\* complete and holds the kind of content its reader expects: a torn .tmp
\* file never gets into place (atomic_replace).
THEOREM TypeCorrect == Spec => []TypeOK
  <1>1. IInv => TypeOK
    BY DEF IInv
  <1> QED
    BY <1>1, Invariance, PTL

\* Metadata never points at another archive than the one beside it
\* (save.cpp:539).
THEOREM MetadataFits == Spec => []MetadataDescribesZip
  <1>1. IInv => MetadataDescribesZip
    BY DEF IInv, FilesInv, Describes, Exists, MetadataDescribesZip
  <1> QED
    BY <1>1, Invariance, PTL

\* A stored signature belongs to a content the drive has received
\* (process_pending_backups writes it after upload_file succeeded).
THEOREM SignatureIsUploaded == Spec => []StoredSignatureIsUploaded
  <1>1. IInv => StoredSignatureIsUploaded
    BY DEF IInv, FilesInv, Received, Ordered, StoredSignatureIsUploaded
  <1> QED
    BY <1>1, Invariance, PTL

\* A save answered SAVE_UNCHANGED is on the drive or in the queue, for any
\* collision of the totals that signatures_equal compares.
THEOREM SkippedIsSafe == Spec => []SkippedSaveIsSafe
  <1>1. IInv => SkippedSaveIsSafe
    BY DEF IInv, PrepareInv, At, SkippedSaveIsSafe
  <1> QED
    BY <1>1, Invariance, PTL

-----------------------------------------------------------------------------
(***************************************************************************)
(* That the queue implements its ledger: every step of files, renames and  *)
(* crashes is a step of the ledger, or none.                               *)
(***************************************************************************)
\* A card without archives, or with those of an earlier release.
LEMMA ArchiveInit == Init => ArchiveInv
  BY FileKinds, KeyAssumption, FilesAssumption, BoundsAssumption
     DEF Init, ArchiveInv, At, ReplacePC, Version

\* Only the archive of a save with files, which compare has seen, is made,
\* put in place or put back.
LEMMA ArchiveNext == ASSUME IInv, IInv', ArchiveInv, [Next]_vars PROVE ArchiveInv'
  <1> USE DEF disk, locals, bounds
  <1>0. /\ NoFile # 0 /\ cur \in Key
        /\ \A k \in Key : Zip(k) \in File /\ Meta(k) \in File
        /\ DOMAIN target = File /\ DOMAIN bak = File /\ job.file \in File
    BY FilesAssumption, BoundsAssumption, FileKinds DEF Version, IInv, TypeOK
  <1>1. ASSUME NEW k \in Key, GameCommits(k) PROVE ArchiveInv'
    BY <1>0, <1>1, FileKinds DEF GameCommits, ArchiveInv, At, ReplacePC
  <1>2. ASSUME NEW ks \in SUBSET Key, StartTitle(ks) PROVE ArchiveInv'
    BY <1>0, <1>2, FileKinds DEF StartTitle, ArchiveInv, At, ReplacePC
  <1>3. CASE StartRetry
    BY <1>0, <1>3, FileKinds DEF StartRetry, ArchiveInv, At, ReplacePC, OpenQueue
  <1>4. CASE WriteTemp
    BY <1>0, <1>4, FileKinds DEF WriteTemp, ArchiveInv, At, ReplacePC, IInv, JobInv
  <1>5. CASE PutAside
    <2>1. /\ \A k \in Key : target'[Zip(k)] \in {target[Zip(k)], NoFile}
          /\ pc' = "publish" => bak'[job.file] = target[job.file]
          /\ UNCHANGED <<now, job>>
      BY <1>0, <1>5, FileKinds DEF PutAside, IInv, TypeOK, PreparePC, QueuePC
    <2>2. job.file[1] = "zip" => \E k \in Key : job.file = Zip(k)
      BY <1>0, FileKinds
    <2>3. At({"zip", "dropMeta", "saveMeta"})' => At({"zip", "dropMeta", "saveMeta"})
      BY <1>5 DEF PutAside, At, ReplacePC, IInv, JobInv, TypeOK, File, Kind
    <2> QED
      BY <1>0, <2>1, <2>2, <2>3 DEF ArchiveInv, At
  <1>6. CASE Publish
    BY <1>0, <1>6, FileKinds DEF Publish, ArchiveInv, At, ReplacePC, IInv, TypeOK, JobInv,
       PrepareInv
  <1>7. ASSUME NEW k \in Key, FillMeta(k) PROVE ArchiveInv'
    BY <1>0, <1>7, FileKinds DEF FillMeta, ArchiveInv, At, ReplacePC
  <1>8. CASE MountSave
    BY <1>0, <1>8, FileKinds DEF MountSave, ArchiveInv, At, ReplacePC
  <1>9. CASE Compare
    BY <1>0, <1>9, FileKinds DEF Compare, ArchiveInv, At, ReplacePC, Replace
  <1>10. CASE CreateZip
    BY <1>0, <1>10, FileKinds DEF CreateZip, ArchiveInv, At, ReplacePC
  <1>11. CASE DropOldMetadata
    BY <1>0, <1>11, FileKinds DEF DropOldMetadata, ArchiveInv, At, ReplacePC, Replace
  <1>12. CASE WritePendingMetadata
    BY <1>0, <1>12, FileKinds DEF WritePendingMetadata, ArchiveInv, At, ReplacePC, Replace
  <1>13. CASE Cleanup
    BY <1>0, <1>13, FileKinds DEF Cleanup, ArchiveInv, At, ReplacePC
  <1>14. CASE PrepareReturns
    BY <1>0, <1>14, FileKinds DEF PrepareReturns, ArchiveInv, At, ReplacePC
  <1>15. CASE PrepareDone
    BY <1>0, <1>15, FileKinds DEF PrepareDone, ArchiveInv, At, ReplacePC, OpenQueue, Unwound
  <1>16. ASSUME NEW k \in Key, ListEntry(k) PROVE ArchiveInv'
    BY <1>0, <1>16, FileKinds DEF ListEntry, ArchiveInv, At, ReplacePC, Replace
  <1>17. CASE ListDone
    BY <1>0, <1>17, FileKinds DEF ListDone, ArchiveInv, At, ReplacePC, Unwound
  <1>18. CASE UploadDeferred
    BY <1>0, <1>18, FileKinds DEF UploadDeferred, ArchiveInv, At, ReplacePC, Unwound
  <1>19. ASSUME NEW k \in Key, UploadArrives(k) PROVE ArchiveInv'
    BY <1>0, <1>19, FileKinds DEF UploadArrives, ArchiveInv, At, ReplacePC
  <1>20. ASSUME NEW k \in Key, UploadOk(k) PROVE ArchiveInv'
    BY <1>0, <1>20, FileKinds DEF UploadOk, ArchiveInv, At, ReplacePC, Replace
  <1>21. ASSUME NEW k \in Key, UploadFails(k) PROVE ArchiveInv'
    BY <1>0, <1>21, FileKinds DEF UploadFails, ArchiveInv, At, ReplacePC
  <1>22. CASE DropZip
    BY <1>0, <1>22, FileKinds DEF DropZip, ArchiveInv, At, ReplacePC
  <1>23. CASE DropEntry
    BY <1>0, <1>23, FileKinds DEF DropEntry, ArchiveInv, At, ReplacePC
  <1>24. CASE UploadDone
    BY <1>0, <1>24, FileKinds DEF UploadDone, ArchiveInv, At, ReplacePC, Unwound
  <1>25. CASE Crash
    BY <1>0, <1>25, FileKinds DEF Crash, ArchiveInv, At, ReplacePC, Unwound
  <1>26. CASE Boot
    BY <1>0, <1>26, FileKinds DEF Boot, ArchiveInv, At, ReplacePC
  <1>27. CASE UNCHANGED vars
    BY <1>27 DEF vars, ArchiveInv, At
  <1> QED
    BY <1>1, <1>2, <1>3, <1>4, <1>5, <1>6, <1>7, <1>8, <1>9, <1>10, <1>11, <1>12, <1>13,
       <1>14, <1>15, <1>16, <1>17, <1>18, <1>19, <1>20, <1>21, <1>22, <1>23, <1>24, <1>25,
       <1>26, <1>27 DEF Next, ReplaceStep, PrepareStep, QueueStep

\* Archives of an earlier release are on offer from the start.
LEMMA LedgerInit == Init => Ledger!Init
  <1> SUFFICES ASSUME NEW legacy \in SUBSET Legacy,
          save = [k \in Key |-> IF k \in legacy THEN 1 ELSE 0],
          cloud = [k \in Key |-> {}],
          target = [f \in File |->
           IF f[2] \notin legacy \/ f[1] = "sig" THEN NoFile
           ELSE IF f[1] = "zip" THEN 1 ELSE LegacyEntry],
          batch = {}
        PROVE Ledger!Init
    BY DEF Init
  <1>1. ASSUME NEW k \in Key
        PROVE /\ target[Zip(k)] = IF k \in legacy THEN 1 ELSE NoFile
              /\ target[Meta(k)] = IF k \in legacy THEN LegacyEntry ELSE NoFile
              /\ target[Sig(k)] = NoFile
    BY FileKinds
  <1>2. save \in [Key -> 0..MaxVersion] /\ legacy \in SUBSET Key
    BY BoundsAssumption, KeyAssumption
  <1>3. Offered = [k \in Key |-> IF k \in legacy THEN save[k] ELSE NoFile]
    <2>1. LegacyEntry \in Entry
      BY BoundsAssumption DEF Version, Entry, Signature, LegacyEntry
    <2>2. \A k \in Key : k \in legacy <=> Exists(Meta(k))
      BY <1>1, <2>1, FilesAssumption DEF Exists
    <2> QED
      BY <1>1, <2>2 DEF Offered
  <1>4. Recorded = [k \in Key |-> NoFile]
    BY <1>1 DEF Recorded
  <1> QED
    BY <1>2, <1>3, <1>4 DEF Ledger!Init

\* A step that puts no archive on offer and changes no signature withdraws
\* what is no longer offered, if anything.
LEMMA StepWithdraws ==
  ASSUME UNCHANGED <<save, cloud>>,
         \A k \in Key : target'[Sig(k)] = target[Sig(k)],
         \A k \in Key : target'[Zip(k)] \in {target[Zip(k)], NoFile},
         \A k \in Key : target'[Meta(k)] # NoFile => target[Meta(k)] # NoFile,
         \A i \in batch' : i \in batch \/ target[Meta(i.key)] # NoFile
  PROVE  Ledger!Next
  <1>1. Recorded' = Recorded
    BY DEF Recorded
  <1>2. ASSUME NEW k \in Key PROVE Offered'[k] \in {Offered[k], NoFile}
    BY DEF Offered, Exists
  <1>3. Offered' = [k \in Key |->
          IF k \in {j \in Key : Offered'[j] = NoFile} THEN NoFile ELSE Offered[k]]
    BY <1>2 DEF Offered
  <1>4. Ledger!Withdraw({k \in Key : Offered'[k] = NoFile})
    BY <1>1, <1>3 DEF Ledger!Withdraw
  <1> QED
    BY <1>4 DEF Ledger!Next

\* A commit of the game.
LEMMA CommitRefines == ASSUME NEW k \in Key, GameCommits(k) PROVE Ledger!Next
  <1>1. UNCHANGED <<Offered, Recorded, cloud>>
    BY DEF GameCommits, disk, locals, Offered, Recorded, Exists
  <1> QED
    BY <1>1 DEF GameCommits, Ledger!Next, Ledger!Commit

\* What the drive receives was on offer.
LEMMA ArrivalRefines == ASSUME NEW k \in Key, UploadArrives(k) PROVE Ledger!Next
  <1>1. UNCHANGED <<save, Offered, Recorded>>
    BY DEF UploadArrives, disk, locals, Offered, Recorded, Exists
  <1>2. Offered[k] = target[Zip(k)] /\ Offered[k] # NoFile
    BY DEF UploadArrives, Offered, Exists
  <1> QED
    BY <1>1, <1>2 DEF UploadArrives, Ledger!Next, Ledger!Upload

\* A signature put aside is forgotten, a description put aside withdraws the
\* archive (until it is back), an archive put aside was not on offer.
LEMMA PutAsideRefines == ASSUME IInv, PutAside PROVE [Ledger!Next]_(Ledger!ledger)
  <1>1. job.file \in File /\ DOMAIN target = File
    BY DEF IInv, TypeOK
  <1>2. CASE UNCHANGED target
    BY <1>2, StepWithdraws DEF PutAside
  <1>3. CASE target' = [target EXCEPT ![job.file] = NoFile]
    <2>1. UNCHANGED <<save, cloud, batch>>
      BY DEF PutAside
    <2>2. CASE job.file[1] # "sig"
      <3>1. \A k \in Key : job.file # Sig(k)
        BY <2>2, FileKinds
      <3> QED
        <4>1. ASSUME NEW g \in File PROVE target'[g] \in {target[g], NoFile} /\ (g # job.file => target'[g] = target[g])
          BY <1>1, <1>3
        <4>2. \A j \in Key : /\ target'[Sig(j)] = target[Sig(j)]
                             /\ target'[Zip(j)] \in {target[Zip(j)], NoFile}
                             /\ target'[Meta(j)] # NoFile => target[Meta(j)] # NoFile
          BY <3>1, <4>1, FileKinds
        <4> QED
          BY <2>1, <4>2, StepWithdraws
    <2>3. CASE job.file[1] = "sig"
      <3>1. PICK k \in Key : job.file = Sig(k)
        BY <1>1, <2>3, FileKinds
      <3>2. Offered' = Offered
        BY <1>1, <1>3, <2>1, <3>1, FileKinds DEF Offered, Exists
      <3>3. Recorded' = [Recorded EXCEPT ![k] = NoFile]
        <4>1. target' = [target EXCEPT ![Sig(k)] = NoFile]
          BY <1>3, <3>1
        <4> QED
          BY <1>1, <4>1, FileKinds, ZenonT(60) DEF Recorded
      <3> QED
        BY <2>1, <3>2, <3>3 DEF Ledger!Next, Ledger!Forget
    <2> QED
      BY <2>2, <2>3
  <1> QED
    BY <1>2, <1>3 DEF PutAside

\* A received signature is recorded.
LEMMA SigPublished ==
  ASSUME IInv, NEW k \in Key, NEW sig \in Signature, Received(sig, k),
         target' = [target EXCEPT ![Sig(k)] = sig], UNCHANGED <<save, cloud, batch>>
  PROVE  Ledger!Next
  <1>1. DOMAIN target = File
    BY DEF IInv, TypeOK
  <1>2. Offered' = Offered
    BY <1>1, FileKinds DEF Offered, Exists
  <1>3. Recorded' = [Recorded EXCEPT ![k] = [commit |-> sig.commit, files |-> sig.files]]
    <2>1. sig = [commit |-> sig.commit, files |-> sig.files]
      BY DEF Signature
    <2> QED
      BY <1>1, <2>1, FileKinds, ZenonT(60) DEF Recorded
  <1>4. sig.files \in cloud[k] /\ sig.commit \in 0..MaxVersion /\ sig.commit <= sig.files
    BY DEF Received, Ordered, Signature, Version
  <1>5. Ledger!Record(k)
    BY <1>2, <1>3, <1>4 DEF Ledger!Record
  <1> QED
    BY <1>5 DEF Ledger!Next

\* A description put in place offers the archive beside it.
LEMMA MetaPublished ==
  ASSUME IInv, ArchiveInv, NEW k \in Key, NEW entry \in Entry,
         target' = [target EXCEPT ![Meta(k)] = entry], UNCHANGED <<save, cloud, batch>>
  PROVE  [Ledger!Next]_(Ledger!ledger)
  <1>1. DOMAIN target = File /\ entry # NoFile
    BY FilesAssumption DEF IInv, TypeOK
  <1>2. Recorded' = Recorded
    BY <1>1, FileKinds DEF Recorded
  <1>3. /\ \A j \in Key \ {k} : Offered'[j] = Offered[j]
        /\ Offered'[k] = target[Zip(k)]
        /\ Offered[k] \in {NoFile, target[Zip(k)]}
    BY <1>1, FileKinds DEF Offered, Exists
  <1>4. Offered' = [Offered EXCEPT ![k] = target[Zip(k)]]
    <2>1. Offered' = [j \in Key |-> Offered'[j]] /\ DOMAIN Offered = Key
      BY DEF Offered
    <2> QED
      BY <1>3, <2>1
  <1>5. CASE Offered[k] = NoFile /\ target[Zip(k)] # NoFile
    <2>1. target[Zip(k)] \in 1..save[k]
      BY <1>5, BoundsAssumption DEF IInv, TypeOK, Holds, FilesInv, NoNewerThan, Exists,
         ArchiveInv, Version
    <2>2. Ledger!Queue(k)
      BY <1>2, <1>4, <1>5, <2>1 DEF Ledger!Queue
    <2> QED
      BY <2>2 DEF Ledger!Next
  <1>6. CASE Offered[k] = target[Zip(k)]
    <2>1. Offered' = Offered
      BY <1>4, <1>6 DEF Offered
    <2> QED
      BY <1>2, <2>1 DEF Ledger!ledger
  <1> QED
    BY <1>3, <1>5, <1>6

\* An archive is put in place, or back, while nothing describes it.
LEMMA ZipPublished ==
  ASSUME IInv, NEW k \in Key, NEW content, ~Exists(Meta(k)), batch = {},
         target' = [target EXCEPT ![Zip(k)] = content], UNCHANGED <<save, cloud, batch>>
  PROVE  UNCHANGED Ledger!ledger
  <1>1. DOMAIN target = File
    BY DEF IInv, TypeOK
  <1>2. Offered' = Offered
    BY <1>1, FileKinds DEF Offered, Exists
  <1>3. Recorded' = Recorded
    BY <1>1, FileKinds DEF Recorded
  <1> QED
    BY <1>2, <1>3 DEF Ledger!ledger

\* The second rename of atomic_replace, or the one back.
LEMMA PublishRefines == ASSUME IInv, ArchiveInv, Publish PROVE [Ledger!Next]_(Ledger!ledger)
  <1> DEFINE f == job.file
             k == f[2]
  <1>1. /\ f \in File /\ k \in Key /\ (f = Zip(k) \/ f = Meta(k) \/ f = Sig(k))
        /\ Zip(k)[1] = "zip" /\ Meta(k)[1] = "meta" /\ Sig(k)[1] = "sig"
    BY FileKinds DEF IInv, TypeOK
  <1>2. UNCHANGED <<save, cloud, batch>> /\ pc = "publish" /\ pc \in ReplacePC
    BY DEF Publish, locals, ReplacePC
  <1>3. CASE UNCHANGED target
    BY <1>2, <1>3 DEF Ledger!ledger, Offered, Recorded, Exists
  <1>4. ASSUME ~UNCHANGED target
        PROVE  \E content :
                 /\ target' = [target EXCEPT ![f] = content]
                 /\ content = tmp[f] \/ (had /\ content = bak[f])
    BY <1>4 DEF Publish
  <1>5. ASSUME NEW content, target' = [target EXCEPT ![f] = content],
               content = tmp[f] \/ (had /\ content = bak[f])
        PROVE  [Ledger!Next]_(Ledger!ledger)
    <2>1. content = job.data \/ (had /\ content = bak[f])
      BY <1>2, <1>5 DEF IInv, JobInv
    <2>2. CASE f = Sig(k)
      <3>1. content \in Signature /\ Received(content, k)
        BY <1>1, <1>2, <2>1, <2>2 DEF IInv, TypeOK, JobInv
      <3> QED
        BY <1>1, <1>2, <1>5, <2>2, <3>1, SigPublished
    <2>3. CASE f = Meta(k)
      <3>1. content \in Entry
        BY <1>1, <1>2, <2>1, <2>3 DEF IInv, TypeOK, JobInv
      <3> QED
        BY <1>1, <1>2, <1>5, <2>3, <3>1, MetaPublished
    <2>4. CASE f = Zip(k)
      <3>1. k = cur /\ ~Exists(Meta(k)) /\ job.then = "saveMeta"
        BY <1>1, <1>2, <2>4 DEF IInv, JobInv
      <3>2. batch = {}
        BY <1>2, <3>1 DEF IInv, BatchInv, At, QueuePC
      <3> QED
        BY <1>1, <1>2, <1>5, <2>4, <3>1, <3>2, ZipPublished
    <2> QED
      BY <1>1, <2>2, <2>3, <2>4
  <1> QED
    BY <1>3, <1>4, <1>5

\* Every other step withdraws at most.
LEMMA LedgerNext ==
  ASSUME IInv, ArchiveInv, [Next]_vars
  PROVE  [Ledger!Next]_(Ledger!ledger)
  <1> USE DEF disk, locals, bounds
  <1>0. DOMAIN target = File /\ cur \in Key /\ \A k \in Key : Zip(k) \in File /\ Meta(k) \in File /\ Sig(k) \in File
    BY FileKinds DEF IInv, TypeOK
  <1>1. CASE PutAside \/ Publish
    BY <1>1, PutAsideRefines, PublishRefines
  <1>2. ASSUME NEW k \in Key, GameCommits(k) \/ UploadArrives(k) PROVE Ledger!Next
    BY <1>2, CommitRefines, ArrivalRefines
  <1>3. ASSUME NEW ks \in SUBSET Key, StartTitle(ks) PROVE Ledger!Next
    BY <1>0, <1>3, FileKinds, StepWithdraws DEF StartTitle
  <1>4. ASSUME NEW k \in Key, FillMeta(k) PROVE Ledger!Next
    BY <1>0, <1>4, FileKinds, StepWithdraws DEF FillMeta
  <1>5. ASSUME NEW k \in Key, ListEntry(k) PROVE Ledger!Next
    <2>1. target[Meta(k)] # NoFile
      BY <1>5 DEF ListEntry, IInv, BatchInv, Exists
    <2>2. ASSUME NEW i \in batch' PROVE i \in batch \/ i.key = k
      BY <1>5, <2>2 DEF ListEntry
    <2>3. UNCHANGED <<save, cloud, target>>
      BY <1>5 DEF ListEntry
    <2> QED
      BY <2>1, <2>2, <2>3, StepWithdraws
  <1>6. ASSUME NEW k \in Key, UploadOk(k) PROVE Ledger!Next
    BY <1>0, <1>6, FileKinds, StepWithdraws DEF UploadOk
  <1>7. ASSUME NEW k \in Key, UploadFails(k) PROVE Ledger!Next
    BY <1>0, <1>7, FileKinds, StepWithdraws DEF UploadFails
  <1>8. CASE StartRetry
    BY <1>0, <1>8, FileKinds, StepWithdraws DEF StartRetry, OpenQueue
  <1>9. CASE WriteTemp
    BY <1>0, <1>9, FileKinds, StepWithdraws DEF WriteTemp
  <1>10. CASE MountSave
    BY <1>0, <1>10, FileKinds, StepWithdraws DEF MountSave
  <1>11. CASE Compare
    BY <1>0, <1>11, FileKinds, StepWithdraws DEF Compare
  <1>12. CASE CreateZip
    BY <1>0, <1>12, FileKinds, StepWithdraws DEF CreateZip
  <1>13. CASE DropOldMetadata
    BY <1>0, <1>13, FileKinds, StepWithdraws DEF DropOldMetadata
  <1>14. CASE WritePendingMetadata
    BY <1>0, <1>14, FileKinds, StepWithdraws DEF WritePendingMetadata
  <1>15. CASE Cleanup
    BY <1>0, <1>15, FileKinds, StepWithdraws DEF Cleanup
  <1>16. CASE PrepareReturns
    BY <1>0, <1>16, FileKinds, StepWithdraws DEF PrepareReturns
  <1>17. CASE PrepareDone
    BY <1>0, <1>17, FileKinds, StepWithdraws DEF PrepareDone, OpenQueue, Unwound
  <1>18. CASE ListDone
    BY <1>0, <1>18, FileKinds, StepWithdraws DEF ListDone, Unwound
  <1>19. CASE UploadDeferred
    BY <1>0, <1>19, FileKinds, StepWithdraws DEF UploadDeferred, Unwound
  <1>20. CASE DropZip
    BY <1>0, <1>20, FileKinds, StepWithdraws DEF DropZip
  <1>21. CASE DropEntry
    BY <1>0, <1>21, FileKinds, StepWithdraws DEF DropEntry
  <1>22. CASE UploadDone
    BY <1>0, <1>22, FileKinds, StepWithdraws DEF UploadDone, Unwound
  <1>23. CASE Crash
    BY <1>0, <1>23, FileKinds, StepWithdraws DEF Crash, Unwound
  <1>24. CASE Boot
    BY <1>0, <1>24, FileKinds, StepWithdraws DEF Boot
  <1>25. CASE UNCHANGED vars
    BY <1>25 DEF vars, Ledger!ledger, Offered, Recorded, Exists
  <1> QED
    BY <1>1, <1>2, <1>3, <1>4, <1>5, <1>6, <1>7, <1>8, <1>9, <1>10, <1>11, <1>12, <1>13,
       <1>14, <1>15, <1>16, <1>17, <1>18, <1>19, <1>20, <1>21, <1>22, <1>23, <1>24, <1>25 DEF
       Next, ReplaceStep, PrepareStep, QueueStep

\* Through crashes, failing writes and failing renames the queue behaves like
\* the ledger: the drive receives only what is on offer, an offered archive
\* is never exchanged in place nor empty, and a signature is stored only for
\* what the drive received (save.cpp's prepare_one, process_pending_backups).
THEOREM QueueImplementsLedger == Spec => ImplementsLedger
  <1>1. IInv /\ IInv' /\ ArchiveInv /\ [Next]_vars => ArchiveInv'
    BY ArchiveNext
  <1>2. IInv /\ ArchiveInv /\ [Next]_vars => [Ledger!Next]_(Ledger!ledger)
    BY LedgerNext
  <1> QED
    BY Invariance, ArchiveInit, LedgerInit, <1>1, <1>2, PTL DEF Spec, ImplementsLedger,
       Ledger!Spec
=============================================================================
