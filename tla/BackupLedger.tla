---------------------------- MODULE BackupLedger ----------------------------
(***************************************************************************)
(* What the background queue promises, without files, renames or crashes:  *)
(* an archive of a save is offered ("queued"), the drive receives nothing  *)
(* but offered archives, and a signature is recorded, to answer            *)
(* SAVE_UNCHANGED from, only for what the drive has received.  A queued    *)
(* archive may be withdrawn at any time but is never exchanged in place.   *)
(***************************************************************************)
EXTENDS Naturals

CONSTANTS Key, MaxVersion, NoFile

VARIABLES
    save,      \* [Key -> 0..MaxVersion]: the save data on the console
    queued,    \* the version on offer, or NoFile
    recorded,  \* the signature stored for the save, or NoFile
    cloud      \* [Key -> SUBSET (0..MaxVersion)]: versions the drive received

ledger == <<save, queued, recorded, cloud>>

Init ==
    /\ save \in [Key -> 0..MaxVersion]
    /\ \E K \in SUBSET Key : queued = [k \in Key |-> IF k \in K THEN save[k] ELSE NoFile]
    /\ recorded = [k \in Key |-> NoFile]
    /\ cloud = [k \in Key |-> {}]

\* A game commits a new version.
Commit(k) ==
    /\ save' = [save EXCEPT ![k] = @ + 1]
    /\ UNCHANGED <<queued, recorded, cloud>>

\* A version the save has or had is offered, where none is.
Queue(k) ==
    /\ queued[k] = NoFile
    /\ \E v \in 1..save[k] : queued' = [queued EXCEPT ![k] = v]
    /\ UNCHANGED <<save, recorded, cloud>>

\* Archives leave the queue, several at once when a batch ends or the memory
\* is lost and nothing but the batch still knew of them.
Withdraw(K) ==
    /\ queued' = [k \in Key |-> IF k \in K THEN NoFile ELSE queued[k]]
    /\ UNCHANGED <<save, recorded, cloud>>

\* The drive receives the version on offer.
Upload(k) ==
    /\ queued[k] # NoFile
    /\ cloud' = [cloud EXCEPT ![k] = @ \cup {queued[k]}]
    /\ UNCHANGED <<save, queued, recorded>>

\* The signature of a received version, taken no later than the version.
Record(k) ==
    /\ \E v \in cloud[k], c \in 0..MaxVersion :
        /\ c <= v
        /\ recorded' = [recorded EXCEPT ![k] = [commit |-> c, files |-> v]]
    /\ UNCHANGED <<save, queued, cloud>>

\* The stored signature may get lost; the save is then backed up again.
Forget(k) ==
    /\ recorded' = [recorded EXCEPT ![k] = NoFile]
    /\ UNCHANGED <<save, queued, cloud>>

Next ==
    \/ \E k \in Key : Commit(k) \/ Queue(k) \/ Upload(k) \/ Record(k) \/ Forget(k)
    \/ \E K \in SUBSET Key : Withdraw(K)

Spec == Init /\ [][Next]_ledger
=============================================================================
