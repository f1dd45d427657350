--------------------------- MODULE UploadProtocol ---------------------------
(***************************************************************************)
(* How the background sysmodule uploads one archive to Baidu Netdisk       *)
(* (upload_file and what it calls, sysmodule/source/baidu.cpp): parent     *)
(* directories, precreate, the slices the drive asks for, create, with     *)
(* repeated slices and one more attempt after a rejected token.            *)
(*                                                                         *)
(* Each request is one step with its answer.  A request fails before or    *)
(* after the drive has acted on it, by a network error, an HTTP error or   *)
(* an error number; the client reacts to all of these alike, but for -6,   *)
(* which it takes for a token that is no longer valid.  The content of     *)
(* slice p is abstracted to p, its MD5 to its content; a slice altered on  *)
(* its way is Garbled.  The drive stores what it receives and puts a file  *)
(* together when told to; it does not look at the checksums of create.     *)
(***************************************************************************)
EXTENDS Naturals

CONSTANTS
    Sizes,         \* bound: numbers of slices an archive may have
    MaxSlices,     \* MAX_UPLOAD_SLICES
    Directories,   \* parent directories create_directory is called for
    MaxFaults,     \* bound: requests that fail or are altered
    MaxRevokes,    \* bound: tokens revoked or grown old
    Missing, Garbled

Slice == UNION {0..n-1 : n \in Sizes}

ASSUME SizesAssumption == Sizes # {} /\ Sizes \subseteq Nat \ {0}
ASSUME MaxSlicesAssumption == MaxSlices \in Nat /\ Directories \in Nat
ASSUME BoundsAssumption == MaxFaults \in Nat /\ MaxRevokes \in Nat
ASSUME ContentAssumption == Missing \notin Nat /\ Garbled \notin Nat /\ Missing # Garbled

VARIABLES
    pc,            \* where upload_file is
    slices,        \* blockHashes.size()
    attempt,       \* attempt of upload_file, from 1
    directories,   \* directories ensure_remote_parent still has to create
    required,      \* the slices of requiredParts still to be sent
    part, tries,   \* the slice being sent and how often it was
    expires,       \* m_tokenExpires: "ahead", "past" or "zero"
    refreshable,   \* m_refreshToken is not empty
    access,        \* drive: the access token is "good" or "revoked"
    session,       \* drive: the slices stored for the path
    known,         \* drive: a file with this content is stored somewhere
    remote,        \* drive: the file at the path: "old", "whole" or "torn"
    faults, revokes,
    losses,        \* history of this call: slice requests that failed
    broken,        \*   another request failed or a slice was altered
    rejections     \*   tokens revoked

client == <<pc, slices, attempt, directories, required, part, tries>>
token == <<expires, refreshable, access>>
drive == <<session, known, remote>>
history == <<losses, broken, rejections>>
vars == <<client, token, drive, faults, revokes, history>>

Parts == 0..slices-1
Empty == [p \in Slice |-> Missing]

Init ==
    /\ pc = "idle" /\ slices \in Sizes /\ attempt = 1 /\ directories = 0
    /\ required = {} /\ part = 0 /\ tries = 0
    /\ expires \in {"ahead", "past"} /\ refreshable \in BOOLEAN /\ access \in {"good", "revoked"}
    /\ session = Empty /\ known \in BOOLEAN /\ remote = "old"
    /\ faults = 0 /\ revokes = 0
    /\ losses = 0 /\ broken = FALSE /\ rejections = IF access = "good" THEN 0 ELSE 1

-----------------------------------------------------------------------------
(***************************************************************************)
(* What becomes of a request that carries the access token.                *)
(***************************************************************************)
Accepted == access = "good" /\ UNCHANGED <<expires, faults, losses, broken>>

\* errno -6: parse_response sets m_tokenExpires to 0.
Rejected == access = "revoked" /\ expires' = "zero" /\ UNCHANGED <<faults, losses, broken>>

Faulty == faults < MaxFaults /\ faults' = faults + 1 /\ UNCHANGED expires

Failed == Faulty /\ broken' = TRUE /\ UNCHANGED losses

\* Variant for mutation: there is no second attempt.
AttemptIsFinal == pc' = "failed" /\ UNCHANGED attempt

\* One round of upload_file's loop came to nothing: another one only for a
\* rejected token that can be renewed.
AttemptFails ==
    IF attempt = 2 \/ expires' # "zero" \/ ~refreshable
    THEN pc' = "failed" /\ UNCHANGED attempt
    ELSE pc' = "token" /\ attempt' = attempt + 1

-----------------------------------------------------------------------------
\* upload_file is called, again after a failure.
Call ==
    /\ pc \in {"idle", "failed"}
    /\ pc' = "token" /\ attempt' = 1
    /\ losses' = 0 /\ broken' = FALSE /\ rejections' = IF access = "good" THEN 0 ELSE 1
    /\ UNCHANGED <<slices, directories, required, part, tries, token, drive, faults, revokes>>

\* The next archive of the queue.
Another ==
    /\ pc \in {"done", "failed"}
    /\ pc' = "idle" /\ slices' \in Sizes
    /\ session' = Empty /\ known' \in BOOLEAN /\ remote' = "old"
    /\ UNCHANGED <<attempt, directories, required, part, tries, token, faults, revokes, history>>

\* The drive revokes the token, or its time is over.
Revoke ==
    /\ revokes < MaxRevokes /\ revokes' = revokes + 1
    /\ access' = "revoked"
    /\ expires' \in {expires} \cup (IF expires = "ahead" THEN {"past"} ELSE {})
    /\ rejections' = rejections + 1
    /\ UNCHANGED <<client, refreshable, drive, faults, losses, broken>>

\* ensure_token: the token is good for 90 seconds more, or is renewed; the
\* renewal fails when it is not answered or cannot be saved.
EnsureToken ==
    /\ pc = "token"
    /\ \/ expires = "ahead" /\ pc' = "parent" /\ directories' = Directories
          /\ UNCHANGED <<expires, access, faults, losses, broken>>
       \/ expires # "ahead" /\ refreshable
          /\ pc' = "parent" /\ directories' = Directories
          /\ expires' = "ahead" /\ access' = "good"
          /\ UNCHANGED <<faults, losses, broken>>
       \/ expires # "ahead" /\ ~refreshable
          /\ pc' = "failed" /\ UNCHANGED <<directories, expires, access, faults, losses, broken>>
       \/ expires # "ahead" /\ refreshable /\ faults < MaxFaults
          /\ faults' = faults + 1 /\ broken' = TRUE /\ UNCHANGED losses
          /\ \/ UNCHANGED <<expires, access>>
             \/ expires' = "ahead" /\ access' = "good"
          /\ pc' = "failed" /\ UNCHANGED directories
    /\ UNCHANGED <<slices, attempt, required, part, tries, refreshable, drive, revokes, rejections>>

\* create_directory for one parent; one that exists already (-8) will do.
CreateDirectory ==
    /\ pc = "parent" /\ directories > 0
    /\ \/ Accepted /\ directories' = directories - 1 /\ UNCHANGED <<pc, attempt>>
       \/ (Rejected \/ Failed) /\ AttemptFails /\ UNCHANGED directories
    /\ UNCHANGED <<slices, required, part, tries, refreshable, access, drive, revokes, rejections>>

\* upload_file_once up to precreate: the file is small enough and readable.
HashSource ==
    /\ pc = "parent" /\ directories = 0
    /\ IF slices > MaxSlices
       THEN UNCHANGED <<expires, faults, losses, broken>> /\ AttemptFails
       ELSE \/ pc' = "precreate" /\ UNCHANGED <<attempt, expires, faults, losses, broken>>
            \/ Failed /\ AttemptFails
    /\ UNCHANGED <<slices, directories, required, part, tries, refreshable, access, drive, revokes,
                   rejections>>

\* return_type 2: the drive has the content and puts it in place at once.
RapidUpload ==
    /\ pc = "precreate" /\ known
    /\ \/ Accepted /\ pc' = "done" /\ UNCHANGED attempt
       \/ access = "good" /\ Failed /\ AttemptFails
    /\ remote' = "whole"
    /\ UNCHANGED <<slices, directories, required, part, tries, refreshable, access, session, known,
                   revokes, rejections>>

\* Variants for mutation: the slices named by the answer are skipped; its
\* entries are not looked at.
AllOthers(listed) == Parts \ listed
\* block_list, entries out of range dropped.
RequiredParts(listed) == listed \cap Parts

\* The drive starts a new upload or continues one, and names the slices it
\* does not have, others, or none at all (no block_list: all are required).
Precreate ==
    /\ pc = "precreate"
    /\ \/ /\ Accepted
          /\ session' \in {session, Empty}
          /\ \E listed \in SUBSET (0..slices) :
                /\ {p \in Parts : session'[p] # p} \subseteq listed
                /\ required' = RequiredParts(listed)
          /\ pc' = "slice" /\ UNCHANGED attempt
       \/ /\ Rejected \/ Failed
          /\ AttemptFails /\ UNCHANGED <<session, required>>
    /\ UNCHANGED <<slices, directories, part, tries, refreshable, access, known, remote, revokes,
                   rejections>>

NextSlice ==
    /\ pc = "slice" /\ required # {}
    /\ part' \in required /\ required' = required \ {part'}
    /\ tries' = 0 /\ pc' = "send"
    /\ UNCHANGED <<slices, attempt, directories, token, drive, faults, revokes, history>>

\* Variants for mutation: the answer's checksum is not looked at; a slice
\* is repeated without end.
SendUnverified ==
    /\ pc = "send"
    /\ \/ Accepted /\ session' = [session EXCEPT ![part] = part]
       \/ access = "good" /\ Failed /\ session' = [session EXCEPT ![part] = Garbled]
    /\ pc' = "slice" /\ UNCHANGED attempt
    /\ UNCHANGED <<slices, directories, required, part, tries, refreshable, access, known, remote,
                   revokes, rejections>>

RepeatForEver ==
    /\ pc = "send"
    /\ \/ Rejected /\ UNCHANGED session
       \/ /\ Faulty /\ losses' = losses + 1 /\ UNCHANGED broken
          /\ session' \in {session, [session EXCEPT ![part] = part]}
    /\ UNCHANGED <<client, refreshable, access, known, remote, revokes, rejections>>

\* upload_slice, answered with the checksum of what the drive received.
SendSlice ==
    /\ pc = "send"
    /\ \/ Accepted /\ session' = [session EXCEPT ![part] = part]
          /\ pc' = "slice" /\ UNCHANGED attempt
       \/ access = "good" /\ Failed /\ session' = [session EXCEPT ![part] = Garbled]
          /\ AttemptFails
    /\ UNCHANGED <<slices, directories, required, part, tries, refreshable, access, known, remote,
                   revokes, rejections>>

\* upload_slice fails; it is tried three times.
SliceFails ==
    /\ pc = "send"
    /\ \/ Rejected /\ UNCHANGED session
       \/ /\ Faulty /\ losses' = losses + 1 /\ UNCHANGED broken
          /\ session' \in {session} \cup
                (IF access = "good" THEN {[session EXCEPT ![part] = c] : c \in {part, Garbled}} ELSE {})
    /\ tries' = tries + 1
    /\ IF tries' < 3 THEN UNCHANGED <<pc, attempt>> ELSE AttemptFails
    /\ UNCHANGED <<slices, directories, required, part, refreshable, access, known, remote,
                   revokes, rejections>>

Assembled == IF \A p \in Parts : session[p] = p THEN "whole" ELSE "torn"

\* create: the drive puts the slices together; the answer may get lost.
Create ==
    /\ pc = "slice" /\ required = {}
    /\ \/ /\ Accepted /\ pc' = "done" /\ UNCHANGED attempt
          /\ remote' = Assembled /\ known' = (known \/ remote' = "whole")
       \/ /\ Rejected \/ Failed
          /\ AttemptFails /\ UNCHANGED <<remote, known>>
       \/ /\ access = "good" /\ Failed
          /\ AttemptFails
          /\ remote' = Assembled /\ known' = (known \/ remote' = "whole")
    /\ UNCHANGED <<slices, directories, required, part, tries, refreshable, access, session, revokes,
                   rejections>>

-----------------------------------------------------------------------------
Step ==
    \/ EnsureToken \/ CreateDirectory \/ HashSource \/ RapidUpload \/ Precreate
    \/ NextSlice \/ SendSlice \/ SliceFails \/ Create

Next == Call \/ Another \/ Revoke \/ Step

Spec == Init /\ [][Next]_vars

\* The thread that uploads keeps running; every request times out.
FairSpec == Spec /\ WF_vars(Step)

-----------------------------------------------------------------------------
(***************************************************************************)
(* Properties.                                                             *)
(***************************************************************************)
PC == {"idle", "token", "parent", "precreate", "slice", "send", "done", "failed"}

ClientType ==
    /\ pc \in PC /\ slices \in Sizes /\ attempt \in 1..2 /\ directories \in 0..Directories
    /\ required \subseteq Slice /\ part \in Slice /\ tries \in 0..3
    /\ pc \in {"slice", "send"} => required \subseteq Parts
    /\ pc = "send" => tries < 3
TokenType ==
    /\ expires \in {"ahead", "past", "zero"} /\ refreshable \in BOOLEAN
    /\ access \in {"good", "revoked"} /\ broken \in BOOLEAN
DriveType ==
    /\ session \in [Slice -> Slice \cup {Missing, Garbled}]
    /\ known \in BOOLEAN /\ remote \in {"old", "whole", "torn"}
CountType ==
    /\ faults \in 0..MaxFaults /\ revokes \in 0..MaxRevokes
    /\ losses \in 0..faults /\ rejections \in 0..revokes+1

TypeOK == ClientType /\ TokenType /\ DriveType /\ CountType

\* A slice that is neither to be sent nor being sent is on the drive
\* unaltered, whatever failed, was repeated or altered before: the
\* invariant the next two properties rest on.
SlicesKept ==
    pc \in {"slice", "send"} =>
        \A p \in Parts \ required : (pc = "send" /\ p = part) \/ session[p] = p

\* The drive is never told to put together anything but the archive: at the
\* remote path there is what was there before, or the whole archive.
NeverTorn == remote # "torn"

\* An upload is reported to have succeeded only if the archive is there.
DoneIsWhole == pc = "done" => remote = "whole"

Status == CASE pc \in {"idle", "done", "failed"} -> pc [] OTHER -> "busy"
Contract == INSTANCE UploadContract WITH status <- Status

\* upload_file does what process_pending_backups relies on.
ImplementsContract == Contract!Spec

\* An archive that is not too large and a login that can be renewed: the
\* upload survives one rejected token, at whatever request, and two failed
\* slice requests besides.
SurvivesOneRejection ==
    pc = "failed" /\ refreshable /\ slices <= MaxSlices =>
        rejections >= 2 \/ losses >= 3 \/ broken

\* A call comes to an end.
CallEnds == pc = "token" ~> pc \in {"done", "failed"}
=============================================================================
