--------------------------- MODULE UploadContract ---------------------------
(***************************************************************************)
(* What the callers of BaiduClient::upload_file rely on, without requests, *)
(* slices or tokens: the file at the remote path is replaced as a whole or *)
(* not at all, at any moment of the call, and the call returns true only   *)
(* when the drive has the archive.  A call that returns false leaves open  *)
(* whether it has.                                                         *)
(***************************************************************************)
VARIABLES
    status,    \* "idle", "busy", "done" or "failed"
    remote     \* what is at the remote path: "old" or "whole"

contract == <<status, remote>>

Init == status = "idle" /\ remote = "old"

Call ==
    /\ status \in {"idle", "failed"}
    /\ status' = "busy"
    /\ UNCHANGED remote

\* The next archive has another remote path.
Another ==
    /\ status \in {"done", "failed"}
    /\ status' = "idle" /\ remote' = "old"

Arrive ==
    /\ status = "busy"
    /\ remote' = "whole"
    /\ status' \in {"busy", "done", "failed"}

Return ==
    /\ status = "busy"
    /\ \/ status' = "failed"
       \/ status' = "done" /\ remote = "whole"
    /\ UNCHANGED remote

Next == Call \/ Another \/ Arrive \/ Return

Spec == Init /\ [][Next]_contract
=============================================================================
