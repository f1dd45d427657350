--------------------------- MODULE MCBackupQueue ---------------------------
(* Instances of BackupQueue for TLC. *)
EXTENDS BackupQueue

\* Totals that coincide for every second version.
MCDigest == [v \in 0..MaxVersion |-> v % 2]
=============================================================================
