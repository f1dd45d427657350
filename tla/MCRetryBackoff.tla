--------------------------- MODULE MCRetryBackoff ---------------------------
(* Instances of RetryBackoff for TLC. *)
EXTENDS RetryBackoff

\* The clock is set by two hours, or by less than the base delay.
MCJumps == {-7200, -250, 250, 7200}
=============================================================================
