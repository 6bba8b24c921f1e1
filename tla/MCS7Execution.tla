--------------------------- MODULE MCS7Execution ---------------------------
(* Instances of S7Execution for TLC. *)
EXTENDS S7Execution, TLC

Threads == Permutations(Thread)
=============================================================================
