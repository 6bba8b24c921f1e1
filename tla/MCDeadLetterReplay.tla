------------------------- MODULE MCDeadLetterReplay -------------------------
(* Instances of DeadLetterReplay for TLC. *)
EXTENDS DeadLetterReplay
=============================================================================
