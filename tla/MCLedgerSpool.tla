--------------------------- MODULE MCLedgerSpool ----------------------------
(* Instances of LedgerSpool for TLC. *)
EXTENDS LedgerSpool, TLC

Threads == Permutations(Daemon)
=============================================================================
