-------------------------- MODULE MCFrontierGrant --------------------------
(* Instances of FrontierGrant for TLC. *)
EXTENDS FrontierGrant, TLC

Interchangeable == Permutations(Consumer) \cup Permutations(Purpose)
=============================================================================
