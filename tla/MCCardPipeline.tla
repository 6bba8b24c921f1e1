--------------------------- MODULE MCCardPipeline ---------------------------
(* Instances of CardPipeline for TLC. *)
EXTENDS CardPipeline, TLC

Threads == Permutations(Thread)
=============================================================================
