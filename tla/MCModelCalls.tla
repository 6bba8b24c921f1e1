---------------------------- MODULE MCModelCalls ----------------------------
EXTENDS ModelCalls, TLC

CONSTANTS fg, bg

\* An owner's reply and the cycle's thought.
Priorities == (fg :> 100) @@ (bg :> 10)
=============================================================================
