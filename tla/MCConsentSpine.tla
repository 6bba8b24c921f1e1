--------------------------- MODULE MCConsentSpine ---------------------------
EXTENDS ConsentSpine, TLC

\* Turns are interchangeable.
Turns == Permutations(Turn)
=============================================================================
