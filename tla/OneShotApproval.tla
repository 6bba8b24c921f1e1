-------------------------- MODULE OneShotApproval ---------------------------
(***************************************************************************)
(* What the owner is promised about an approval card, whatever program     *)
(* keeps the promise: a card is asked, at most granted, its grant is spent *)
(* at most once, and only a spent grant has its one effect.  A card may be *)
(* closed at any time before its effect; nothing follows a closed card.    *)
(***************************************************************************)
EXTENDS Naturals

CONSTANT Card

VARIABLES
    phase,      \* how far each card has come
    effects     \* how often each card's action has taken effect

avars == <<phase, effects>>

Phase == {"none", "asked", "granted", "spent", "closed"}

Init ==
    /\ phase = [c \in Card |-> "none"]
    /\ effects = [c \in Card |-> 0]

\* A new card is asked; the cards it supersedes are closed with the same step.
Ask(c, superseded) ==
    /\ phase[c] = "none"
    /\ \A d \in superseded : phase[d] = "asked"
    /\ phase' = [d \in Card |-> IF d = c THEN "asked"
                                ELSE IF d \in superseded THEN "closed" ELSE phase[d]]
    /\ UNCHANGED effects

Grant(c) ==
    /\ phase[c] = "asked"
    /\ phase' = [phase EXCEPT ![c] = "granted"]
    /\ UNCHANGED effects

Spend(c) ==
    /\ phase[c] = "granted"
    /\ phase' = [phase EXCEPT ![c] = "spent"]
    /\ UNCHANGED effects

Act(c) ==
    /\ phase[c] = "spent" /\ effects[c] = 0
    /\ effects' = [effects EXCEPT ![c] = 1]
    /\ UNCHANGED phase

\* Cards are refused, expire or lapse; a crash lets several lapse at once.
Close(S) ==
    /\ \A c \in S : phase[c] \in {"asked", "granted", "spent"} /\ effects[c] = 0
    /\ phase' = [c \in Card |-> IF c \in S THEN "closed" ELSE phase[c]]
    /\ UNCHANGED effects

Next ==
    \/ \E c \in Card : \/ \E S \in SUBSET Card : Ask(c, S)
                       \/ Grant(c) \/ Spend(c) \/ Act(c)
    \/ \E S \in SUBSET Card : Close(S)

Spec == Init /\ [][Next]_avars
=============================================================================
