-------------------------- MODULE LedgerAdmission ---------------------------
(***************************************************************************)
(* What the ledger promises about a submission, whatever program keeps the *)
(* promise: it may be kept in custody, it is admitted at most once and     *)
(* after its parent, or it is refused for good, and never both.            *)
(***************************************************************************)
EXTENDS Naturals, Sequences

CONSTANTS Sub, NoSub

VARIABLES
    ledger,     \* the admitted submissions, in order
    fate,       \* what became of each submission outside the ledger
    parent      \* the parent each submission names

avars == <<ledger, fate, parent>>

Admitted(s) == \E i \in 1..Len(ledger) : ledger[i] = s

Init ==
    /\ ledger = <<>>
    /\ fate = [s \in Sub |-> "none"]
    /\ parent = [s \in Sub |-> NoSub]

\* Submissions nobody has seen yet name their parents.
Name ==
    /\ parent' \in [Sub -> Sub \cup {NoSub}]
    /\ \A s \in Sub : parent'[s] # parent[s] => fate[s] = "none" /\ ~Admitted(s)
    /\ UNCHANGED <<ledger, fate>>

Keep(s) ==
    /\ fate[s] = "none"
    /\ fate' = [fate EXCEPT ![s] = "kept"]
    /\ UNCHANGED <<ledger, parent>>

Admit(s) ==
    /\ fate[s] # "refused" /\ ~Admitted(s)
    /\ parent[s] = NoSub \/ Admitted(parent[s])
    /\ ledger' = Append(ledger, s)
    /\ UNCHANGED <<fate, parent>>

Refuse(s) ==
    /\ fate[s] # "refused" /\ ~Admitted(s)
    /\ fate' = [fate EXCEPT ![s] = "refused"]
    /\ UNCHANGED <<ledger, parent>>

Next ==
    \/ Name
    \/ \E s \in Sub : Keep(s) \/ Admit(s) \/ Refuse(s)

Spec == Init /\ [][Next]_avars
=============================================================================
