---------------------------- MODULE LedgerStore -----------------------------
(***************************************************************************)
(* What the ledger keeps on disk: the chained turns table (core/ledger/    *)
(* writer.py), the admission spool's directories (core/ledger/spool.py)    *)
(* and the dead-letter sidecars, with the two environment flags that gate  *)
(* them.  Every operation here is one atomic step of the file system or of *)
(* SQLite: a rename, an fsynced append or a transaction.                   *)
(*                                                                         *)
(* A life is one thing to be recorded, numbered in the order it is lived.  *)
(* It can be written down under two identities: the attempt_id minted when *)
(* recording begins, and the submission_id that spool.enqueue mints.       *)
(***************************************************************************)
EXTENDS Naturals, Sequences

CONSTANTS
    MaxLives,   \* bound on the lives lived
    NoSub,      \* the parent of a submission without one
    Faults,     \* the operations that may fail, a subset of FaultPoint
    MaxFaults   \* bound on failures

Life == 1..MaxLives
Attempt(l) == <<l, "attempt">>
Spooled(l) == <<l, "spool">>
Sub == Life \X {"attempt", "spool"}
LifeOf(s) == s[1]

FaultPoint == {"commit", "enqueue", "ack", "quarantine", "lookup", "deadletter"}

\* What a submission's bytes amount to at the doors: "good" is admitted, the
\* writer refuses "invalid", the file of "garbled" was edited after it was
\* published, and "marker" sets a write-once meta key, an authority kwarg.
Payload == {"good", "invalid", "garbled", "marker"}

ASSUME LedgerAssumption ==
    /\ MaxLives \in Nat /\ MaxFaults \in Nat
    /\ NoSub \notin Sub
    /\ Faults \subseteq FaultPoint

VARIABLES
    lives,      \* how many lives have been lived
    payload,    \* the bytes of each life
    edge,       \* the parent a submission names, itself a submission
    chain,      \* the submissions of the turns table, in chain order
    marked,     \* the meta row of the persistence marker is set
    place,      \* the directory each envelope is in
    receipts,   \* submissions with a receipt in acked/
    sidecars,   \* submissions with an error sidecar in refused/
    dead,       \* the category of each life's dead-letter record
    writes,     \* MAEZ_LEDGER_WRITES
    paused,     \* MAEZ_LEDGER_COMMITS_PAUSED
    faults      \* failures so far

turns == <<chain, marked>>
files == <<place, receipts, sidecars>>
flags == <<writes, paused>>
born == <<lives, payload, edge>>
ledgerVars == <<born, turns, files, dead, flags, faults>>

Place == {"none", "pending", "acked", "refused"}
Category == {"failed", "refused"}

StoreInit ==
    /\ lives = 0
    /\ payload = [l \in Life |-> "good"]
    /\ edge = [s \in Sub |-> NoSub]
    /\ chain = <<>>
    /\ marked \in BOOLEAN
    /\ place = [s \in Sub |-> "none"]
    /\ receipts = {} /\ sidecars = {}
    /\ dead = [l \in Life |-> "none"]
    /\ writes = TRUE /\ paused = FALSE
    /\ faults = 0

StoreTypeOK ==
    /\ lives \in 0..MaxLives
    /\ payload \in [Life -> Payload]
    /\ edge \in [Sub -> Sub \cup {NoSub}]
    /\ chain \in Seq(Sub)
    /\ marked \in BOOLEAN
    /\ place \in [Sub -> Place]
    /\ receipts \subseteq Sub /\ sidecars \subseteq Sub
    /\ dead \in [Life -> Category \cup {"none"}]
    /\ writes \in BOOLEAN /\ paused \in BOOLEAN
    /\ faults \in 0..MaxFaults

-----------------------------------------------------------------------------
(* Failures                                                                *)

Fault(point) ==
    /\ point \in Faults /\ faults < MaxFaults
    /\ faults' = faults + 1

NoFault == UNCHANGED faults

-----------------------------------------------------------------------------
(* The turns table                                                         *)

Committed(s) == \E i \in 1..Len(chain) : chain[i] = s

\* A mutant of Resolved: a parent still in custody will do.
ResolvedInCustody(s) ==
    edge[s] # NoSub => Committed(edge[s]) \/ place[edge[s]] # "none"


\* The parent edge of s can be stored: its parent's turn exists.
Resolved(s) == edge[s] = NoSub \/ Committed(edge[s])

\* A mutant of WriterRefuses: the marker is not looked up in the transaction.
WriterRefusesPayload(s) == payload[LifeOf(s)] = "invalid"

\* ValueError or TaintStampingRefusal: the payload breaks the per-kind
\* contract, or its one-time marker is already set.
WriterRefuses(s) ==
    \/ payload[LifeOf(s)] = "invalid"
    \/ payload[LifeOf(s)] = "marker" /\ marked /\ ~Committed(s)

\* A mutant of WriteTurn: submission_id is not UNIQUE.
WriteTurnAgain(s) ==
    /\ ~WriterRefuses(s)
    /\ chain' = Append(chain, s)
    /\ marked' = (marked \/ payload[LifeOf(s)] = "marker")

\* write_turn: the INSERT, the head pointer and the marker in one transaction.
\* The UNIQUE submission_id turns a redrive into the turn already there.
WriteTurn(s) ==
    /\ ~WriterRefuses(s)
    /\ chain' = IF Committed(s) THEN chain ELSE Append(chain, s)
    /\ marked' = (marked \/ payload[LifeOf(s)] = "marker")

\* A mutant of OwnerCommit: every exception of the writer is a refusal.
OwnerCommitRefuses(s, outcome) ==
    \/ outcome = "failed" /\ ~writes /\ UNCHANGED turns /\ NoFault
    \/ outcome = "acked" /\ writes /\ WriteTurn(s) /\ NoFault
    \/ outcome = "refused" /\ writes /\ WriterRefuses(s) /\ UNCHANGED turns /\ NoFault
    \/ outcome = "refused" /\ writes /\ Fault("commit") /\ (UNCHANGED turns \/ WriteTurn(s))

\* owner_commit, under the owner's lock: the writes flag is read, the pause
\* flag is not.  An exception from the writer may come before or after the
\* transaction became durable.
OwnerCommit(s, outcome) ==
    \/ outcome = "failed" /\ ~writes /\ UNCHANGED turns /\ NoFault
    \/ outcome = "acked" /\ writes /\ WriteTurn(s) /\ NoFault
    \/ outcome = "refused" /\ writes /\ WriterRefuses(s) /\ UNCHANGED turns /\ NoFault
    \/ outcome = "failed" /\ writes /\ Fault("commit") /\ (UNCHANGED turns \/ WriteTurn(s))

-----------------------------------------------------------------------------
(* The spool and the dead-letter sidecars                                  *)

\* _atomic_publish into pending/; an identity already published under the
\* producer is never overwritten.
Publish(s) ==
    place' = IF place[s] = "none" THEN [place EXCEPT ![s] = "pending"] ELSE place

\* A publication that raises has, or has not, reached its rename.
PublishFails(s) == Fault("enqueue") /\ (Publish(s) \/ UNCHANGED place)

Move(s, directory) == place' = [place EXCEPT ![s] = directory]

\* _dead_letter: one fsynced line with the life's attempt_id and its parent.
DeadLetter(l, category) == dead' = [dead EXCEPT ![l] = category]
=============================================================================
