-------------------------- MODULE DeadLetterReplay --------------------------
(***************************************************************************)
(* The replay of dead letters (core/ledger/dead_letter_replay.py): a tool  *)
(* an operator runs in a process of its own while the daemon, the surfaces *)
(* and the drainer go on.  From the sidecars, the spool and the ledger it  *)
(* builds a manifest of what a failed write left out; applying the         *)
(* manifest publishes each body under the identity its attempt had, and a  *)
(* companion for each body whose turn is observed.  Only the drainer ever  *)
(* commits.  The tool may die at any step.                                 *)
(*                                                                         *)
(* A body is published under a producer of its own; here it stands in the  *)
(* directory its attempt would have been held in.  A companion is a        *)
(* submission without a parent, whose way through the doors is that of any *)
(* other: only its publication is modelled.                                *)
(***************************************************************************)
EXTENDS LedgerSpool

CONSTANT MaxRuns    \* bound on the manifests built

ASSUME ReplayAssumption == MaxRuns \in Nat

VARIABLES
    op,         \* the operator's process
    runs,       \* manifests built so far
    clocked,    \* the submissions whose turn carries a submitted_at
    unjoined,   \* the lives whose record keeps the parent outside its kwargs
    distant,    \* the lives whose byte twin committed long after their record
    replayed,   \* the lives whose body this tool has published
    companions  \* the lives whose companion it has published

records == <<clocked, unjoined, distant>>
published == <<replayed, companions>>
replayVars == <<vars, op, runs, records, published>>

OperatorState == [pc : {"idle", "built", "apply", "publish"}, head : Nat,
                  bodies : SUBSET Life, notes : SUBSET Life, sent : SUBSET Life,
                  now : Life \cup {NoLife}]

IdleOperator == [pc |-> "idle", head |-> 0, bodies |-> {}, notes |-> {}, sent |-> {},
                 now |-> NoLife]

ReplayInit ==
    /\ Init
    /\ op = IdleOperator /\ runs = 0
    /\ clocked = {} /\ unjoined = {} /\ distant = {}
    /\ replayed = {} /\ companions = {}

-----------------------------------------------------------------------------
(* What the rest of the system leaves behind for the tool                  *)

NewTurns == {s \in Sub : Committed(s)' /\ ~Committed(s)}

\* The drainer passes the envelope's lived time on, the direct lane none.  A
\* failed enqueue has its parent's submission recorded beside the kwargs.  The
\* envelope such an enqueue published after all is a byte twin of the record:
\* it may wait for its turn longer than WINDOW_S.
Leaves ==
    /\ clocked' = IF th' = th THEN clocked \cup NewTurns ELSE clocked
    /\ unjoined' = unjoined \cup {l \in Life : /\ dead'[l] # dead[l]
                                              /\ \E t \in Thread : On(t) = l /\ th[t].why = "custody"}
    /\ distant' \in {distant, distant \cup {l \in Life : /\ Spooled(l) \in NewTurns
                                                        /\ dead[l] = "failed"}}
    /\ UNCHANGED <<op, runs, published>>

-----------------------------------------------------------------------------
(* classify: what became of a dead letter                                  *)

\* A failed write that is in no directory and no turn.  A byte twin is seen
\* when it has committed, within WINDOW_S of the record: then the record is
\* possibly_committed and withheld.
Replayable(l) ==
    /\ dead[l] = "failed"
    /\ ~Committed(Attempt(l)) /\ place[Attempt(l)] = "none"
    /\ Committed(Spooled(l)) => l \in distant

\* A mutant of BodyIsOurs: the identity has a turn, whoever wrote it.
BodyCommitted(l) == dead[l] = "failed" /\ Committed(Attempt(l))

\* The body's turn is observed, its envelope is this tool's, and the turn
\* carries a lived time, as no turn of the direct lane does.
BodyIsOurs(l) ==
    /\ dead[l] = "failed"
    /\ Committed(Attempt(l)) /\ Attempt(l) \in clocked
    /\ place[Attempt(l)] \in {"pending", "acked"}

CompanionOwed(l) == BodyIsOurs(l) /\ l \notin companions

Bodies == {l \in Life : Replayable(l)}
Owed == {l \in Life : CompanionOwed(l)}

-----------------------------------------------------------------------------
(* build_manifest and apply                                                *)

\* The census is read-only; a run that selects nothing does nothing.
BuildManifest ==
    /\ op.pc = "idle" /\ runs < MaxRuns
    /\ Bodies \cup Owed # {}
    /\ runs' = runs + 1
    /\ op' = [IdleOperator EXCEPT !.pc = "built", !.head = Len(chain), !.bodies = Bodies,
                                  !.notes = Owed]
    /\ UNCHANGED <<vars, records, published>>

\* Under the apply lock: the chain has not advanced and the live census still
\* selects what the manifest does; then the manifest is spent, before the
\* first mutation.  A refused manifest stays refused: chains only grow.
Apply ==
    /\ op.pc = "built"
    /\ op' = IF op.head = Len(chain) /\ op.bodies = Bodies /\ op.notes = Owed
             THEN [op EXCEPT !.pc = "apply", !.head = 0] ELSE IdleOperator
    /\ UNCHANGED <<vars, runs, records, published>>

\* Each body is guarded by a census of its own, and refused by name when its
\* record holds an authority kwarg.
GuardBody(l) ==
    /\ op.pc = "apply" /\ l \in op.bodies
    /\ op' = IF Replayable(l) /\ ~Authority(Attempt(l))
             THEN [op EXCEPT !.pc = "publish", !.now = l, !.bodies = @ \ {l}]
             ELSE [op EXCEPT !.bodies = @ \ {l}]
    /\ UNCHANGED <<vars, runs, records, published>>

\* A mutant of ReplayedEdge: the parent is never looked for.
ReplayedAlone(l) == NoSub

\* build_body_submission takes the parent from the record's kwargs, where a
\* failed enqueue has none.
ReplayedEdge(l) == IF l \in unjoined THEN NoSub ELSE edge[Attempt(l)]

\* enqueue_reconstructed: the body's envelope, under its attempt's identity; an
\* identity already published is left as it is.
Reconstruct(l) ==
    LET new == place[Attempt(l)] = "none"
    IN /\ Publish(Attempt(l))
       /\ edge' = IF new THEN [edge EXCEPT ![Attempt(l)] = ReplayedEdge(l)] ELSE edge
       /\ replayed' = IF new THEN replayed \cup {l} ELSE replayed

\* The body is published; or its parent's turn cannot be looked up, or the
\* publication raises, before or after its rename.
PublishBody ==
    /\ op.pc = "publish"
    /\ \/ /\ Reconstruct(op.now) /\ NoFault
          /\ op' = [op EXCEPT !.pc = "apply", !.now = NoLife, !.sent = @ \cup {op.now}]
       \/ /\ \E point \in {"lookup", "enqueue"} :
                 /\ Fault(point)
                 /\ \/ UNCHANGED <<place, edge, replayed>>
                    \/ point = "enqueue" /\ Reconstruct(op.now)
          /\ op' = [op EXCEPT !.pc = "apply", !.now = NoLife]
    /\ UNCHANGED <<lives, payload, turns, receipts, sidecars, dead, flags, th, result, drain, env,
                   runs, records, companions>>

\* The companions the manifest owes come first, then those of the bodies just
\* published, should their turn be there already.
ToAnnotate == IF op.notes # {} THEN op.notes ELSE op.sent

\* A companion is published against an observed turn, or deferred.
Annotate(l) ==
    /\ op.pc = "apply" /\ op.bodies = {} /\ l \in ToAnnotate
    /\ op' = [op EXCEPT !.notes = @ \ {l}, !.sent = IF op.notes # {} THEN @ ELSE @ \ {l}]
    /\ \/ companions' = (IF BodyIsOurs(l) THEN companions \cup {l} ELSE companions) /\ NoFault
       \/ BodyIsOurs(l) /\ Fault("enqueue") /\ companions' \in {companions, companions \cup {l}}
    /\ UNCHANGED <<born, turns, files, dead, flags, th, result, drain, env, runs, records, replayed>>

EndRun ==
    /\ op.pc = "apply" /\ op.bodies = {} /\ ToAnnotate = {}
    /\ op' = IdleOperator
    /\ UNCHANGED <<vars, runs, records, published>>

\* The tool dies; what it had in memory is gone, a spent manifest stays spent.
OperatorDies ==
    /\ op.pc # "idle"
    /\ op' = IdleOperator
    /\ UNCHANGED <<vars, runs, records, published>>

Operator ==
    \/ BuildManifest \/ Apply \/ PublishBody \/ EndRun \/ OperatorDies
    \/ \E l \in Life : GuardBody(l) \/ Annotate(l)

ReplayNext == (Next /\ Leaves) \/ Operator

ReplaySpec == ReplayInit /\ [][ReplayNext]_replayVars

\* The drainer polls on and the flags are cleared; nobody has to run the tool.
FairReplaySpec ==
    ReplaySpec /\ WF_replayVars(Drain /\ Leaves) /\ WF_replayVars(ClearFlag /\ Leaves)

-----------------------------------------------------------------------------
(* Correctness                                                             *)

\* Types of the ledger's files, the threads and the tool.
ReplayTypeOK ==
    /\ TypeOK
    /\ op \in OperatorState /\ runs \in 0..MaxRuns
    /\ clocked \subseteq Sub /\ unjoined \subseteq Life /\ distant \subseteq Life
    /\ replayed \subseteq Life /\ companions \subseteq Life

\* A companion says that a turn was replayed, and it was: the tool published
\* the body, and the turn is the body's.  It is never said of a write that had
\* committed after all and was reported failed.
CompanionsAreTrue == \A l \in companions : l \in replayed /\ Committed(Attempt(l))

\* A kept submission that is no turn loses its parent: its dead letter keeps
\* the parent outside the kwargs.
Orphaned ==
    \E l \in unjoined :
        /\ FateOf(Attempt(l)) = "kept" /\ ~Committed(Attempt(l))
        /\ edge' = [edge EXCEPT ![Attempt(l)] = NoSub]
        /\ UNCHANGED <<chain, [s \in Sub |-> FateOf(s)]>>

\* Admission with the tool at work: what it publishes was kept before, so that
\* to the ledger's promise it does nothing at all; only that a submission may
\* be orphaned.
ReplayAdmits == Admission!Init /\ [][Admission!Next \/ Orphaned]_(Admission!avars)

-----------------------------------------------------------------------------
(* What the repository says, and the code does not do                      *)

\* dead_letter_replay.py: publishing a body without its parent is not a
\* recovery but a structural rewrite, so a replayed body names the parent
\* that the life named.
ReplayKeepsParents == \A l \in replayed : edge[Attempt(l)] = edge[Spooled(l)]
=============================================================================
