--------------------------- MODULE FrontierGrant ---------------------------
(***************************************************************************)
(* Metered consultations (core/dispatcher/frontier_grant.py and            *)
(* frontier_consult.py): a call to a paid model needs one approved card,   *)
(* bound to one purpose, and spends it.  Consumers are processes of their  *)
(* own; each reads the clock, then the card, and then makes the one        *)
(* guarded transition that only one of them can win.                       *)
(*                                                                         *)
(* The owner's word reaches the card through a door: the decision pipeline *)
(* (_on_approve), or a direct call of store.approve with the card's own    *)
(* params, which is how the tests approve a grant.                         *)
(***************************************************************************)
EXTENDS PendingCards

CONSTANTS
    Consumer,    \* processes that consult
    NoCard,
    Purpose,     \* source, operation, purpose and model, as one value
    NoPurpose,
    Door,        \* the doors of an instance, a subset of {"pipeline", "direct"}
    MaxCrashes,  \* bound on crashes of one consumer or another
    Env          \* what else takes part: a subset of {"web", "sweep", "expiry"}

ASSUME GrantAssumption ==
    /\ Kind = {"plain"}
    /\ NoCard \notin Card /\ NoPurpose \notin Purpose
    /\ Door \subseteq {"pipeline", "direct"}
    /\ MaxCrashes \in Nat
    /\ Env \subseteq {"web", "sweep", "expiry"}

VARIABLES
    purposeOf,  \* the envelope in the card's params
    overdue,    \* the clock has passed the envelope's expires_at
    granted,    \* resolved_by_user_id: the owner approved the card
    reply,      \* the pipeline's handling of the owner's yes
    th,         \* each consumer: control point and local variables
    calls,      \* how often the paid model was called under the card
    callFor,    \* what the call was for
    crashes

gvars == <<purposeOf, overdue, granted, reply, th, calls, callFor, crashes>>
vars == <<cardVars, gvars>>

ConsumerPoint == {"idle", "get", "spend", "call", "settle"}
ConsumerState == [pc : ConsumerPoint, card : Card \cup {NoCard},
                  want : Purpose \cup {NoPurpose}, late : BOOLEAN, ok : BOOLEAN]
ReplyState == [pc : {"idle", "approve", "block"}, card : Card \cup {NoCard}]

Idle == [pc |-> "idle", card |-> NoCard, want |-> NoPurpose, late |-> FALSE, ok |-> FALSE]
NoReply == [pc |-> "idle", card |-> NoCard]

Init ==
    /\ StoreInit
    /\ purposeOf = [c \in Card |-> NoPurpose]
    /\ overdue = [c \in Card |-> FALSE]
    /\ granted = [c \in Card |-> FALSE]
    /\ reply = NoReply
    /\ th = [p \in Consumer |-> Idle]
    /\ calls = [c \in Card |-> 0]
    /\ callFor = [c \in Card |-> NoPurpose]
    /\ crashes = 0

At(p, point) == th[p].pc = point
On(p) == th[p].card
Goto(p, point) == th' = [th EXCEPT ![p].pc = point]
Leave(p) == th' = [th EXCEPT ![p] = Idle]

-----------------------------------------------------------------------------
(* request_authorization                                                   *)

\* A card outside any chat, whose state hash is that of its own envelope.
RequestAuthorization(want) ==
    /\ CreateCard(created + 1, "plain", NoChat, TRUE)
    /\ purposeOf' = [purposeOf EXCEPT ![created + 1] = want]
    /\ UNCHANGED <<overdue, granted, reply, th, calls, callFor, crashes>>

-----------------------------------------------------------------------------
(* The owner's answer                                                      *)

\* What a card's state_hash was taken over, and what the door compares it with:
\* the pipeline fingerprints the world (_fingerprint_for_action), a direct
\* caller passes the params again.
Hashed == "envelope"
Compared(door) == IF door = "pipeline" THEN "fingerprint" ELSE "envelope"

\* store.approve, by either door.
ApproveBy(door, c) ==
    /\ Approve(c, Compared(door) = Hashed)
    /\ granted' = [granted EXCEPT ![c] = (Compared(door) = Hashed)]

DirectApprove(c) ==
    /\ "direct" \in Door
    /\ ApproveBy("direct", c)
    /\ UNCHANGED <<purposeOf, overdue, reply, th, calls, callFor, crashes>>

\* The pipeline reads the awaiting card...
PipelineReply(c) ==
    /\ "pipeline" \in Door
    /\ reply.pc = "idle" /\ status[c] \in Awaiting
    /\ reply' = [pc |-> "approve", card |-> c]
    /\ UNCHANGED <<cardVars, purposeOf, overdue, granted, th, calls, callFor, crashes>>

\* ...approves it, which ends the reply when the card turns out stale...
PipelineApprove ==
    /\ reply.pc = "approve"
    /\ \/ ApproveBy("pipeline", reply.card) /\ reply' = NoReply
       \/ /\ Refused(reply.card, "approve")
          /\ reply' = [reply EXCEPT !.pc = "block"]
          /\ UNCHANGED granted
    /\ UNCHANGED <<purposeOf, overdue, th, calls, callFor, crashes>>

\* ...and blocks the card, even a running one, when it is not awaiting any more.
PipelineBlock ==
    /\ reply.pc = "block"
    /\ Block(reply.card) \/ Refused(reply.card, "block")
    /\ reply' = NoReply
    /\ UNCHANGED <<purposeOf, overdue, granted, th, calls, callFor, crashes>>

WebDeny(c) ==
    /\ "web" \in Env
    /\ Deny(c)
    /\ UNCHANGED gvars

ExpireAbandoned(c) ==
    /\ "sweep" \in Env
    /\ Expire(c)
    /\ UNCHANGED gvars

-----------------------------------------------------------------------------
(* consult: consume, call, settle                                          *)

\* consume reads the clock before it reads the card.
Consume(p, c, want) ==
    /\ At(p, "idle") /\ Exists(c)
    /\ th' = [th EXCEPT ![p] = [pc |-> "get", card |-> c, want |-> want,
                                late |-> overdue[c], ok |-> FALSE]]
    /\ UNCHANGED <<cardVars, purposeOf, overdue, granted, reply, calls, callFor, crashes>>

\* A mutant of CheckGrant: the binding is not compared.
CheckGrantUnbound(p) ==
    /\ At(p, "get")
    /\ IF status[On(p)] = "approved" /\ granted[On(p)] /\ ~th[p].late
       THEN Goto(p, "spend") ELSE Leave(p)
    /\ UNCHANGED <<cardVars, purposeOf, overdue, granted, reply, calls, callFor, crashes>>

\* The card is read once: approved, by the owner, for this purpose, in time.
\* Otherwise GrantRefused.
CheckGrant(p) ==
    /\ At(p, "get")
    /\ IF /\ status[On(p)] = "approved" /\ granted[On(p)]
          /\ purposeOf[On(p)] = th[p].want /\ ~th[p].late
       THEN Goto(p, "spend") ELSE Leave(p)
    /\ UNCHANGED <<cardVars, purposeOf, overdue, granted, reply, calls, callFor, crashes>>

\* mark_running: of all who passed the checks one wins.
Spend(p) ==
    /\ At(p, "spend")
    /\ \/ MarkRunning(On(p)) /\ Goto(p, "call")
       \/ Refused(On(p), "start") /\ Leave(p)
    /\ UNCHANGED <<purposeOf, overdue, granted, reply, calls, callFor, crashes>>

\* claude_tier.call, which answers or raises.
Call(p) ==
    /\ At(p, "call")
    /\ calls' = [calls EXCEPT ![On(p)] = @ + 1]
    /\ callFor' = [callFor EXCEPT ![On(p)] = th[p].want]
    /\ \E ok \in BOOLEAN : th' = [th EXCEPT ![p].pc = "settle", ![p].ok = ok]
    /\ UNCHANGED <<cardVars, purposeOf, overdue, granted, reply, crashes>>

\* A mutant of Settle: a call that failed gives the grant back.
SettleWithRefund(p) ==
    /\ At(p, "settle")
    /\ IF th[p].ok THEN MarkClosed(On(p), TRUE) \/ Refused(On(p), "close")
       ELSE \/ Transition(On(p), "close", "approved") /\ UNCHANGED <<remind, deferCount>>
            \/ Refused(On(p), "close")
    /\ Leave(p)
    /\ UNCHANGED <<purposeOf, overdue, granted, reply, calls, callFor, crashes>>

\* A mutant of Settle: only an answer is recorded.
SettleIfAnswered(p) ==
    /\ At(p, "settle")
    /\ IF th[p].ok THEN MarkClosed(On(p), TRUE) \/ Refused(On(p), "close") ELSE UNCHANGED cardVars
    /\ Leave(p)
    /\ UNCHANGED <<purposeOf, overdue, granted, reply, calls, callFor, crashes>>

\* settle: bookkeeping whose refusal is swallowed.
Settle(p) ==
    /\ At(p, "settle")
    /\ MarkClosed(On(p), th[p].ok) \/ Refused(On(p), "close")
    /\ Leave(p)
    /\ UNCHANGED <<purposeOf, overdue, granted, reply, calls, callFor, crashes>>

-----------------------------------------------------------------------------
(* The environment                                                         *)

Overdue(c) ==
    /\ "expiry" \in Env
    /\ Exists(c) /\ ~overdue[c]
    /\ overdue' = [overdue EXCEPT ![c] = TRUE]
    /\ UNCHANGED <<cardVars, purposeOf, granted, reply, th, calls, callFor, crashes>>

\* A consumer dies; what it spent stays spent.
Crash(p) ==
    /\ crashes < MaxCrashes /\ ~At(p, "idle")
    /\ crashes' = crashes + 1
    /\ Leave(p)
    /\ UNCHANGED <<cardVars, purposeOf, overdue, granted, reply, calls, callFor>>

-----------------------------------------------------------------------------
(* The specification                                                       *)

Consulting(p) == CheckGrant(p) \/ Spend(p) \/ Call(p) \/ Settle(p)

Next ==
    \/ \E want \in Purpose : RequestAuthorization(want)
    \/ \E c \in Card :
         \/ DirectApprove(c) \/ PipelineReply(c)
         \/ WebDeny(c) \/ ExpireAbandoned(c) \/ Overdue(c)
    \/ PipelineApprove \/ PipelineBlock
    \/ \E p \in Consumer :
         \/ \E c \in Card, want \in Purpose : Consume(p, c, want)
         \/ Consulting(p)
         \/ Crash(p)

Spec == Init /\ [][Next]_vars

\* A consumer that began goes on: the call has a timeout.
FairSpec == Spec /\ \A p \in Consumer : WF_vars(Consulting(p))

-----------------------------------------------------------------------------
(* Correctness                                                             *)

\* Types of the cards, the envelopes and the consumers' local variables.
TypeOK ==
    /\ StoreTypeOK
    /\ purposeOf \in [Card -> Purpose \cup {NoPurpose}]
    /\ overdue \in [Card -> BOOLEAN]
    /\ granted \in [Card -> BOOLEAN]
    /\ reply \in ReplyState
    /\ th \in [Consumer -> ConsumerState]
    /\ calls \in [Card -> Nat]
    /\ callFor \in [Card -> Purpose \cup {NoPurpose}]
    /\ crashes \in Nat

\* However many processes pass the checks for one grant, and whatever becomes of
\* the call, the paid model is called once under it at most: a call that failed
\* is no refund.
OneCallPerGrant == \A c \in Card : calls[c] <= 1

\* A call was made only under a card the owner himself approved, for the
\* purpose he approved, and never under one he denied or that expired.
CallsAreAuthorized ==
    \A c \in Card :
        calls[c] > 0 => /\ granted[c]
                        /\ callFor[c] = purposeOf[c]
                        /\ status[c] \notin {"denied", "expired"} \cup Awaiting

\* Nobody looks for a grant that was spent: as long as no consumer died, the one
\* that spent it is about to call or to settle.
OnlyACrashStrands ==
    crashes = 0 =>
        \A c \in Card :
            status[c] = "running" => \E p \in Consumer : On(p) = c /\ th[p].pc \in {"call", "settle"}

\* Unless its consumer dies, a spent grant is settled in the end.
SpentGrantsSettle ==
    \A c \in Card : (status[c] = "running") ~> (crashes > 0 \/ status[c] \in Terminal)

-----------------------------------------------------------------------------
(* Refinement                                                              *)

InHand(c) == \E p \in Consumer : At(p, "call") /\ On(p) = c

PhaseOf(c) ==
    IF ~Exists(c) THEN "none"
    ELSE IF calls[c] = 1 \/ InHand(c) \/ status[c] = "running" THEN "spent"
    ELSE IF status[c] \in Awaiting THEN "asked"
    ELSE IF status[c] = "approved" THEN "granted"
    ELSE "closed"

OneShot == INSTANCE OneShotApproval
               WITH phase <- [c \in Card |-> PhaseOf(c)], effects <- calls

\* A grant is the promise of OneShotApproval with the paid call as its effect.
ImplementsOneShot == OneShot!Spec

-----------------------------------------------------------------------------
(* What the repository says, and the code does not do                      *)

\* operator_user_boundary.py: the owner's resolution of the card mints the
\* grant; a card he answered yes to in time does not expire instead.
YesMintsAGrant ==
    [][\A c \in Card : reply.pc = "approve" /\ reply.card = c /\ reply'.pc = "idle" /\ ~overdue[c]
                       => status'[c] # "expired"]_vars
=============================================================================
