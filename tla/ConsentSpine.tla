---------------------------- MODULE ConsentSpine ----------------------------
(***************************************************************************)
(* Conversational consent (core/consent/spine.py, core/consent/resolution  *)
(* .py and their place in daemon/inbound_core.py), over the decision       *)
(* pipeline: the owner says in a bound chat that he approves or denies, a  *)
(* surfacing asks him back with a token, and only a fresh echo of that     *)
(* token resolves the card, through the approve endpoint of the local HTTP *)
(* server or the deny of the card store.                                   *)
(*                                                                         *)
(* A turn takes its snapshot, hands over to the brain, and then runs to    *)
(* its end on the event loop without giving it up; only that loop writes   *)
(* the consent database, so handle_turn is one step.  The approve request  *)
(* is a client's: it is given up after ten seconds, and served all the     *)
(* same.  Surfacings are numbered in the order of their created_at.        *)
(***************************************************************************)
EXTENDS CardPipeline

CONSTANTS
    Turn,           \* owner turns in the bound chat
    BoundChat,      \* the chat of the active binding
    MaxSurfacings   \* bound on the surfacings ever created

Surfacing == 1..MaxSurfacings
NoSurfacing == 0

\* The spine is one of the clients of the HTTP server and of the card store:
\* the cockpit approves and the web process denies beside it.
ASSUME ConsentAssumption ==
    /\ BoundChat \in Chat /\ MaxSurfacings \in Nat
    /\ {"cockpit", "web"} \subseteq Env

VARIABLES
    surf,       \* consent_surfacing: card and state of each row
    late,       \* the row's expires_at has passed
    flow,       \* consent_flows: the binding's state
    due,        \* the flow's expires_at has passed
    said,       \* the decision a surfacing was echoed with
    attempts,   \* how often the surfacing's decision was put into effect
    http,       \* the approve request sent for a surfacing, and its answer
    receipt,    \* the outcome of the surfacing's consent receipt
    turn        \* each turn: control point and local variables

consent == <<surf, late, flow, due>>
cvars == <<consent, said, attempts, http, receipt, turn>>
allVars == <<vars, cvars>>

Tail == {"rails", "act", "wait", "reread", "mark"}

TurnState == [pc : {"idle", "brain"} \cup Tail, snap : SUBSET Card, gate : BOOLEAN,
              surf : Surfacing \cup {NoSurfacing}, ok : BOOLEAN]

NoTurn == [pc |-> "idle", snap |-> {}, gate |-> FALSE, surf |-> NoSurfacing, ok |-> FALSE]

ConsentInit ==
    /\ Init
    /\ surf = [s \in Surfacing |-> [card |-> NoCard, state |-> "none"]]
    /\ late = [s \in Surfacing |-> FALSE]
    /\ flow = "IDLE" /\ due = FALSE
    /\ said = [s \in Surfacing |-> "none"]
    /\ attempts = [s \in Surfacing |-> 0]
    /\ http = [s \in Surfacing |-> "none"]
    /\ receipt = [s \in Surfacing |-> "none"]
    /\ turn = [u \in Turn |-> NoTurn]

-----------------------------------------------------------------------------
(* Helpers                                                                 *)

Is(u, point) == turn[u].pc = point
Of(u) == turn[u].surf
Proceed(u, point) == turn' = [turn EXCEPT ![u].pc = point]
EndTurn(u) == turn' = [turn EXCEPT ![u] = NoTurn]

\* No turn is running on the event loop.
LoopFree == \A u \in Turn : turn[u].pc \notin Tail

\* _latest_surfacing: the row created last.
Latest == Cardinality({s \in Surfacing : surf[s].state # "none"})

\* The latest row is active and in time: what _expire_stale leaves of it.
Asking == Latest # NoSurfacing /\ surf[Latest].state = "active" /\ ~late[Latest]

\* active_flow_state.
FlowState ==
    IF Asking THEN "CARD_SURFACED"
    ELSE IF due THEN "IDLE" ELSE flow

\* _expire_stale: what handle_turn first makes of the rows past their time.
Stale(s) == surf[s].state = "active" /\ late[s]
Swept == [s \in Surfacing |-> IF Stale(s) THEN [surf[s] EXCEPT !.state = "expired"] ELSE surf[s]]
SweptFlow == IF due /\ flow \in {"PRIMED", "CARD_SURFACED"} THEN "IDLE" ELSE flow

\* _select_card: the one card the hint matches, or the only card there is.
Selected(open, matching) ==
    IF Cardinality(matching) = 1 THEN matching
    ELSE IF matching = {} /\ Cardinality(open) = 1 THEN open ELSE {}

-----------------------------------------------------------------------------
(* The head of a turn: one snapshot, then the brain                        *)

\* The open cards of the chat and the flow; either suppresses the legacy reply.
Snapshot(u) ==
    /\ Is(u, "idle") /\ LoopFree
    /\ turn' = [turn EXCEPT ![u] = [NoTurn EXCEPT !.pc = "brain",
                   !.snap = OpenCards(BoundChat),
                   !.gate = FlowState # "IDLE" \/ OpenCards(BoundChat) # {}]]
    /\ UNCHANGED <<vars, consent, said, attempts, http, receipt>>

\* record_refusal: the flow, not the surfacing.
RefuseFlow == flow' = "IDLE" /\ due' = FALSE

\* The brain fails: on a suppressed turn that is recorded as a refusal.
BrainFails(u) ==
    /\ Is(u, "brain") /\ LoopFree
    /\ IF turn[u].gate THEN RefuseFlow ELSE UNCHANGED <<flow, due>>
    /\ EndTurn(u)
    /\ UNCHANGED <<vars, surf, late, said, attempts, http, receipt>>

-----------------------------------------------------------------------------
(* handle_turn: the brain has read an intent                               *)

HandlesTurn(u) == Is(u, "brain") /\ LoopFree

\* A mutant of Echo: a surfacing past its time can still be echoed.
EchoLate(u, intent) ==
    /\ HandlesTurn(u)
    /\ Latest # NoSurfacing /\ surf[Latest].state \in {"active", "expired"}
    /\ surf' = [surf EXCEPT ![Latest].state = "resolving"]
    /\ flow' = "RESOLVING"
    /\ said' = [said EXCEPT ![Latest] = intent]
    /\ turn' = [turn EXCEPT ![u].pc = "rails", ![u].surf = Latest]
    /\ UNCHANGED <<vars, late, due, attempts, http, receipt>>

\* An echo names the latest row by its token or by a reply; intent and a fresh
\* utterance make it resolve.  A late one is refused (echo_expired).
Echo(u, intent) ==
    /\ HandlesTurn(u)
    /\ Asking
    /\ surf' = [surf EXCEPT ![Latest].state = "resolving"]
    /\ flow' = "RESOLVING"
    /\ said' = [said EXCEPT ![Latest] = intent]
    /\ turn' = [turn EXCEPT ![u].pc = "rails", ![u].surf = Latest]
    /\ UNCHANGED <<vars, late, due, attempts, http, receipt>>

\* surface_card: the binding's active row expires, a new one is asked.
SurfaceCard(c) ==
    /\ Latest < MaxSurfacings
    /\ surf' = [s \in Surfacing |->
                  IF s = Latest + 1 THEN [card |-> c, state |-> "active"]
                  ELSE IF surf[s].state = "active" THEN [surf[s] EXCEPT !.state = "expired"]
                  ELSE surf[s]]
    /\ late' = [late EXCEPT ![Latest + 1] = FALSE]
    /\ flow' = "CARD_SURFACED" /\ due' = FALSE

\* An approve or deny, or any utterance while primed, surfaces the card it can
\* only mean: one of the snapshot, whatever became of it since.
Surface(u, matching) ==
    /\ HandlesTurn(u)
    /\ ~Asking
    /\ \E c \in Selected(turn[u].snap, matching) : SurfaceCard(c)
    /\ EndTurn(u)
    /\ UNCHANGED <<vars, said, attempts, http, receipt>>

\* _prime: standing pre-consent, unless a primed flow has cards to choose from.
Prime(u) ==
    /\ HandlesTurn(u)
    /\ ~Asking
    /\ SweptFlow = "PRIMED" => turn[u].snap = {}
    /\ surf' = Swept
    /\ flow' = "PRIMED" /\ due' = FALSE
    /\ EndTurn(u)
    /\ UNCHANGED <<vars, late, said, attempts, http, receipt>>

\* No intent, a stale or ambiguous utterance: the rows past their time are
\* swept, and nothing else happens.
Unresolved(u) ==
    /\ HandlesTurn(u)
    /\ surf' = Swept
    /\ flow' = SweptFlow
    /\ EndTurn(u)
    /\ UNCHANGED <<vars, late, due, said, attempts, http, receipt>>

-----------------------------------------------------------------------------
(* resolve_consent_decision                                                *)

\* The card is read again: only an awaiting one goes on.
Rails(u) ==
    /\ Is(u, "rails")
    /\ IF status[surf[Of(u)].card] \in Awaiting
       THEN Proceed(u, "act") /\ UNCHANGED receipt
       ELSE Proceed(u, "mark") /\ receipt' = [receipt EXCEPT ![Of(u)] = "refused"]
    /\ UNCHANGED <<vars, consent, said, attempts, http>>

\* approve: the request to the HTTP server, which is waited for.
Request(u) ==
    /\ Is(u, "act") /\ said[Of(u)] = "approve"
    /\ http' = [http EXCEPT ![Of(u)] = "sent"]
    /\ attempts' = [attempts EXCEPT ![Of(u)] = @ + 1]
    /\ Proceed(u, "wait")
    /\ UNCHANGED <<vars, consent, said, receipt>>

\* deny: the card store itself.
ConsentDeny(u) ==
    /\ Is(u, "act") /\ said[Of(u)] = "deny"
    /\ \/ Deny(surf[Of(u)].card) /\ turn' = [turn EXCEPT ![u].pc = "reread", ![u].ok = TRUE]
       \/ Refused(surf[Of(u)].card, "deny") /\ turn' = [turn EXCEPT ![u].pc = "reread"]
    /\ attempts' = [attempts EXCEPT ![Of(u)] = @ + 1]
    /\ UNCHANGED <<th, stores, old, crashes, consent, said, http, receipt>>

Answer(u) ==
    /\ Is(u, "wait") /\ http[Of(u)] \in {"yes", "no"}
    /\ turn' = [turn EXCEPT ![u].pc = "reread", ![u].ok = (http[Of(u)] = "yes")]
    /\ UNCHANGED <<vars, consent, said, attempts, http, receipt>>

\* A mutant of Timeout: a request that is being served is waited for.
TimeoutInQueue(u) ==
    /\ Is(u, "wait") /\ http[Of(u)] = "sent"
    /\ Proceed(u, "reread")
    /\ UNCHANGED <<vars, consent, said, attempts, http, receipt>>

\* Ten seconds without an answer count as a refusal (503).
Timeout(u) ==
    /\ Is(u, "wait") /\ http[Of(u)] \in {"sent", "serving"}
    /\ Proceed(u, "reread")
    /\ UNCHANGED <<vars, consent, said, attempts, http, receipt>>

\* A mutant of Verdict: a card no longer awaiting is taken for a success.
VerdictByStatus(ok, st) == IF st \in Awaiting THEN "unconfirmed" ELSE "resolved"

\* The three parts of success: HTTP, upstream ok, and the card read again.
Verdict(ok, st) ==
    IF ~ok THEN "refused" ELSE IF st \in Awaiting THEN "unconfirmed" ELSE "resolved"

Reread(u) ==
    /\ Is(u, "reread")
    /\ receipt' = [receipt EXCEPT ![Of(u)] = Verdict(turn[u].ok, status[surf[Of(u)].card])]
    /\ Proceed(u, "mark")
    /\ UNCHANGED <<vars, consent, said, attempts, http>>

\* A mutant of Mark: a refused surfacing is made active again, to be retried.
MarkForRetry(u) ==
    /\ Is(u, "mark")
    /\ IF receipt[Of(u)] = "resolved"
       THEN /\ surf' = [surf EXCEPT ![Of(u)].state = "resolved"]
            /\ flow' = "RESOLVED" /\ UNCHANGED due
       ELSE RefuseFlow /\ surf' = [surf EXCEPT ![Of(u)].state = "active"]
    /\ EndTurn(u)
    /\ UNCHANGED <<vars, late, said, attempts, http, receipt>>

\* mark_resolved settles every row in RESOLVING; record_refusal none.
Mark(u) ==
    /\ Is(u, "mark")
    /\ IF receipt[Of(u)] = "resolved"
       THEN /\ surf' = [s \in Surfacing |-> IF surf[s].state = "resolving"
                                            THEN [surf[s] EXCEPT !.state = "resolved"]
                                            ELSE surf[s]]
            /\ flow' = "RESOLVED" /\ UNCHANGED due
       ELSE RefuseFlow /\ UNCHANGED surf
    /\ EndTurn(u)
    /\ UNCHANGED <<vars, late, said, attempts, http, receipt>>

-----------------------------------------------------------------------------
(* The HTTP server                                                         *)

\* The approve endpoint takes the next request: 409 or 403 at once, or the
\* pipeline's _on_approve.
Serve(s) ==
    /\ At(Cockpit, "idle") /\ http[s] = "sent"
    /\ IF status[surf[s].card] \in Awaiting /\ ~RequiresS7(surf[s].card)
       THEN Take(Cockpit, "judge", surf[s].card) /\ http' = [http EXCEPT ![s] = "serving"]
       ELSE http' = [http EXCEPT ![s] = "no"] /\ UNCHANGED th
    /\ UNCHANGED <<cardVars, stores, old, crashes, consent, said, attempts, receipt, turn>>

\* A mutant of Executed: whatever ended is reported as a success.
ExecutedAnyhow == TRUE

\* The handler runs on; when it ends, ok is whether the action was executed
\* with success (or the want recorded).
Executed == (At(Cockpit, "record") \/ At(Cockpit, "wantrecord")) /\ th[Cockpit].flag

ServeOn ==
    /\ Approving(Cockpit)
    /\ http' = [s \in Surfacing |->
                  IF http[s] = "serving" /\ th'[Cockpit].pc = "idle"
                  THEN IF Executed THEN "yes" ELSE "no"
                  ELSE http[s]]
    /\ UNCHANGED <<consent, said, attempts, receipt, turn>>

-----------------------------------------------------------------------------
(* The environment                                                         *)

\* A row's ten minutes are over, or a primed flow's hour.
Lapse ==
    /\ \/ /\ Latest # NoSurfacing /\ ~late[Latest]
          /\ late' = [late EXCEPT ![Latest] = TRUE]
          /\ due' = (due \/ flow \in {"CARD_SURFACED", "RESOLVING", "RESOLVED"})
       \/ /\ flow = "PRIMED" /\ ~due
          /\ due' = TRUE /\ UNCHANGED late
    /\ UNCHANGED <<vars, surf, flow, said, attempts, http, receipt, turn>>

\* The daemon dies with its turns and its HTTP server.
ConsentCrash ==
    /\ Crash
    /\ turn' = [u \in Turn |-> NoTurn]
    /\ http' = [s \in Surfacing |-> IF http[s] \in {"sent", "serving"} THEN "no" ELSE http[s]]
    /\ UNCHANGED <<consent, said, attempts, receipt>>

\* The rest of the pipeline: proposals, the cockpit's own approvals, the web's
\* denials.  The replies of handle_reply do not reach a bound chat.
Elsewhere ==
    /\ \/ \E t \in Thread, k \in Kind : Propose(t, k, BoundChat, FALSE)
       \/ \E t \in Thread : Present(t)
       \/ \E c \in Card : CockpitApprove(c) \/ WebDeny(c)
    /\ UNCHANGED cvars

-----------------------------------------------------------------------------
(* The specification                                                       *)

Handling(u) ==
    \/ \E intent \in {"approve", "deny"} : Echo(u, intent)
    \/ \E matching \in SUBSET turn[u].snap : Surface(u, matching)
    \/ Prime(u) \/ Unresolved(u) \/ BrainFails(u)

Resolving(u) ==
    \/ Rails(u) \/ Request(u) \/ ConsentDeny(u) \/ Answer(u) \/ Timeout(u)
    \/ Reread(u) \/ Mark(u)

ConsentNext ==
    \/ \E u \in Turn : Snapshot(u) \/ Handling(u) \/ Resolving(u)
    \/ \E s \in Surfacing : Serve(s)
    \/ ServeOn
    \/ Elsewhere
    \/ Lapse
    \/ ConsentCrash

ConsentSpec == ConsentInit /\ [][ConsentNext]_allVars

\* The event loop goes on with a turn that is resolving: the request to the
\* HTTP server has a timeout.
FairConsentSpec == ConsentSpec /\ \A u \in Turn : WF_allVars(Resolving(u))

-----------------------------------------------------------------------------
(* Correctness                                                             *)

\* Types of the consent database, the requests and the turns.
ConsentTypeOK ==
    /\ TypeOK
    /\ surf \in [Surfacing -> [card : Card \cup {NoCard},
                  state : {"none", "active", "expired", "resolving", "resolved"}]]
    /\ late \in [Surfacing -> BOOLEAN]
    /\ flow \in {"IDLE", "PRIMED", "CARD_SURFACED", "RESOLVING", "RESOLVED"}
    /\ due \in BOOLEAN
    /\ said \in [Surfacing -> {"none", "approve", "deny"}]
    /\ attempts \in [Surfacing -> Nat]
    /\ http \in [Surfacing -> {"none", "sent", "serving", "yes", "no"}]
    /\ receipt \in [Surfacing -> {"none", "resolved", "unconfirmed", "refused"}]
    /\ turn \in [Turn -> TurnState]

\* One answer to one question: whatever timeouts, refusals and crashes follow,
\* what the owner said to a surfacing is put into effect at most once.
OneAttemptPerSurfacing == \A s \in Surfacing : attempts[s] <= 1

\* A receipt that claims success is true of the card, whoever else was acting
\* on it: an approval ran (or its want was recorded), a denial closed the card.
ReceiptTellsTheTruth ==
    \A s \in Surfacing :
        receipt[s] = "resolved" =>
            IF said[s] = "approve"
            THEN runs[surf[s].card] = 1 \/ satisfied[surf[s].card]
            ELSE status[surf[s].card] = "denied"

\* A question that expired, was superseded or was resolved is never answered
\* again, and an answered one is not asked anew.
SettledSurfacingsStay ==
    [][\A s \in Surfacing :
        /\ surf[s].state \in {"expired", "resolved"} => surf'[s] = surf[s]
        /\ surf[s].state = "resolving" => surf'[s].state \in {"resolving", "resolved"}]_allVars

\* An answer that has no receipt yet is in the hands of a turn that will write
\* one: only a crash of the daemon leaves an answer without.
EchoesAreInHand ==
    crashes = 0 =>
        \A s \in Surfacing :
            surf[s].state = "resolving" /\ receipt[s] = "none"
            => \E u \in Turn : Of(u) = s /\ turn[u].pc \in Tail \ {"mark"}

\* An echo is answered with a receipt, although the HTTP server may be busy for
\* good, unless the daemon dies.
EchoesGetReceipts ==
    \A s \in Surfacing :
        (surf[s].state = "resolving") ~> (receipt[s] # "none" \/ crashes > 0)
=============================================================================
