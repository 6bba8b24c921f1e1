---------------------------- MODULE S7Execution ----------------------------
(***************************************************************************)
(* Self-modification cards: what the owner must touch a security key for   *)
(* (S7).  Such a card is kept in three databases at once: the card store,  *)
(* the dialog store (skills/self_mod_dialog.py) and the authority store    *)
(* (challenges and authorization artifacts).  The daemon's single-threaded *)
(* HTTP server runs the WebAuthn ceremony and the execute endpoint;        *)
(* executor threads answer the owner's messages in the same dialog; the    *)
(* web process denies cards and the daemon cycle expires them.             *)
(*                                                                         *)
(* A touch is one ceremony: its challenge, and the artifact minted from    *)
(* it.  The dialog's s7_artifact_id is written and read by the HTTP server *)
(* alone, within one request, and is therefore the request's own touch.    *)
(***************************************************************************)
EXTENDS PendingCards

CONSTANTS
    Thread,      \* executor threads: proposals and replies without authority
    NoCard,
    MaxTouches,  \* bound on the ceremonies begun
    MaxTroubles, \* bound on failures of the authority store and crashes together
    Env          \* what else takes part: a subset of Surroundings

Touch == 1..MaxTouches
NoTouch == 0

\* Parts of the surroundings an instance includes: the web process's deny, the
\* sweep of abandoned cards, artifacts that lapse, and a world that moves.
Surroundings == {"web", "sweep", "lapse", "drift"}

ASSUME S7Assumption ==
    /\ Kind = {"dialog"}
    /\ NoCard \notin Card
    /\ MaxTouches \in Nat /\ MaxTroubles \in Nat
    /\ Env \subseteq Surroundings

VARIABLES
    stage,      \* the dialog of each card
    challenge,  \* authority store: each touch's challenge
    artifact,   \* authority store: each touch's authorization artifact
    forCard,    \* the request_id both are bound to
    lapsed,     \* the touch's expires_at has passed
    http,       \* the request in progress on the HTTP server
    th,         \* each executor thread: control point and card
    runs,       \* how often the card's action was executed
    drift,      \* the world differs from the card's state fingerprint
    faults,
    crashes

authority == <<challenge, artifact, forCard, lapsed>>
bounds == <<faults, crashes>>
vars == <<cardVars, stage, authority, http, th, runs, drift, bounds>>

\* PROPOSED and CLARIFYING are "talking"; DENIED, CANCELLED and CAP_REACHED,
\* which all deny the card, are "denied".
Stage == {"none", "talking", "ratified", "denied", "executed", "failed", "blocked"}
TerminalStage == Stage \ {"none", "talking"}

HttpPoint == {"idle", "consume", "mint", "read", "ratify", "fresh", "stale", "approve",
              "will", "redeem", "transition", "commit", "recheck", "execute", "close",
              "seam", "refuse", "block", "dialogblock", "dialogend"}

HttpState == [pc : HttpPoint, card : Card \cup {NoCard}, touch : Touch \cup {NoTouch},
              flag : BOOLEAN]

ThreadPoint == {"idle", "link", "linkfail", "read", "reply", "block", "deny"}
ThreadState == [pc : ThreadPoint, card : Card \cup {NoCard}]

NoRequest == [pc |-> "idle", card |-> NoCard, touch |-> NoTouch, flag |-> FALSE]
IdleThread == [pc |-> "idle", card |-> NoCard]

Init ==
    /\ StoreInit
    /\ stage = [c \in Card |-> "none"]
    /\ challenge = [u \in Touch |-> "absent"]
    /\ artifact = [u \in Touch |-> "none"]
    /\ forCard = [u \in Touch |-> NoCard]
    /\ lapsed = [u \in Touch |-> FALSE]
    /\ http = NoRequest
    /\ th = [t \in Thread |-> IdleThread]
    /\ runs = [c \in Card |-> 0]
    /\ drift = [c \in Card |-> FALSE]
    /\ faults = 0
    /\ crashes = 0

-----------------------------------------------------------------------------
(* Control flow and helpers                                                *)

Serving(point) == http.pc = point
Then(point) == http' = [http EXCEPT !.pc = point]
Respond == http' = NoRequest

At(t, point) == th[t].pc = point
On(t) == th[t].card
Go(t, point) == th' = [th EXCEPT ![t].pc = point]
Leave(t) == th' = [th EXCEPT ![t] = IdleThread]

\* set_stage and set_blocked: plain UPDATEs, whatever the stage was.
SetStage(c, s) == stage' = [stage EXCEPT ![c] = s]

\* _s7_card_precondition_fresh.
Fresh(c) == ~bound[c] \/ ~drift[c]

\* The authority store fails: a lock, a full disk, an unverified file.
Fault == faults + crashes < MaxTroubles /\ faults' = faults + 1

-----------------------------------------------------------------------------
(* The ceremony                                                            *)

\* webauthn/begin: a challenge for an existing card, whatever its status.
Begin(u, c) ==
    /\ Serving("idle") /\ Exists(c)
    /\ challenge[u] = "absent" /\ \A v \in Touch : v < u => challenge[v] # "absent"
    /\ challenge' = [challenge EXCEPT ![u] = "issued"]
    /\ forCard' = [forCard EXCEPT ![u] = c]
    /\ UNCHANGED <<cardVars, stage, artifact, lapsed, http, th, runs, drift, bounds>>

\* webauthn/finish: the challenge is active and the assertion verifies.
Finish(u) ==
    /\ Serving("idle")
    /\ challenge[u] = "issued" /\ ~lapsed[u]
    /\ http' = [NoRequest EXCEPT !.pc = "consume", !.card = forCard[u], !.touch = u]
    /\ UNCHANGED <<cardVars, stage, authority, th, runs, drift, bounds>>

\* consume_challenge, in a transaction of its own...
ConsumeChallenge ==
    /\ Serving("consume")
    /\ \/ challenge' = [challenge EXCEPT ![http.touch] = "consumed"] /\ Then("mint")
          /\ UNCHANGED faults
       \/ Fault /\ Respond /\ UNCHANGED challenge
    /\ UNCHANGED <<cardVars, stage, artifact, forCard, lapsed, th, runs, drift, crashes>>

\* ...and then the artifact is inserted: a failure in between loses the touch.
Mint ==
    /\ Serving("mint")
    /\ \/ artifact' = [artifact EXCEPT ![http.touch] = "minted"] /\ UNCHANGED faults
       \/ Fault /\ UNCHANGED artifact
    /\ Respond
    /\ UNCHANGED <<cardVars, stage, challenge, forCard, lapsed, th, runs, drift, crashes>>

-----------------------------------------------------------------------------
(* The execute request                                                     *)

\* The request names a card and an artifact; the clock is read here, once, and
\* decides for the rest of the request whether the touch has lapsed.
ExecuteRequest(u, c) ==
    /\ Serving("idle") /\ Exists(c)
    /\ http' = [pc |-> "read", card |-> c, touch |-> u,
                flag |-> challenge[u] = "consumed" /\ forCard[u] = c /\ ~lapsed[u]]
    /\ UNCHANGED <<cardVars, stage, authority, th, runs, drift, bounds>>

\* handle_dialog_reply reloads the dialog: a terminal one takes no reply; a
\* card without a dialog is blocked.
ReadDialog ==
    /\ Serving("read")
    /\ IF stage[http.card] = "none" THEN Then("refuse")
       ELSE IF stage[http.card] \in TerminalStage THEN Respond
       ELSE Then("ratify")
    /\ UNCHANGED <<cardVars, stage, authority, th, runs, drift, bounds>>

\* "yes" with an authority context: the dialog is RATIFIED.
Ratify ==
    /\ Serving("ratify")
    /\ SetStage(http.card, "ratified")
    /\ Then("fresh")
    /\ UNCHANGED <<cardVars, authority, th, runs, drift, bounds>>

\* _s7_card_precondition_fresh after the ratification.
CheckFresh ==
    /\ Serving("fresh")
    /\ Then(IF Fresh(http.card) THEN "approve" ELSE "stale")
    /\ UNCHANGED <<cardVars, stage, authority, th, runs, drift, bounds>>

\* A stale card: first the dialog is blocked, then the card.
BlockStaleDialog ==
    /\ Serving("stale")
    /\ SetStage(http.card, "blocked")
    /\ Then("refuse")
    /\ UNCHANGED <<cardVars, authority, th, runs, drift, bounds>>

\* _block_s7_card with nothing to do afterwards.
RefuseCard ==
    /\ Serving("refuse")
    /\ Block(http.card) \/ Refused(http.card, "block")
    /\ Respond
    /\ UNCHANGED <<stage, authority, th, runs, drift, bounds>>

\* _on_approve hashes the state again.  A stale card expires; if the store
\* refuses even that, the error leaves the handler and the dialog stays as it is.
Approving ==
    /\ Serving("approve")
    /\ \/ Fresh(http.card) /\ Then("will") /\ UNCHANGED cardVars
       \/ ~Fresh(http.card) /\ Expire(http.card) /\ Then("dialogblock")
       \/ ~Fresh(http.card) /\ Refused(http.card, "expire") /\ Respond
    /\ UNCHANGED <<stage, authority, th, runs, drift, bounds>>

\* The will-I check denies the card when it refuses (an error is swallowed); a
\* failed preflight of the expected mutation blocks it.
WillAndPreflight ==
    /\ Serving("will")
    /\ \/ Then("redeem") /\ UNCHANGED cardVars
       \/ (Deny(http.card) \/ Refused(http.card, "deny")) /\ Then("dialogblock")
       \/ Then("block") /\ UNCHANGED cardVars
    /\ UNCHANGED <<stage, authority, th, runs, drift, bounds>>

\* A mutant of Redeem: the UPDATE does not ask for consumed_at IS NULL.
RedeemAgain ==
    /\ Serving("redeem")
    /\ \/ http.flag /\ artifact[http.touch] # "none" /\ Then("transition") /\ UNCHANGED faults
       \/ ~(http.flag /\ artifact[http.touch] # "none") /\ Then("block") /\ UNCHANGED faults
       \/ Fault /\ Then("seam")
    /\ UNCHANGED <<cardVars, stage, authority, th, runs, drift, crashes>>

\* A mutant of Redeem: the consumption is durable before the card has moved.
RedeemAtOnce ==
    /\ Serving("redeem")
    /\ \/ /\ http.flag /\ artifact[http.touch] = "minted"
          /\ artifact' = [artifact EXCEPT ![http.touch] = "consumed"]
          /\ Then("transition") /\ UNCHANGED faults
       \/ /\ ~(http.flag /\ artifact[http.touch] = "minted")
          /\ Then("block") /\ UNCHANGED <<artifact, faults>>
       \/ Fault /\ Then("seam") /\ UNCHANGED artifact
    /\ UNCHANGED <<cardVars, stage, challenge, forCard, lapsed, th, runs, drift, crashes>>

\* consume_for_execution: BEGIN IMMEDIATE and the guarded UPDATE, which is not
\* durable before Commit.  No row matches an artifact that is spent, that is
\* for another card, or that had lapsed when the request came.
Redeem ==
    /\ Serving("redeem")
    /\ \/ http.flag /\ artifact[http.touch] = "minted" /\ Then("transition") /\ UNCHANGED faults
       \/ ~(http.flag /\ artifact[http.touch] = "minted") /\ Then("block") /\ UNCHANGED faults
       \/ Fault /\ Then("seam")
    /\ UNCHANGED <<cardVars, stage, authority, th, runs, drift, crashes>>

\* A mutant of TransitionCard: a refusal by the card store goes unnoticed.
TransitionCardAnyway ==
    /\ Serving("transition")
    /\ LET c == http.card
       IN \/ /\ Transition(c, "approve", IF Fresh(c) THEN "running" ELSE "expired")
             /\ UNCHANGED <<remind, deferCount>>
             /\ http' = [http EXCEPT !.pc = "commit", !.flag = Fresh(c)]
          \/ Refused(c, "approve") /\ http' = [http EXCEPT !.pc = "commit", !.flag = Fresh(c)]
    /\ UNCHANGED <<stage, authority, th, runs, drift, bounds>>

\* after_consume_before_commit: approve_and_mark_running in the card store,
\* inside the open transaction of the authority store.  A stale card expires;
\* a card nobody awaits any more raises, which rolls the consumption back.
TransitionCard ==
    /\ Serving("transition")
    /\ LET c == http.card
       IN \/ /\ Transition(c, "approve", IF Fresh(c) THEN "running" ELSE "expired")
             /\ UNCHANGED <<remind, deferCount>>
             /\ http' = [http EXCEPT !.pc = "commit", !.flag = Fresh(c)]
          \/ Refused(c, "approve") /\ Then("seam")
    /\ UNCHANGED <<stage, authority, th, runs, drift, bounds>>

\* A mutant of Commit: a commit that fails is not noticed.
CommitUnheard ==
    /\ Serving("commit")
    /\ \/ artifact' = [artifact EXCEPT ![http.touch] = "consumed"] /\ UNCHANGED faults
       \/ Fault /\ UNCHANGED artifact
    /\ Then(IF http.flag THEN "recheck" ELSE "dialogblock")
    /\ UNCHANGED <<cardVars, stage, challenge, forCard, lapsed, th, runs, drift, crashes>>

\* The authority store commits, or fails and rolls back although the card's
\* transition is already durable.  The artifact of an expired card is spent.
Commit ==
    /\ Serving("commit")
    /\ \/ /\ artifact' = [artifact EXCEPT ![http.touch] = "consumed"]
          /\ Then(IF http.flag THEN "recheck" ELSE "dialogblock")
          /\ UNCHANGED faults
       \/ Fault /\ Then("seam") /\ UNCHANGED artifact
    /\ UNCHANGED <<cardVars, stage, challenge, forCard, lapsed, th, runs, drift, crashes>>

\* A mutant of FailSeam: only a card that is still awaiting is failed.
FailSeamIfAwaiting ==
    /\ Serving("seam")
    /\ IF status[http.card] \in Awaiting
       THEN Transition(http.card, "block", "failed") /\ UNCHANGED <<remind, deferCount>>
       ELSE UNCHANGED cardVars
    /\ http' = [http EXCEPT !.pc = "dialogend", !.flag = FALSE]
    /\ UNCHANGED <<stage, authority, th, runs, drift, bounds>>

\* A mutant of FailSeam: the dialog reads what the transition promised.
FailSeamQuietly ==
    /\ Serving("seam")
    /\ \/ Transition(http.card, "block", "failed") /\ UNCHANGED <<remind, deferCount>>
       \/ Refused(http.card, "block")
    /\ Then("dialogend")
    /\ UNCHANGED <<stage, authority, th, runs, drift, bounds>>

\* _fail_s7_approval_seam: mark_s7_seam_failed, from any status that is not
\* terminal; an error of its own is swallowed.
FailSeam ==
    /\ Serving("seam")
    /\ \/ Transition(http.card, "block", "failed") /\ UNCHANGED <<remind, deferCount>>
       \/ Refused(http.card, "block")
    /\ http' = [http EXCEPT !.pc = "dialogend", !.flag = FALSE]
    /\ UNCHANGED <<stage, authority, th, runs, drift, bounds>>

\* The precondition once more, with the artifact spent and the card running.
Recheck ==
    /\ Serving("recheck")
    /\ Then(IF Fresh(http.card) THEN "execute" ELSE "block")
    /\ UNCHANGED <<cardVars, stage, authority, th, runs, drift, bounds>>

\* action_engine._execute_action under the grant, which succeeds or fails.
Execute ==
    /\ Serving("execute")
    /\ runs' = [runs EXCEPT ![http.card] = @ + 1]
    /\ \E ok \in BOOLEAN : http' = [http EXCEPT !.pc = "close", !.flag = ok]
    /\ UNCHANGED <<cardVars, stage, authority, th, drift, bounds>>

\* mark_done or mark_failed; on CardStoreError the card stays as it is.
CloseCard ==
    /\ Serving("close")
    /\ MarkClosed(http.card, http.flag) \/ Refused(http.card, "close")
    /\ Then("dialogend")
    /\ UNCHANGED <<stage, authority, th, runs, drift, bounds>>

\* _block_s7_card inside _on_approve; the dialog is blocked after it.
BlockCard ==
    /\ Serving("block")
    /\ Block(http.card) \/ Refused(http.card, "block")
    /\ Then("dialogblock")
    /\ UNCHANGED <<stage, authority, th, runs, drift, bounds>>

BlockDialog ==
    /\ Serving("dialogblock")
    /\ SetStage(http.card, "blocked")
    /\ Respond
    /\ UNCHANGED <<cardVars, authority, th, runs, drift, bounds>>

\* EXECUTED or FAILED, for what was executed and for a broken seam.
EndDialog ==
    /\ Serving("dialogend")
    /\ SetStage(http.card, IF http.flag THEN "executed" ELSE "failed")
    /\ Respond
    /\ UNCHANGED <<cardVars, authority, th, runs, drift, bounds>>

-----------------------------------------------------------------------------
(* Executor threads                                                        *)

\* handle_action: an ESCALATE verdict asks for a card...
Propose(t, ch, b) ==
    /\ At(t, "idle")
    /\ b => "drift" \in Env
    /\ CreateCard(created + 1, "dialog", ch, b)
    /\ th' = [th EXCEPT ![t] = [pc |-> "link", card |-> created + 1]]
    /\ UNCHANGED <<stage, authority, http, runs, drift, bounds>>

\* ...whose dialog is opened next; without a dialog the card is blocked.
LinkDialog(t) ==
    /\ At(t, "link")
    /\ \/ SetStage(On(t), "talking") /\ Leave(t)
       \/ Go(t, "linkfail") /\ UNCHANGED stage
    /\ UNCHANGED <<cardVars, authority, http, runs, drift, bounds>>

\* A message of the owner's finds the card among the open ones.
Hear(t, c) ==
    /\ At(t, "idle") /\ status[c] \in Awaiting
    /\ th' = [th EXCEPT ![t] = [pc |-> "read", card |-> c]]
    /\ UNCHANGED <<cardVars, stage, authority, http, runs, drift, bounds>>

\* handle_dialog_reply: the dialog is reloaded before anything is decided.
ReadForReply(t) ==
    /\ At(t, "read")
    /\ IF stage[On(t)] = "none" THEN Go(t, "linkfail")
       ELSE IF stage[On(t)] \in TerminalStage THEN Leave(t)
       ELSE Go(t, "reply")
    /\ UNCHANGED <<cardVars, stage, authority, http, runs, drift, bounds>>

\* After the classifier and the language model: a clarifying turn writes its
\* stage back; "yes" is blocked for want of an artifact; "no", a cancellation
\* or the turn cap close the dialog.
Reply(t) ==
    /\ At(t, "reply")
    /\ \/ SetStage(On(t), "talking") /\ Leave(t)
       \/ SetStage(On(t), "blocked") /\ Go(t, "block")
       \/ SetStage(On(t), "denied") /\ Go(t, "deny")
    /\ UNCHANGED <<cardVars, authority, http, runs, drift, bounds>>

\* _block_s7_card.
BlockFromThread(t) ==
    /\ At(t, "block") \/ At(t, "linkfail")
    /\ Block(On(t)) \/ Refused(On(t), "block")
    /\ Leave(t)
    /\ UNCHANGED <<stage, authority, http, runs, drift, bounds>>

\* _on_deny; a refusal raises out of the handler.
DenyFromThread(t) ==
    /\ At(t, "deny")
    /\ Deny(On(t)) \/ Refused(On(t), "deny")
    /\ Leave(t)
    /\ UNCHANGED <<stage, authority, http, runs, drift, bounds>>

-----------------------------------------------------------------------------
(* The environment                                                         *)

WebDeny(c) ==
    /\ "web" \in Env
    /\ Deny(c)
    /\ UNCHANGED <<stage, authority, http, th, runs, drift, bounds>>

ExpireAbandoned(c) ==
    /\ "sweep" \in Env
    /\ Expire(c)
    /\ UNCHANGED <<stage, authority, http, th, runs, drift, bounds>>

\* The clock passes the expires_at of a challenge and of its artifact; nobody
\* looks at that of a spent one.
Lapse(u) ==
    /\ "lapse" \in Env
    /\ challenge[u] # "absent" /\ artifact[u] # "consumed" /\ ~lapsed[u]
    /\ lapsed' = [lapsed EXCEPT ![u] = TRUE]
    /\ UNCHANGED <<cardVars, stage, challenge, artifact, forCard, http, th, runs, drift, bounds>>

\* What an unsettled card was bound to changes.
Drift(c) ==
    /\ bound[c] /\ ~drift[c] /\ status[c] \in Awaiting \cup {"running"}
    /\ drift' = [drift EXCEPT ![c] = TRUE]
    /\ UNCHANGED <<cardVars, stage, authority, http, th, runs, bounds>>

\* The daemon dies: an open transaction of the authority store is rolled back,
\* what the card store committed inside it stays.
Crash ==
    /\ faults + crashes < MaxTroubles
    /\ crashes' = crashes + 1
    /\ http' = NoRequest
    /\ th' = [t \in Thread |-> IdleThread]
    /\ UNCHANGED <<cardVars, stage, authority, runs, drift, faults>>

-----------------------------------------------------------------------------
(* The specification                                                       *)

Request ==
    \/ \E u \in Touch : Finish(u) \/ \E c \in Card : Begin(u, c) \/ ExecuteRequest(u, c)

Serve ==
    \/ ConsumeChallenge \/ Mint
    \/ ReadDialog \/ Ratify \/ CheckFresh \/ BlockStaleDialog \/ RefuseCard
    \/ Approving \/ WillAndPreflight \/ Redeem \/ TransitionCard \/ Commit \/ FailSeam
    \/ Recheck \/ Execute \/ CloseCard \/ BlockCard \/ BlockDialog \/ EndDialog

Handle(t) ==
    LinkDialog(t) \/ ReadForReply(t) \/ Reply(t) \/ BlockFromThread(t) \/ DenyFromThread(t)

Next ==
    \/ Request \/ Serve
    \/ \E t \in Thread :
         \/ \E ch \in Chat, b \in BOOLEAN : Propose(t, ch, b)
         \/ \E c \in Card : Hear(t, c)
         \/ Handle(t)
    \/ \E c \in Card : WebDeny(c) \/ ExpireAbandoned(c) \/ Drift(c)
    \/ \E u \in Touch : Lapse(u)
    \/ Crash

Spec == Init /\ [][Next]_vars

\* A request and a handler that were started go on: LLM calls, database waits
\* and actions have timeouts.
Fairness == WF_vars(Serve) /\ \A t \in Thread : WF_vars(Handle(t))

FairSpec == Spec /\ Fairness

-----------------------------------------------------------------------------
(* Correctness                                                             *)

\* Types of the three stores and of the processes' local variables.
TypeOK ==
    /\ StoreTypeOK
    /\ stage \in [Card -> Stage]
    /\ challenge \in [Touch -> {"absent", "issued", "consumed"}]
    /\ artifact \in [Touch -> {"none", "minted", "consumed"}]
    /\ forCard \in [Touch -> Card \cup {NoCard}]
    /\ lapsed \in [Touch -> BOOLEAN]
    /\ http \in HttpState
    /\ th \in [Thread -> ThreadState]
    /\ runs \in [Card -> Nat]
    /\ drift \in [Card -> BOOLEAN]
    /\ faults \in Nat /\ crashes \in Nat

\* The touches durably spent on a card.
SpentOn(c) == {u \in Touch : forCard[u] = c /\ artifact[u] = "consumed"}

\* Whatever is retried, refused, reopened or lost in a crash, an S7 action is
\* executed at most once, and only after a touch for that very card was
\* durably spent.
RunsAreTouched ==
    \A c \in Card : runs[c] <= 1 /\ (runs[c] = 1 => SpentOn(c) # {})

\* The owner's second touch of a card is never spent as well, although the two
\* databases have no common transaction.
OneTouchPerCard ==
    \A c \in Card : \A u, v \in SpentOn(c) : u = v

\* A spent touch leaves no card that could still be asked for again.
SpentMeansSettled ==
    \A c \in Card : SpentOn(c) # {} => status[c] \notin Awaiting

\* A dialog reads executed only when its action was executed.
ExecutedIsTrue ==
    \A c \in Card : stage[c] = "executed" => runs[c] = 1

\* The server's points at which a card it has set running is not closed yet, and
\* those at which a ratified dialog's card is not settled yet.
Running == {"commit", "recheck", "execute", "close", "block", "seam"}
Unsettled == {"fresh", "stale", "approve", "will", "redeem", "transition"} \cup Running

\* Nobody looks for a running card, or one whose dialog takes no more replies:
\* the request that made it so is still at it, whatever the authority store
\* fails at and whoever moves the card meanwhile, unless the daemon crashed.
OnlyACrashStrands ==
    crashes = 0 =>
        \A c \in Card :
            /\ status[c] = "running" => http.card = c /\ http.pc \in Running
            /\ stage[c] = "ratified" /\ status[c] \notin Terminal
               => http.card = c /\ http.pc \in Unsettled

\* Without a crash, a dialog the owner ratified leaves no card behind that is
\* still awaiting, or still running.
RatifiedCardsSettle ==
    \A c \in Card : (stage[c] = "ratified") ~> (crashes > 0 \/ status[c] \in Terminal)

-----------------------------------------------------------------------------
(* Refinement                                                              *)

\* The HTTP server has the card running, its touch not yet, or already, spent.
Granting(c) == Serving("commit") /\ http.flag /\ http.card = c
InHand(c) == (Serving("recheck") \/ Serving("execute")) /\ http.card = c

PhaseOf(c) ==
    IF ~Exists(c) THEN "none"
    ELSE IF runs[c] = 1 \/ InHand(c) \/ (status[c] = "running" /\ SpentOn(c) # {}) THEN "spent"
    ELSE IF status[c] \in Awaiting THEN "asked"
    ELSE IF status[c] = "running" \/ Granting(c) THEN "granted"
    ELSE "closed"

OneShot == INSTANCE OneShotApproval
               WITH phase <- [c \in Card |-> PhaseOf(c)], effects <- runs

\* The three databases together keep the promise that one approval is one
\* effect: granted by the card store, spent by the authority store.
ImplementsOneShot == OneShot!Spec
=============================================================================
