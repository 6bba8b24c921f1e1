---------------------------- MODULE CardPipeline ----------------------------
(***************************************************************************)
(* The decision pipeline (core/decision/decision_pipeline.py) over the     *)
(* pending-cards store: proposing an action, the owner's replies, the      *)
(* cockpit's approve endpoint, the web process's deny, and the daemon      *)
(* cycle's reminders and housekeeping, all racing on the same rows.        *)
(*                                                                         *)
(* A thread's control point is named for what it does next.  Between two   *)
(* store transactions of one handler any other process may run.            *)
(***************************************************************************)
EXTENDS PendingCards, FiniteSetsExt

CONSTANTS
    Thread,      \* executor threads of the daemon: proposals and replies
    Cockpit,     \* the daemon's (single) local HTTP server thread
    Cycle,       \* the daemon cycle
    NoCard,
    Intent,      \* the owner's intents to enumerate, a subset of ReplyIntent
    MaxDefers,   \* bound on the deferrals of one card
    MaxCrashes,  \* bound on crashes of the daemon
    Env          \* what else takes part: a subset of Surroundings

Proc == Thread \cup {Cockpit, Cycle}

\* "none" stands for the intents that write to no store.
ReplyIntent == {"approve", "deny", "modify", "defer", "none"}

\* Parts of the surroundings an instance includes: the cockpit and the web
\* process, the daemon cycle, cards old enough to expire, cards bound to a
\* state of the world, replies threaded to a message, and cards and replies
\* without a chat.
Surroundings == {"cockpit", "web", "cycle", "aging", "drift", "threaded", "nochat"}

ASSUME PipelineAssumption ==
    /\ Cockpit \notin Thread /\ Cycle \notin Thread /\ Cockpit # Cycle
    /\ NoCard \notin Card
    /\ Intent \subseteq ReplyIntent
    /\ MaxDefers \in Nat /\ MaxCrashes \in Nat
    /\ Env \subseteq Surroundings

VARIABLES
    th,         \* each process: control point and local variables
    audit,      \* audit_log.db: the outcome column of the card's audit row
    satisfied,  \* the wants store: the card's want is recorded as satisfied
    runs,       \* how often the card's action was executed
    old,        \* the card is past expire_abandoned's age cutoff
    crashes     \* crashes of the daemon so far

stores == <<audit, satisfied, runs>>
vars == <<cardVars, th, stores, old, crashes>>

Point == {"idle", "route", "newestdialog", "classify", "dialog", "judge",
          "approve", "block", "will", "willdeny", "start", "execute", "close",
          "record", "want", "wantclose", "wantrecord", "rejected", "defer",
          "present", "link", "remind", "represent", "sweep"}

ThreadState == [pc : Point, card : Card \cup {NoCard}, snap : SUBSET Card,
                aim : Card \cup {NoCard}, post : Nat, flag : BOOLEAN, count : Nat]

Outcome == {"none", "ran", "failed", "refused_by_will", "rejected", "satisfied"}

\* A process between two handlers holds nothing.
Idle == [pc |-> "idle", card |-> NoCard, snap |-> {}, aim |-> NoCard,
         post |-> 0, flag |-> FALSE, count |-> 0]

Init ==
    /\ StoreInit
    /\ th = [p \in Proc |-> Idle]
    /\ audit = [c \in Card |-> "none"]
    /\ satisfied = [c \in Card |-> FALSE]
    /\ runs = [c \in Card |-> 0]
    /\ old = [c \in Card |-> FALSE]
    /\ crashes = 0

-----------------------------------------------------------------------------
(* Control flow and helpers                                                *)

At(p, point) == th[p].pc = point
On(p) == th[p].card
Goto(p, point) == th' = [th EXCEPT ![p].pc = point]
Leave(p) == th' = [th EXCEPT ![p] = Idle]

\* Start work on card c with nothing else held.
Take(p, point, c) == th' = [th EXCEPT ![p] = [Idle EXCEPT !.pc = point, !.card = c]]

\* Whether the fingerprint of the card's action, taken now, hashes to the card's
\* own: the world may have moved; a card never bound to a state is always fresh.
FreshVerdicts(c) == IF bound[c] THEN BOOLEAN ELSE {TRUE}

IsDialog(c) == kind[c] = "dialog"
RequiresS7(c) == kind[c] \in {"guarded", "dialog"}
Newest(S) == Max(S)

-----------------------------------------------------------------------------
(* handle_action: the verdict asks for a card                              *)

Propose(t, k, ch, b) ==
    /\ At(t, "idle")
    /\ b => "drift" \in Env
    /\ CreateCard(created + 1, k, ch, b)
    /\ Take(t, "present", created + 1)
    /\ UNCHANGED <<stores, old, crashes>>

\* After renderer.present: only an ESCALATE card goes on to its dialog.
Presented(t) ==
    IF IsDialog(On(t)) THEN Goto(t, "link") ELSE Leave(t)

\* renderer.present and attach_channel_message; a renderer that yields no
\* message id attaches nothing.
Present(t) ==
    /\ At(t, "present")
    /\ AttachMessage(On(t)) \/ UNCHANGED cardVars
    /\ Presented(t)
    /\ UNCHANGED <<stores, old, crashes>>

\* open_dialog_for_card succeeds, or fails and the card is blocked.
LinkDialog(t) ==
    /\ At(t, "link")
    /\ Leave(t) \/ Goto(t, "block")
    /\ UNCHANGED <<cardVars, stores, old, crashes>>

-----------------------------------------------------------------------------
(* handle_reply: finding the card a reply is about                         *)

\* get_cards_for: the awaiting cards now; none means ordinary conversation.
\* The reply may be threaded to the k-th message posted for card a.
ReplySnapshot(t, ch, a, k) ==
    /\ At(t, "idle")
    /\ OpenCards(ch) # {}
    /\ IF a = NoCard THEN k = 0 ELSE "threaded" \in Env /\ k \in 1..posts[a]
    /\ th' = [th EXCEPT ![t] = [Idle EXCEPT !.pc = "route", !.snap = OpenCards(ch),
                                            !.aim = a, !.post = k]]
    /\ UNCHANGED <<cardVars, stores, old, crashes>>

\* get_by_message finds the card, and it is still awaiting.
Hit(t) ==
    LET a == th[t].aim
    IN a # NoCard /\ posts[a] = th[t].post /\ status[a] \in Awaiting

\* _pick_target: the explicit target if the snapshot has it, else the newest.
PickTarget(t) ==
    IF Hit(t) /\ th[t].aim \in th[t].snap THEN th[t].aim ELSE Newest(th[t].snap)

Route(t) ==
    /\ At(t, "route")
    /\ th' = [th EXCEPT
                ![t].card = IF Hit(t) /\ IsDialog(th[t].aim) THEN th[t].aim ELSE PickTarget(t),
                ![t].pc = IF Hit(t) /\ IsDialog(th[t].aim) THEN "dialog"
                          ELSE IF ~Hit(t) /\ IsDialog(Newest(th[t].snap)) THEN "newestdialog"
                          ELSE "classify"]
    /\ UNCHANGED <<cardVars, stores, old, crashes>>

\* classify_reply (an LLM call) returns APPROVE.
ReplyApprove(t) ==
    /\ At(t, "classify") /\ ~IsDialog(On(t)) /\ "approve" \in Intent
    /\ Goto(t, "judge")
    /\ UNCHANGED <<cardVars, stores, old, crashes>>

\* Whatever it returns but UNRELATED, a dialog card goes to its dialog.
ReplyToDialog(t) ==
    /\ At(t, "classify") /\ IsDialog(On(t))
    /\ Goto(t, "dialog")
    /\ UNCHANGED <<cardVars, stores, old, crashes>>

\* UNRELATED, UNCLEAR, or RE_EXPLAIN, which only presents the card again.
ReplyNone(t) ==
    /\ At(t, "classify") /\ "none" \in Intent
    /\ Leave(t)
    /\ UNCHANGED <<cardVars, stores, old, crashes>>

\* A mutant of ReplyDeny: the rejection is recorded even if deny was refused.
ReplyDenyRecordsAnyway(t, intent) ==
    /\ At(t, "classify") /\ ~IsDialog(On(t))
    /\ intent \in Intent \cap {"deny", "modify"}
    /\ Deny(On(t)) \/ Refused(On(t), "deny")
    /\ Goto(t, "rejected")
    /\ UNCHANGED <<stores, old, crashes>>

\* _on_deny goes on to record the rejection; _on_modify denies without a
\* record; on CardStoreError both raise out of the handler.
ReplyDeny(t, intent) ==
    /\ At(t, "classify") /\ ~IsDialog(On(t))
    /\ intent \in Intent \cap {"deny", "modify"}
    /\ \/ Deny(On(t)) /\ IF intent = "deny" THEN Goto(t, "rejected") ELSE Leave(t)
       \/ Refused(On(t), "deny") /\ Leave(t)
    /\ UNCHANGED <<stores, old, crashes>>

\* _on_defer, first half: PendingCardStore.defer reads the counter.
ReplyDefer(t) ==
    /\ At(t, "classify") /\ ~IsDialog(On(t)) /\ "defer" \in Intent
    /\ deferCount[On(t)] < MaxDefers
    /\ th' = [th EXCEPT ![t].pc = "defer", ![t].count = deferCount[On(t)]]
    /\ UNCHANGED <<cardVars, stores, old, crashes>>

\* Second half: the transition, with or without a reminder time.
DeferCard(t) ==
    /\ At(t, "defer")
    /\ \/ \E when \in {"none", "later"} : Defer(On(t), th[t].count, when)
       \/ Refused(On(t), "defer")
    /\ Leave(t)
    /\ UNCHANGED <<stores, old, crashes>>

\* Reply to a dialog card without a consumed S7 authorization: the dialog
\* takes the turn and goes on, blocks the card, or denies it.  "Unrelated"
\* leads to the classifier when the card was the newest-card default.
DialogTurn(t) ==
    /\ At(t, "dialog") \/ At(t, "newestdialog")
    /\ \/ Leave(t) /\ UNCHANGED cardVars
       \/ At(t, "newestdialog") /\ Goto(t, "classify") /\ UNCHANGED cardVars
       \/ Goto(t, "block") /\ UNCHANGED cardVars
       \/ Deny(On(t)) /\ Goto(t, "rejected")
       \/ Refused(On(t), "deny") /\ Leave(t)
    /\ UNCHANGED <<stores, old, crashes>>

\* record_outcome of a rejection, after the card was denied.
RecordRejection(t) ==
    /\ At(t, "rejected")
    /\ audit' = [audit EXCEPT ![On(t)] = "rejected"]
    /\ Leave(t)
    /\ UNCHANGED <<cardVars, satisfied, runs, old, crashes>>

-----------------------------------------------------------------------------
(* _on_approve: shared by replies and by the cockpit                       *)

\* /internal/approve_card reads the row and refuses what is not approvable.
CockpitApprove(c) ==
    /\ At(Cockpit, "idle") /\ "cockpit" \in Env
    /\ status[c] \in Awaiting /\ ~RequiresS7(c)
    /\ Take(Cockpit, "judge", c)
    /\ UNCHANGED <<cardVars, stores, old, crashes>>

\* A guarded card without S7 authorization is blocked; otherwise the current
\* state is fingerprinted.
Judge(p) ==
    /\ At(p, "judge")
    /\ IF RequiresS7(On(p)) THEN Goto(p, "block")
       ELSE \E fresh \in FreshVerdicts(On(p)) :
              th' = [th EXCEPT ![p].pc = "approve", ![p].flag = fresh]
    /\ UNCHANGED <<cardVars, stores, old, crashes>>

\* PendingCardStore.approve.  On CardStoreError the handler blocks the card.
ApproveCard(p) ==
    /\ At(p, "approve")
    /\ \/ /\ Approve(On(p), th[p].flag)
          /\ IF ~th[p].flag THEN Leave(p)
             ELSE Goto(p, IF kind[On(p)] = "want" THEN "want" ELSE "will")
       \/ Refused(On(p), "approve") /\ Goto(p, "block")
    /\ UNCHANGED <<stores, old, crashes>>

\* _block_s7_card: a card that cannot be blocked is left as it is.
BlockCard(p) ==
    /\ At(p, "block")
    /\ Block(On(p)) \/ Refused(On(p), "block")
    /\ Leave(p)
    /\ UNCHANGED <<stores, old, crashes>>

\* A mutant of ConfirmWant: the card is closed as done whatever was recorded.
ConfirmWantBlindly(p) ==
    /\ At(p, "want")
    /\ \E ok \in BOOLEAN : satisfied' = [satisfied EXCEPT ![On(p)] = @ \/ ok]
    /\ th' = [th EXCEPT ![p].pc = "wantclose", ![p].flag = TRUE]
    /\ UNCHANGED <<cardVars, audit, runs, old, crashes>>

\* _handle_terminal_want_approval: the wants store records the owner's
\* confirmation or, when the want is no longer active, does not.
ConfirmWant(p) ==
    /\ At(p, "want")
    /\ \E ok \in BOOLEAN :
         /\ satisfied' = [satisfied EXCEPT ![On(p)] = @ \/ ok]
         /\ th' = [th EXCEPT ![p].pc = "wantclose", ![p].flag = ok]
    /\ UNCHANGED <<cardVars, audit, runs, old, crashes>>

\* A mutant of WillRefuses: the will-I check never fires.
WillNeverRefuses(c) == FALSE

\* core/will_i.check: deterministic in the action and its params.
WillRefuses(c) == kind[c] = "impersonation"

\* _will_i_check, post approval: a refusal is first written to the audit row.
WillCheck(p) ==
    /\ At(p, "will")
    /\ IF WillRefuses(On(p))
       THEN audit' = [audit EXCEPT ![On(p)] = "refused_by_will"] /\ Goto(p, "willdeny")
       ELSE Goto(p, "start") /\ UNCHANGED audit
    /\ UNCHANGED <<cardVars, satisfied, runs, old, crashes>>

\* ...and then the card is to be closed as denied; an error is swallowed.
WillDeny(p) ==
    /\ At(p, "willdeny")
    /\ Deny(On(p)) \/ Refused(On(p), "deny")
    /\ Leave(p)
    /\ UNCHANGED <<stores, old, crashes>>

\* A mutant of StartRun: the action is executed although mark_running failed.
StartRunAnyway(p) ==
    /\ At(p, "start")
    /\ MarkRunning(On(p)) \/ Refused(On(p), "start")
    /\ Goto(p, "execute")
    /\ UNCHANGED <<stores, old, crashes>>

\* mark_running: on CardStoreError nothing is executed.
StartRun(p) ==
    /\ At(p, "start")
    /\ \/ MarkRunning(On(p)) /\ Goto(p, "execute")
       \/ Refused(On(p), "start") /\ Leave(p)
    /\ UNCHANGED <<stores, old, crashes>>

\* action_engine._execute_action, which succeeds or fails.
Execute(p) ==
    /\ At(p, "execute")
    /\ runs' = [runs EXCEPT ![On(p)] = @ + 1]
    /\ \E ok \in BOOLEAN : th' = [th EXCEPT ![p].pc = "close", ![p].flag = ok]
    /\ UNCHANGED <<cardVars, audit, satisfied, old, crashes>>

\* A mutant of CloseCard: only a success is recorded on the card.
CloseCardIfDone(p) ==
    /\ At(p, "close") \/ At(p, "wantclose")
    /\ IF th[p].flag THEN MarkClosed(On(p), TRUE) \/ Refused(On(p), "close")
       ELSE UNCHANGED cardVars
    /\ Goto(p, IF At(p, "close") THEN "record" ELSE "wantrecord")
    /\ UNCHANGED <<stores, old, crashes>>

\* mark_done or mark_failed; on CardStoreError the card stays as it is.
CloseCard(p) ==
    /\ At(p, "close") \/ At(p, "wantclose")
    /\ MarkClosed(On(p), th[p].flag) \/ Refused(On(p), "close")
    /\ Goto(p, IF At(p, "close") THEN "record" ELSE "wantrecord")
    /\ UNCHANGED <<stores, old, crashes>>

\* record_outcome on the card's audit row.
RecordOutcome(p) ==
    /\ At(p, "record") \/ At(p, "wantrecord")
    /\ audit' = [audit EXCEPT ![On(p)] =
                   IF ~th[p].flag THEN "failed"
                   ELSE IF At(p, "record") THEN "ran" ELSE "satisfied"]
    /\ Leave(p)
    /\ UNCHANGED <<cardVars, satisfied, runs, old, crashes>>

-----------------------------------------------------------------------------
(* The web process: deny from the cockpit page, in one transaction         *)

WebDeny(c) ==
    /\ "web" \in Env
    /\ Deny(c)
    /\ UNCHANGED <<th, stores, old, crashes>>

-----------------------------------------------------------------------------
(* The daemon cycle: tick_reminders, then expire_abandoned                 *)

FindDueReminders ==
    /\ At(Cycle, "idle") /\ "cycle" \in Env
    /\ th' = [th EXCEPT ![Cycle] = [Idle EXCEPT !.pc = "remind", !.snap = DueReminders]]
    /\ UNCHANGED <<cardVars, stores, old, crashes>>

\* re_open the next card of the list read before; a card that is no longer
\* deferred is skipped.
Remind(c) ==
    /\ At(Cycle, "remind") /\ c \in th[Cycle].snap
    /\ \/ ReOpen(c) /\ th' = [th EXCEPT ![Cycle].pc = "represent", ![Cycle].card = c,
                                        ![Cycle].snap = @ \ {c}]
       \/ Refused(c, "reopen") /\ th' = [th EXCEPT ![Cycle].snap = @ \ {c}]
    /\ UNCHANGED <<stores, old, crashes>>

\* renderer.re_present posts a new message, whose id replaces the old one.
RePresent ==
    /\ At(Cycle, "represent")
    /\ AttachMessage(On(Cycle)) \/ UNCHANGED cardVars
    /\ th' = [th EXCEPT ![Cycle].pc = "remind", ![Cycle].card = NoCard]
    /\ UNCHANGED <<stores, old, crashes>>

\* A mutant of FindAbandoned: deferred cards never count as abandoned.
FindAbandonedOpen ==
    /\ At(Cycle, "remind") /\ th[Cycle].snap = {}
    /\ th' = [th EXCEPT ![Cycle].pc = "sweep",
                        ![Cycle].snap = {c \in Card : status[c] = "open" /\ old[c]}]
    /\ UNCHANGED <<cardVars, stores, old, crashes>>

\* expire_abandoned selects the awaiting cards past the cutoff...
FindAbandoned ==
    /\ At(Cycle, "remind") /\ th[Cycle].snap = {}
    /\ th' = [th EXCEPT ![Cycle].pc = "sweep",
                        ![Cycle].snap = {c \in Card : status[c] \in Awaiting /\ old[c]}]
    /\ UNCHANGED <<cardVars, stores, old, crashes>>

\* ...and expires each in its own transaction, ignoring CardStoreError.
ExpireAbandoned(c) ==
    /\ At(Cycle, "sweep") /\ c \in th[Cycle].snap
    /\ Expire(c) \/ Refused(c, "expire")
    /\ th' = [th EXCEPT ![Cycle].snap = @ \ {c}]
    /\ UNCHANGED <<stores, old, crashes>>

EndCycle ==
    /\ At(Cycle, "sweep") /\ th[Cycle].snap = {}
    /\ Leave(Cycle)
    /\ UNCHANGED <<cardVars, stores, old, crashes>>
-----------------------------------------------------------------------------
(* The environment                                                         *)

\* The clock reaches a reminder time, or a card's age cutoff.
ReminderDue(c) ==
    /\ remind[c] = "later"
    /\ remind' = [remind EXCEPT ![c] = "due"]
    /\ UNCHANGED <<created, status, columns, posts, deferCount>>
    /\ UNCHANGED <<th, stores, old, crashes>>

Age(c) ==
    /\ "aging" \in Env /\ status[c] \in Awaiting /\ ~old[c]
    /\ old' = [old EXCEPT ![c] = TRUE]
    /\ UNCHANGED <<cardVars, th, stores, crashes>>

\* The daemon dies and restarts: its threads are gone, the databases are not.
\* Nothing at startup looks for cards left approved or running.
Crash ==
    /\ crashes < MaxCrashes
    /\ crashes' = crashes + 1
    /\ th' = [p \in Proc |-> Idle]
    /\ UNCHANGED <<cardVars, stores, old>>

-----------------------------------------------------------------------------
(* The specification                                                       *)

Approving(p) ==
    \/ Judge(p) \/ ApproveCard(p) \/ BlockCard(p) \/ ConfirmWant(p)
    \/ WillCheck(p) \/ WillDeny(p) \/ StartRun(p) \/ Execute(p)
    \/ CloseCard(p) \/ RecordOutcome(p)

Replying(t) ==
    \/ Route(t) \/ ReplyApprove(t) \/ ReplyToDialog(t) \/ ReplyNone(t)
    \/ \E i \in Intent : ReplyDeny(t, i)
    \/ ReplyDefer(t) \/ DeferCard(t) \/ DialogTurn(t) \/ RecordRejection(t)

Housekeeping ==
    \/ FindDueReminders \/ RePresent \/ FindAbandoned \/ EndCycle
    \/ \E c \in Card : Remind(c) \/ ExpireAbandoned(c)

Chats == Chat \cup (IF "nochat" \in Env THEN {NoChat} ELSE {})

Next ==
    \/ \E t \in Thread :
         \/ \E k \in Kind, ch \in Chats, b \in BOOLEAN : Propose(t, k, ch, b)
         \/ Present(t) \/ LinkDialog(t)
         \/ \E ch \in Chats, a \in Card \cup {NoCard} :
              \E k \in 0..(IF a = NoCard THEN 0 ELSE posts[a]) : ReplySnapshot(t, ch, a, k)
         \/ Replying(t)
    \/ \E p \in Thread \cup {Cockpit} : Approving(p)
    \/ \E c \in Card : CockpitApprove(c) \/ WebDeny(c)
    \/ Housekeeping
    \/ \E c \in Card : ReminderDue(c) \/ Age(c)
    \/ Crash

Spec == Init /\ [][Next]_vars

\* Every started handler runs on (an executor thread or the HTTP server is
\* never preempted for good, and LLM calls and actions have timeouts), the
\* daemon cycle keeps cycling, and the clock goes on.
Fairness ==
    /\ \A t \in Thread : WF_vars(Replying(t)) /\ WF_vars(Present(t) \/ LinkDialog(t))
    /\ \A p \in Thread \cup {Cockpit} : WF_vars(Approving(p))
    /\ WF_vars(Housekeeping)
    /\ \A c \in Card : WF_vars(ReminderDue(c))

FairSpec == Spec /\ Fairness

-----------------------------------------------------------------------------
(* Correctness                                                             *)

\* Types of the store's columns and of every process's local variables.
TypeOK ==
    /\ StoreTypeOK
    /\ th \in [Proc -> ThreadState]
    /\ audit \in [Card -> Outcome]
    /\ satisfied \in [Card -> BOOLEAN]
    /\ runs \in [Card -> Nat]
    /\ old \in [Card -> BOOLEAN]
    /\ crashes \in Nat

\* A chat never has two cards awaiting the owner at once, whatever threads
\* propose into it: otherwise a bare "yes" would be ambiguous.
OneAwaitingPerChat ==
    \A c, d \in Card :
        /\ status[c] \in Awaiting /\ status[d] \in Awaiting
        /\ chatOf[c] # NoChat /\ chatOf[c] = chatOf[d]
        => c = d

\* However many approvals race for a card (two replies, a reply and the
\* cockpit), across crashes too, its action is executed at most once.
RunsAtMostOnce == \A c \in Card : runs[c] <= 1

\* The action of a card the owner refused, that expired, or that the pipeline
\* must not run (guarded, refused by will, a want) was never executed.
RefusedNeverRuns ==
    \A c \in Card :
        \/ status[c] \in {"denied", "expired"}
        \/ RequiresS7(c) \/ kind[c] \in {"impersonation", "want"}
        => runs[c] = 0

\* What the audit row says of a card agrees with what happened to it: a
\* recorded run is a run, a recorded rejection is a denied card, a recorded
\* refusal or satisfaction is one.
AuditTellsTheTruth ==
    \A c \in Card :
        /\ audit[c] = "ran" => runs[c] = 1
        /\ audit[c] = "failed" => runs[c] = 1 \/ kind[c] = "want"
        /\ audit[c] = "rejected" => status[c] = "denied" /\ runs[c] = 0
        /\ audit[c] = "refused_by_will" => runs[c] = 0
        /\ audit[c] = "satisfied" => satisfied[c]

\* A card reads "done" only when its action ran, or its want was recorded.
DoneIsTrue ==
    \A c \in Card :
        status[c] = "done" => IF kind[c] = "want" THEN satisfied[c] ELSE runs[c] = 1

\* A process has card c at one of these points.
HeldAt(c, points) == \E p \in Proc : On(p) = c /\ th[p].pc \in points

\* Neither the housekeeping nor a restart looks for approved and running cards,
\* so their handler must see them through: without a crash, a card is running
\* only while its action is executed or being closed, and approved only while a
\* process is on its way to run or close it, or after the will-I check refused it.
OnlyACrashStrands ==
    crashes = 0 =>
        \A c \in Card :
            /\ status[c] = "running" => HeldAt(c, {"execute", "close"})
            /\ status[c] = "approved" => \/ HeldAt(c, {"will", "start", "want", "wantclose"})
                                         \/ audit[c] = "refused_by_will"

\* No racing handler moves a card out of a terminal status.
TerminalIsFinal ==
    [][\A c \in Card : status[c] \in Terminal => status'[c] = status[c]]_vars

\* Without crashes a running card is always closed in the end, even when its
\* closing transition loses a race.
RunningCloses ==
    \A c \in Card : (status[c] = "running") ~> (status[c] \in Terminal)

\* A card deferred to a time is brought back, or resolved, after that time.
DueCardsResurface ==
    \A c \in Card : (status[c] = "deferred" /\ remind[c] = "due")
                     ~> (status[c] # "deferred" \/ remind[c] # "due")

\* A card past the age cutoff stops waiting for its owner, although reminders
\* re-open it and replies defer it again.
AbandonedCardsExpire ==
    \A c \in Card : (status[c] \in Awaiting /\ old[c]) ~> (status[c] \notin Awaiting)

-----------------------------------------------------------------------------
(* Refinement: the pipeline keeps the promise of OneShotApproval           *)

\* A process holds the card's grant and is about to execute its action.
InHand(c) == \E p \in Proc : At(p, "execute") /\ On(p) = c

PhaseOf(c) ==
    IF ~Exists(c) THEN "none"
    ELSE IF runs[c] = 1 \/ InHand(c) \/ status[c] = "running" THEN "spent"
    ELSE IF status[c] \in Awaiting THEN "asked"
    ELSE IF status[c] = "approved" THEN "granted"
    ELSE "closed"

OneShot == INSTANCE OneShotApproval
               WITH phase <- [c \in Card |-> PhaseOf(c)], effects <- runs

\* Racing approvals, denials, supersession, expiry and crashes together never
\* do more for a card than ask, grant, spend once and act once.
ImplementsOneShot == OneShot!Spec

-----------------------------------------------------------------------------
(* What the repository says, and the code does not do                      *)

\* decision_pipeline.py: after the will-I check refused an approved card it
\* is also closed as denied.
WillRefusalClosesCard ==
    \A c \in Card :
        audit[c] = "refused_by_will"
        => status[c] = "denied" \/ \E p \in Proc : At(p, "willdeny") /\ On(p) = c
=============================================================================
