---------------------------- MODULE LedgerSpool -----------------------------
(***************************************************************************)
(* Recording a life: the conversation threads of the daemon, which owns    *)
(* the ledger, the surfaces in other processes (web, CLI), which publish   *)
(* envelopes into the spool, and the daemon's drainer, which commits them  *)
(* (core/ledger/owner.py, recorder.py, model_reply_persistence.py and      *)
(* spool.py).  Any process may run between two steps of another, the two   *)
(* environment flags may flip, operations fail and processes die.          *)
(***************************************************************************)
EXTENDS LedgerStore, FiniteSets

CONSTANTS
    Daemon,     \* conversation threads of the owner process
    Surface,    \* processes that do not own the ledger
    NoLife,
    Api,        \* how lives are recorded: a subset of RecordingApi
    Bytes,      \* the payloads to record, a subset of Payload
    MaxFlips,   \* bound on how often a flag is set against the ledger
    MaxCrashes  \* bound on crashes

Thread == Daemon \cup Surface

\* "helper": try_write_turn, submit_user_message and persist_model_reply;
\* "recorder": ProductionRecorder, which dead-letters what the spool refuses.
RecordingApi == {"helper", "recorder"}

\* The directories drain_once scans: the daemon's own custody, and the
\* surfaces' (one directory stands for all of theirs).
Directory == {"owner_daemon", "surface"}
DirectoryOf(s) == IF s = Attempt(LifeOf(s)) THEN "owner_daemon" ELSE "surface"

ASSUME SpoolAssumption ==
    /\ Daemon \cap Surface = {}
    /\ NoLife \notin Life
    /\ Api \subseteq RecordingApi /\ Bytes \subseteq Payload
    /\ MaxFlips \in Nat /\ MaxCrashes \in Nat

VARIABLES
    th,         \* each thread: control point and local variables
    result,     \* what the caller was told about each life
    drain,      \* the drainer thread
    flips,      \* flags set against the ledger so far
    crashes

env == <<flips, crashes>>
vars == <<ledgerVars, th, result, drain, env>>

\* "held" is custody taken for a caller that gets no identity back.
Result == {"none", "dormant", "committed", "custody", "held", "dead", "lost"}

ThreadState == [pc : {"idle", "spool", "ensure", "owner", "report"},
                api : RecordingApi, life : Life \cup {NoLife},
                reply : Life \cup {NoLife}, held : Life \cup {NoLife},
                why : {"none", "failed", "refused", "custody"}]

IdleThread == [pc |-> "idle", api |-> "helper", life |-> NoLife, reply |-> NoLife,
               held |-> NoLife, why |-> "none"]

DrainState == [pc : {"idle", "scan", "round", "commit", "condemn", "refuse", "ack", "settle",
                     "raised"},
               back : {"scan", "round"}, dirs : SUBSET Directory, files : SUBSET Sub,
               todo : SUBSET Sub, later : SUBSET Sub, progress : BOOLEAN,
               now : Sub \cup {NoSub}]

IdleDrain == [pc |-> "idle", back |-> "scan", dirs |-> {}, files |-> {}, todo |-> {},
              later |-> {}, progress |-> FALSE, now |-> NoSub]

Init ==
    /\ StoreInit
    /\ th = [t \in Thread |-> IdleThread]
    /\ result = [l \in Life |-> "none"]
    /\ drain = IdleDrain
    /\ flips = 0 /\ crashes = 0

-----------------------------------------------------------------------------
(* Recording calls                                                         *)

At(t, point) == th[t].pc = point
On(t) == th[t].life
Goto(t, point) == th' = [th EXCEPT ![t].pc = point]

\* A life is lived: the bytes it has and the parent it names, under either
\* identity.
Live(l, bytes, parent) ==
    /\ l = lives + 1 /\ l \in Life
    /\ lives' = l
    /\ payload' = [payload EXCEPT ![l] = bytes]
    /\ edge' = [edge EXCEPT ![Attempt(l)] = parent, ![Spooled(l)] = parent]

\* After the marker comes the reply that asked for it; a call that answered
\* ends its exchange, any other may be answered.
ReplyNext(t) == [th[t] EXCEPT !.pc = "owner", !.life = th[t].reply, !.reply = NoLife,
                              !.why = "none"]
Done(t, l) == [IdleThread EXCEPT !.held = IF th[t].held = NoLife THEN l ELSE NoLife,
                                 !.api = th[t].api]

\* The call returns r.
Return(t, r) ==
    /\ result' = [result EXCEPT ![On(t)] = r]
    /\ th' = [th EXCEPT ![t] = IF th[t].reply # NoLife THEN ReplyNext(t) ELSE Done(t, On(t))]

\* The parent edge a caller can express from what it was told: a turn, or a
\* submission still in custody; anything else is recorded without the join.
EdgeTo(q) ==
    CASE result[q] = "committed" -> Attempt(q)
      [] result[q] = "custody" -> Spooled(q)
      [] OTHER -> NoSub

\* The lane of a call: a process that is not the owner, a paused owner and a
\* parent still in custody all go through the spool.
Lane(t) ==
    IF t \in Surface \/ paused \/ (th[t].held # NoLife /\ result[th[t].held] = "custody")
    THEN "spool" ELSE "owner"

\* A call begins; with the writes flag off it ends there and leaves no trace.
Enter(t, api, l, point) ==
    IF writes
    THEN /\ th' = [th EXCEPT ![t].pc = point, ![t].api = api, ![t].life = l]
         /\ UNCHANGED result
    ELSE /\ th' = [th EXCEPT ![t] = [Done(t, l) EXCEPT !.api = api]]
         /\ result' = [result EXCEPT ![l] = "dormant"]

\* The owner's message, which has no parent.
Hear(t, api, bytes) ==
    /\ At(t, "idle") /\ th[t].held = NoLife
    /\ bytes = "garbled" => Lane(t) = "spool"
    /\ Live(lives + 1, bytes, NoSub)
    /\ Enter(t, api, lives + 1, Lane(t))
    /\ UNCHANGED <<turns, files, dead, flags, faults, drain, env>>

\* The reply to it; the helper first sees to the persistence marker.  In the
\* spool lane a parent's turn is looked up for its submission; if that fails
\* the reply goes without the join.
Answer(t, bytes) ==
    /\ At(t, "idle") /\ th[t].held # NoLife
    /\ bytes = "garbled" => Lane(t) = "spool"
    /\ \/ Live(lives + 1, bytes, EdgeTo(th[t].held)) /\ NoFault
       \/ /\ Lane(t) = "spool" /\ result[th[t].held] = "committed"
          /\ Live(lives + 1, bytes, NoSub) /\ Fault("lookup")
    /\ Enter(t, th[t].api, lives + 1,
             IF Lane(t) = "owner" /\ th[t].api = "helper" THEN "ensure" ELSE Lane(t))
    /\ UNCHANGED <<turns, files, dead, flags, drain, env>>

\* The reply to a message of which no recording call was made, because what
\* came before that call raised: it has no parent, and nothing answers it.
Speak(t, bytes) ==
    /\ At(t, "idle") /\ th[t].held = NoLife /\ "helper" \in Api
    /\ bytes = "garbled" => Lane(t) = "spool"
    /\ Live(lives + 1, bytes, NoSub)
    /\ IF writes
       THEN /\ th' = [th EXCEPT ![t] = [IdleThread EXCEPT
                         !.pc = IF Lane(t) = "owner" THEN "ensure" ELSE "spool",
                         !.life = lives + 1, !.held = lives + 1]]
            /\ UNCHANGED result
       ELSE result' = [result EXCEPT ![lives + 1] = "dormant"] /\ UNCHANGED th
    /\ UNCHANGED <<turns, files, dead, flags, faults, drain, env>>

\* The exchange ends without a recorded reply.
Part(t) ==
    /\ At(t, "idle") /\ th[t].held # NoLife
    /\ th' = [th EXCEPT ![t] = IdleThread]
    /\ UNCHANGED <<ledgerVars, result, drain, env>>

\* enqueue into the spool.  The recorder reads the writes flag once more and
\* dead-letters a failure; the helper only warns.
SpoolLane(t) ==
    /\ At(t, "spool")
    /\ \/ /\ th[t].api = "recorder" /\ ~writes
          /\ Return(t, "dormant")
          /\ UNCHANGED place /\ NoFault
       \/ /\ th[t].api = "recorder" => writes
          /\ \/ Publish(Spooled(On(t))) /\ NoFault /\ Return(t, "custody")
             \/ /\ PublishFails(Spooled(On(t)))
                /\ IF th[t].api = "recorder"
                   THEN /\ th' = [th EXCEPT ![t].pc = "report", ![t].why = "custody"]
                        /\ UNCHANGED result
                   ELSE Return(t, "lost")
    /\ UNCHANGED <<born, turns, receipts, sidecars, dead, flags, drain, env>>

\* _ensure_persistence_marker: a check, then a write of its own; a check that
\* raises is passed over.
EnsureMarker(t) ==
    /\ At(t, "ensure")
    /\ \/ marked /\ Goto(t, "owner") /\ UNCHANGED born /\ NoFault
       \/ Fault("lookup") /\ Goto(t, "owner") /\ UNCHANGED born
       \/ /\ ~marked /\ Live(lives + 1, "marker", NoSub) /\ NoFault
          /\ th' = [th EXCEPT ![t].pc = "owner", ![t].life = lives + 1, ![t].reply = On(t)]
    /\ UNCHANGED <<turns, files, dead, flags, result, drain, env>>

\* owner_write_turn holds the owner's lock: off is dormant, paused is custody.
HelperWrite(t) ==
    /\ At(t, "owner") /\ th[t].api = "helper"
    /\ IF writes /\ paused
       THEN /\ \/ Publish(Attempt(On(t))) /\ NoFault /\ Return(t, "held")
               \/ PublishFails(Attempt(On(t))) /\ Return(t, "lost")
            /\ UNCHANGED turns
       ELSE \E outcome \in {"acked", "refused", "failed"} :
            /\ OwnerCommit(Attempt(On(t)), outcome)
            /\ IF ~writes THEN Return(t, "dormant")
               ELSE IF outcome = "acked" THEN Return(t, "committed")
               ELSE /\ th' = [th EXCEPT ![t].pc = "report", ![t].why = outcome]
                    /\ UNCHANGED result
            /\ UNCHANGED place
    /\ UNCHANGED <<born, receipts, sidecars, dead, flags, drain, env>>

\* _record_owner_direct: owner_commit, classified afterwards.
RecorderCommit(t) ==
    /\ At(t, "owner") /\ th[t].api = "recorder"
    /\ \E outcome \in {"acked", "refused", "failed"} :
        /\ OwnerCommit(Attempt(On(t)), outcome)
        /\ IF outcome = "acked" THEN Return(t, "committed")
           ELSE /\ th' = [th EXCEPT ![t].pc = "report", ![t].why = outcome]
                /\ UNCHANGED result
    /\ UNCHANGED <<born, files, dead, flags, drain, env>>

\* A mutant of Report: what _dead_letter returned is not looked at.
ReportUnheard(t) ==
    /\ At(t, "report")
    /\ \/ /\ th[t].api = "recorder" /\ th[t].why = "failed" /\ ~writes
          /\ Return(t, "dormant")
          /\ UNCHANGED dead /\ NoFault
       \/ /\ DeadLetter(On(t), IF th[t].why = "refused" THEN "refused" ELSE "failed")
          /\ NoFault /\ Return(t, "dead")
       \/ Fault("deadletter") /\ UNCHANGED dead /\ Return(t, "dead")
    /\ UNCHANGED <<born, turns, files, flags, drain, env>>

\* What did not commit is dead-lettered under its attempt_id, or lost; for
\* the recorder a failure with the writes flag now off is dormancy.
Report(t) ==
    /\ At(t, "report")
    /\ \/ /\ th[t].api = "recorder" /\ th[t].why = "failed" /\ ~writes
          /\ Return(t, "dormant")
          /\ UNCHANGED dead /\ NoFault
       \/ /\ ~(th[t].api = "recorder" /\ th[t].why = "failed" /\ ~writes)
          /\ \/ /\ DeadLetter(On(t), IF th[t].why = "refused" THEN "refused" ELSE "failed")
                /\ NoFault /\ Return(t, "dead")
             \/ Fault("deadletter") /\ UNCHANGED dead /\ Return(t, "lost")
    /\ UNCHANGED <<born, turns, files, flags, drain, env>>

Recording(t) ==
    SpoolLane(t) \/ EnsureMarker(t) \/ HelperWrite(t) \/ RecorderCommit(t) \/ Report(t)

-----------------------------------------------------------------------------
(* drain_once: one pass of the drainer                                     *)

Draining(point) == drain.pc = point

\* The flags are read, the pass begins.
StartPass ==
    /\ Draining("idle") /\ writes /\ ~paused
    /\ drain' = [IdleDrain EXCEPT !.pc = "scan", !.dirs = Directory]
    /\ UNCHANGED <<ledgerVars, th, result, env>>

\* One producer's pending directory is listed.
ListDirectory(d) ==
    /\ Draining("scan") /\ drain.files = {} /\ d \in drain.dirs
    /\ drain' = [drain EXCEPT !.dirs = @ \ {d},
                              !.files = {s \in Sub : place[s] = "pending" /\ DirectoryOf(s) = d}]
    /\ UNCHANGED <<ledgerVars, th, result, env>>

\* A pause met between two files leaves the rest of the directory unread.
BreakScan ==
    /\ Draining("scan") /\ drain.files # {} /\ paused
    /\ drain' = [drain EXCEPT !.files = {}]
    /\ UNCHANGED <<ledgerVars, th, result, env>>

\* A listed file is read; one that does not parse, or whose digest does not
\* match, is condemned.
ReadFile(s) ==
    /\ Draining("scan") /\ s \in drain.files /\ ~paused
    /\ drain' = IF payload[LifeOf(s)] = "garbled"
                THEN [drain EXCEPT !.pc = "condemn", !.back = "scan", !.now = s, !.files = @ \ {s}]
                ELSE [drain EXCEPT !.todo = @ \cup {s}, !.files = @ \ {s}]
    /\ UNCHANGED <<ledgerVars, th, result, env>>

EndScan ==
    /\ Draining("scan") /\ drain.files = {} /\ drain.dirs = {}
    /\ drain' = [drain EXCEPT !.pc = "round", !.back = "round"]
    /\ UNCHANGED <<ledgerVars, th, result, env>>

\* The entries are sorted by clocks of several processes: any may be next.
\* One whose kwargs name an authority is condemned before anything else.
Authority(s) == payload[LifeOf(s)] = "marker"

JudgeAuthority(s) ==
    /\ Draining("round") /\ s \in drain.todo /\ Authority(s)
    /\ drain' = [drain EXCEPT !.pc = "condemn", !.now = s, !.todo = @ \ {s}, !.progress = TRUE]
    /\ UNCHANGED <<ledgerVars, th, result, env>>

\* A child waits for its parent's turn; a pause stops before the next commit.
\* Otherwise the entry is taken up, and committed whatever the flag says then.
Defer(s) ==
    /\ Draining("round") /\ s \in drain.todo /\ ~Authority(s)
    /\ ~Resolved(s) \/ paused
    /\ drain' = [drain EXCEPT !.todo = @ \ {s}, !.later = @ \cup {s}]
    /\ UNCHANGED <<ledgerVars, th, result, env>>

TakeUp(s) ==
    /\ Draining("round") /\ s \in drain.todo /\ ~Authority(s)
    /\ Resolved(s) /\ ~paused
    /\ drain' = [drain EXCEPT !.pc = "commit", !.now = s, !.todo = @ \ {s}]
    /\ UNCHANGED <<ledgerVars, th, result, env>>

CommitEntry(outcome) ==
    /\ Draining("commit")
    /\ OwnerCommit(drain.now, outcome)
    /\ drain' = IF outcome = "failed"
                THEN [drain EXCEPT !.pc = "round", !.later = @ \cup {drain.now}, !.now = NoSub]
                ELSE [drain EXCEPT !.pc = IF outcome = "acked" THEN "ack" ELSE "condemn",
                                   !.progress = TRUE]
    /\ UNCHANGED <<born, files, dead, flags, th, result, env>>

\* The fixpoint: another round over what was left, while the last one helped.
EndRound ==
    /\ Draining("round") /\ drain.todo = {}
    /\ drain' = IF drain.progress
                THEN [drain EXCEPT !.todo = drain.later, !.later = {}, !.progress = FALSE]
                ELSE IdleDrain
    /\ UNCHANGED <<ledgerVars, th, result, env>>

BackTo == [drain EXCEPT !.pc = drain.back, !.now = NoSub]

\* _ack: the receipt is written first, then the envelope moves; a failure of
\* either, before or after its rename, is caught.
WriteReceipt ==
    /\ Draining("ack")
    /\ \/ /\ receipts' = receipts \cup {drain.now} /\ NoFault
          /\ drain' = [drain EXCEPT !.pc = "settle"]
       \/ /\ receipts' \in {receipts, receipts \cup {drain.now}} /\ Fault("ack")
          /\ drain' = BackTo
    /\ UNCHANGED <<born, turns, place, sidecars, dead, flags, th, result, env>>

MoveAcked ==
    /\ Draining("settle")
    /\ \/ Move(drain.now, "acked") /\ NoFault
       \/ Fault("ack") /\ (UNCHANGED place \/ Move(drain.now, "acked"))
    /\ drain' = BackTo
    /\ UNCHANGED <<born, turns, receipts, sidecars, dead, flags, th, result, env>>

\* A mutant of WriteSidecar: the envelope moves even if the sidecar failed.
WriteSidecarOrNot ==
    /\ Draining("condemn")
    /\ \/ sidecars' = sidecars \cup {drain.now} /\ NoFault
       \/ Fault("quarantine") /\ UNCHANGED sidecars
    /\ drain' = [drain EXCEPT !.pc = "refuse"]
    /\ UNCHANGED <<born, turns, place, receipts, dead, flags, th, result, env>>

\* _quarantine: the error sidecar, then the envelope moves; here a failure is
\* not caught and ends drain_once and the drainer thread with it.
WriteSidecar ==
    /\ Draining("condemn")
    /\ \/ /\ sidecars' = sidecars \cup {drain.now} /\ NoFault
          /\ drain' = [drain EXCEPT !.pc = "refuse"]
       \/ /\ sidecars' \in {sidecars, sidecars \cup {drain.now}} /\ Fault("quarantine")
          /\ drain' = [IdleDrain EXCEPT !.pc = "raised"]
    /\ UNCHANGED <<born, turns, place, receipts, dead, flags, th, result, env>>

MoveRefused ==
    /\ Draining("refuse")
    /\ \/ Move(drain.now, "refused") /\ NoFault /\ drain' = BackTo
       \/ /\ Fault("quarantine") /\ drain' = [IdleDrain EXCEPT !.pc = "raised"]
          /\ UNCHANGED place \/ Move(drain.now, "refused")
    /\ UNCHANGED <<born, turns, receipts, sidecars, dead, flags, th, result, env>>

\* The parent lookup guards its connect, not its SELECT.
LookupRaises(s) ==
    /\ Draining("round") /\ s \in drain.todo /\ ~Authority(s) /\ edge[s] # NoSub
    /\ Fault("lookup")
    /\ drain' = [IdleDrain EXCEPT !.pc = "raised"]
    /\ UNCHANGED <<born, turns, files, dead, flags, th, result, env>>

Drain ==
    \/ StartPass \/ BreakScan \/ EndScan \/ EndRound
    \/ \E d \in Directory : ListDirectory(d)
    \/ \E s \in Sub : ReadFile(s) \/ JudgeAuthority(s) \/ Defer(s) \/ TakeUp(s) \/ LookupRaises(s)
    \/ \E outcome \in {"acked", "refused", "failed"} : CommitEntry(outcome)
    \/ WriteReceipt \/ MoveAcked \/ WriteSidecar \/ MoveRefused

-----------------------------------------------------------------------------
(* The environment                                                         *)

\* A flag is set against the ledger: commits paused, or writes off.
Pause == ~paused /\ paused' = TRUE /\ UNCHANGED writes
Brake == writes /\ writes' = FALSE /\ UNCHANGED paused
SetFlag ==
    /\ flips < MaxFlips /\ flips' = flips + 1
    /\ Pause \/ Brake
    /\ UNCHANGED <<born, turns, files, dead, faults, th, result, drain, crashes>>

\* The owner resumes, or lets the ledger write again (for a daemon started
\* with writes off, whose drainer was never started, that takes a restart).
ClearFlag ==
    /\ \/ paused /\ paused' = FALSE /\ UNCHANGED writes
       \/ ~writes /\ writes' = TRUE /\ UNCHANGED paused
    /\ UNCHANGED <<born, turns, files, dead, faults, th, result, drain, env>>

\* The daemon dies and restarts, or a surface does: what was in memory is gone.
Crash ==
    /\ crashes < MaxCrashes /\ crashes' = crashes + 1
    /\ \/ th' = [t \in Thread |-> IF t \in Daemon THEN IdleThread ELSE th[t]] /\ drain' = IdleDrain
       \/ \E t \in Surface : th' = [th EXCEPT ![t] = IdleThread] /\ UNCHANGED drain
    /\ UNCHANGED <<ledgerVars, result, flips>>

Next ==
    \/ \E t \in Thread, api \in Api, bytes \in Bytes : Hear(t, api, bytes)
    \/ \E t \in Thread, bytes \in Bytes : Answer(t, bytes) \/ Speak(t, bytes)
    \/ \E t \in Thread : Part(t) \/ Recording(t)
    \/ Drain \/ SetFlag \/ ClearFlag \/ Crash

Spec == Init /\ [][Next]_vars

\* The drainer's thread polls on, and the owner in the end clears a flag.
Fairness == WF_vars(Drain) /\ WF_vars(ClearFlag)

FairSpec == Spec /\ Fairness

-----------------------------------------------------------------------------
(* Correctness                                                             *)

\* Types of the ledger's files and of every thread's local variables.
TypeOK ==
    /\ StoreTypeOK
    /\ th \in [Thread -> ThreadState]
    /\ result \in [Life -> Result]
    /\ drain \in DrainState
    /\ flips \in Nat /\ crashes \in Nat

\* A submission is one turn however often it is redriven: after a crash
\* between commit and receipt, after a failed ack, after a commit whose
\* success was never heard of.
OneTurnPerSubmission ==
    \A i, j \in 1..Len(chain) : chain[i] = chain[j] => i = j

\* A turn that names a parent comes after its parent's turn.
ParentsFirst ==
    \A i \in 1..Len(chain) :
        edge[chain[i]] # NoSub
        => \E j \in 1..(i - 1) : chain[j] = edge[chain[i]]

\* What a caller was told of a life is so, and stays so: the turn is in the
\* chain, the envelope in a directory, the dead letter on file.  Of a life of
\* which it was told nothing a thread is still at work, unless one crashed.
ToldIsKept ==
    \A l \in Life :
        /\ result[l] = "committed" => Committed(Attempt(l))
        /\ result[l] = "custody" => place[Spooled(l)] # "none"
        /\ result[l] = "held" => place[Attempt(l)] # "none"
        /\ result[l] = "dead" => dead[l] # "none"
        /\ l <= lives /\ result[l] = "none" /\ crashes = 0
           => \E t \in Thread : l \in {th[t].life, th[t].reply}

\* The two ends of an envelope exclude each other, are documented and are
\* deserved: what is acked has its receipt and its turn, what is refused has
\* its error sidecar and never became a turn; and nothing good is refused, by
\* the drainer or in a dead letter, because an operation failed.
EndsAreDocumented ==
    /\ \A s \in Sub :
        /\ place[s] = "acked" => s \in receipts /\ Committed(s)
        /\ s \in receipts => Committed(s)
        /\ place[s] = "refused" => s \in sidecars /\ ~Committed(s) /\ payload[LifeOf(s)] # "good"
    /\ \A l \in Life : dead[l] = "refused" => payload[l] # "good"

\* The one-time marker is in the ledger at most once, whoever checks for it
\* at the same time.
OneMarker ==
    \A i, j \in 1..Len(chain) :
        payload[LifeOf(chain[i])] = "marker" /\ payload[LifeOf(chain[j])] = "marker" => i = j

\* A submission the ledger can admit: its bytes are good, and so are those of
\* the parent it waits for.
Fit(s) ==
    LET e == edge[s]
    IN /\ payload[LifeOf(s)] = "good"
       /\ e = NoSub \/ Committed(e) \/ payload[LifeOf(e)] = "good"

\* In custody, or refused, although the ledger can admit it.
Waits(s) == place[s] \in {"pending", "refused"} /\ Fit(s)


-----------------------------------------------------------------------------
(* Refinement: the ledger keeps the promise of LedgerAdmission             *)

FateOf(s) ==
    IF place[s] = "refused" \/ (s = Attempt(LifeOf(s)) /\ dead[LifeOf(s)] = "refused") THEN "refused"
    ELSE IF place[s] # "none" \/ (s = Attempt(LifeOf(s)) /\ dead[LifeOf(s)] = "failed") THEN "kept"
    ELSE "none"

Admission == INSTANCE LedgerAdmission
                 WITH ledger <- chain, fate <- [s \in Sub |-> FateOf(s)],
                      parent <- edge

\* Redrives, two lanes, dead letters, pauses and crashes together never admit
\* a submission twice, before its parent, or after it was refused.
ImplementsAdmission == Admission!Spec

=============================================================================
