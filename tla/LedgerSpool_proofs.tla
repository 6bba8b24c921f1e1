------------------------- MODULE LedgerSpool_proofs -------------------------
(***************************************************************************)
(* Proofs about LedgerSpool, for any number of lives, threads, failures,   *)
(* flag flips and crashes.                                                 *)
(*                                                                         *)
(* The inductive invariant SpoolInv has one part for the files, one for    *)
(* the threads and one for the drainer.  A step of the drainer disturbs    *)
(* the threads' part only through the files, and the other way round: the  *)
(* lemmas ThreadsKept and DrainKept say how little of the files each of    *)
(* them looks at.  MarkerInv is kept on top of SpoolInv: which turns are   *)
(* markers is settled once they are written.  So is DeadInv, which says    *)
(* when a dead letter is written; with it every step maps to a step of     *)
(* LedgerAdmission, or to a stutter.                                       *)
(***************************************************************************)
EXTENDS LedgerSpool, TLAPS

-----------------------------------------------------------------------------
(* The inductive invariant                                                 *)

\* A life recorded by a thread's direct lane: its attempt is in no directory
\* and not committed, and its parent's turn exists.
Free(l) ==
    /\ place[Attempt(l)] = "none" /\ ~Committed(Attempt(l))
    /\ payload[l] # "garbled"
    /\ Resolved(Attempt(l))

\* What a thread's local variables say.
ThreadOK(t) ==
    /\ th[t].pc # "idle" => On(t) \in 1..lives
    /\ th[t].reply # NoLife =>
         /\ th[t].pc \in {"owner", "report"}
         /\ th[t].reply \in 1..lives /\ th[t].reply # On(t)
         /\ Free(th[t].reply)
    /\ th[t].pc = "spool" => place[Spooled(On(t))] = "none"
    /\ th[t].pc \in {"ensure", "owner"} => Free(On(t))

\* The lives a thread is recording, or will when the marker is written.
Claims(t) ==
    (IF th[t].pc = "idle" THEN {} ELSE {On(t)})
    \cup (IF th[t].reply = NoLife THEN {} ELSE {th[t].reply})

ClaimsApart == \A t, u \in Thread : t # u => Claims(t) \cap Claims(u) = {}

ToldTrue == \A l \in Life : result[l] = "committed" => Committed(Attempt(l))

ThreadInv == (\A t \in Thread : ThreadOK(t)) /\ ClaimsApart /\ ToldTrue

\* What the drainer has in hand: the envelopes it listed or read are pending,
\* each in one place, and the one it works on is committed or is not.
Busy == drain.pc \in {"commit", "condemn", "refuse", "ack", "settle"}
Listed == drain.files \cup drain.todo \cup drain.later

DrainInv ==
    /\ \A s \in Listed : place[s] = "pending" /\ DirectoryOf(s) \notin drain.dirs
    /\ \A s \in drain.todo \cup drain.later : payload[LifeOf(s)] # "garbled"
    /\ drain.files \cap (drain.todo \cup drain.later) = {} /\ drain.todo \cap drain.later = {}
    /\ Busy => /\ drain.now \in Sub \ Listed
               /\ place[drain.now] = "pending" /\ DirectoryOf(drain.now) \notin drain.dirs
    /\ drain.pc = "commit" => payload[LifeOf(drain.now)] \notin {"garbled", "marker"}
    /\ drain.pc \in {"ack", "settle"} => Committed(drain.now)
    /\ drain.pc = "settle" => drain.now \in receipts
    /\ drain.pc \in {"condemn", "refuse"} => ~Committed(drain.now)
    /\ drain.pc = "refuse" => drain.now \in sidecars

\* The entry about to be committed had its parent's turn when it was taken up.
Ready == drain.pc = "commit" => Resolved(drain.now)

\* What the files say of each other: nothing of an unlived life, only good
\* bytes and the marker commit, the marker never from custody and a spooled
\* submission only from it.
FilesAgree ==
    \A s \in Sub :
        /\ LifeOf(s) > lives => place[s] = "none" /\ ~Committed(s)
        /\ Committed(s) => payload[LifeOf(s)] \in {"good", "marker"}
        /\ place[s] # "none" /\ payload[LifeOf(s)] = "marker" => ~Committed(s)
        /\ Committed(s) /\ place[s] = "none" => s = Attempt(LifeOf(s))

\* The ends of an envelope, their cause left aside (UnfitInv has it).
EndsKept ==
    \A s \in Sub :
        /\ place[s] = "acked" => s \in receipts /\ Committed(s)
        /\ s \in receipts => Committed(s)
        /\ place[s] = "refused" => s \in sidecars /\ ~Committed(s)

FileInv == FilesAgree /\ OneTurnPerSubmission /\ ParentsFirst /\ EndsKept

SpoolInv == TypeOK /\ FileInv /\ ThreadInv /\ DrainInv /\ Ready
-----------------------------------------------------------------------------
(* Type correctness                                                        *)

\* The identities of lives are submissions, and those of no other life.
LEMMA Identities ==
    /\ \A l \in Life : Attempt(l) \in Sub /\ Spooled(l) \in Sub
    /\ \A l \in Life : LifeOf(Attempt(l)) = l /\ LifeOf(Spooled(l)) = l
    /\ \A l \in Life, m \in Life : Attempt(l) # Spooled(m)
    /\ \A l \in Life, m \in Life : l # m => Attempt(l) # Attempt(m) /\ Spooled(l) # Spooled(m)
    /\ \A s \in Sub : LifeOf(s) \in Life /\ s \in {Attempt(LifeOf(s)), Spooled(LifeOf(s))}
  BY DEF Attempt, Spooled, Sub, LifeOf

\* The operations on the files keep them typed.
LEMMA StoreOperations ==
    ASSUME StoreTypeOK
    PROVE  /\ \A p : Fault(p) => faults' \in 0..MaxFaults
           /\ NoFault => faults' \in 0..MaxFaults
           /\ \A s \in Sub : WriteTurn(s) => chain' \in Seq(Sub) /\ marked' \in BOOLEAN
           /\ \A s \in Sub : Publish(s) => place' \in [Sub -> Place]
           /\ \A s \in Sub, d \in Place : Move(s, d) => place' \in [Sub -> Place]
           /\ \A l \in Life, c \in Category : DeadLetter(l, c) =>
                dead' \in [Life -> Category \cup {"none"}]
           /\ \A l \in Life, b \in Payload, e \in Sub \cup {NoSub} : Live(l, b, e) =>
                /\ lives' \in 0..MaxLives
                /\ payload' \in [Life -> Payload]
                /\ edge' \in [Sub -> Sub \cup {NoSub}]
<1>1. \A p : Fault(p) => faults' \in 0..MaxFaults
  BY LedgerAssumption DEF StoreTypeOK, Fault
<1>2. NoFault => faults' \in 0..MaxFaults
  BY DEF StoreTypeOK, NoFault
<1>3. ASSUME NEW s \in Sub, WriteTurn(s)
      PROVE  chain' \in Seq(Sub) /\ marked' \in BOOLEAN
  <2>1. chain' \in Seq(Sub)
    BY <1>3 DEF StoreTypeOK, WriteTurn
  <2>2. marked' \in BOOLEAN
    BY <1>3, ZenonT(20) DEF StoreTypeOK, WriteTurn
  <2> QED
    BY <2>1, <2>2
<1>4. \A s \in Sub : Publish(s) => place' \in [Sub -> Place]
  BY DEF StoreTypeOK, Publish, Place
<1>5. \A s \in Sub, d \in Place : Move(s, d) => place' \in [Sub -> Place]
  BY DEF StoreTypeOK, Move
<1>6. \A l \in Life, c \in Category : DeadLetter(l, c) => dead' \in [Life -> Category \cup {"none"}]
  BY DEF StoreTypeOK, DeadLetter
<1>7. ASSUME NEW l \in Life, NEW b \in Payload, NEW e \in Sub \cup {NoSub}, Live(l, b, e)
      PROVE  /\ lives' \in 0..MaxLives
             /\ payload' \in [Life -> Payload]
             /\ edge' \in [Sub -> Sub \cup {NoSub}]
  <2>1. lives' \in 0..MaxLives
    BY <1>7, LedgerAssumption DEF Live, Life
  <2> QED
    BY <1>7, <2>1 DEF StoreTypeOK, Live
<1> QED
  BY <1>1, <1>2, <1>3, <1>4, <1>5, <1>6, <1>7

\* What an owner commit does to the chain, whatever its outcome.
LEMMA CommitMoves ==
    ASSUME StoreTypeOK, NEW s \in Sub, NEW outcome, OwnerCommit(s, outcome)
    PROVE  /\ chain' \in Seq(Sub) /\ marked' \in BOOLEAN /\ faults' \in 0..MaxFaults
           /\ UNCHANGED turns \/ WriteTurn(s)
           /\ outcome = "acked" => WriteTurn(s)
           /\ outcome = "refused" => WriterRefuses(s) /\ UNCHANGED turns
<1>1. UNCHANGED turns \/ WriteTurn(s)
  BY DEF OwnerCommit
<1>2. chain' \in Seq(Sub) /\ marked' \in BOOLEAN
  BY <1>1, StoreOperations DEF StoreTypeOK, turns
<1>3. faults' \in 0..MaxFaults
  BY StoreOperations DEF OwnerCommit
<1> QED
  BY <1>1, <1>2, <1>3 DEF OwnerCommit

\* A life that begins names one parent under either identity; no other
\* submission's changes.
LEMMA LifeNames ==
    ASSUME StoreTypeOK, NEW l \in Life, NEW b, NEW e, Live(l, b, e)
    PROVE  /\ payload'[l] = b /\ \A m \in Life : m # l => payload'[m] = payload[m]
           /\ edge'[Attempt(l)] = e /\ edge'[Spooled(l)] = e
           /\ \A s \in Sub : LifeOf(s) # l => edge'[s] = edge[s]
           /\ \A m \in Life : m # l => edge'[Attempt(m)] = edge[Attempt(m)]
<1>1. /\ Attempt(l) \in Sub /\ Spooled(l) \in Sub /\ Attempt(l) # Spooled(l)
      /\ LifeOf(Attempt(l)) = l /\ LifeOf(Spooled(l)) = l
  BY Identities
<1>2. \A m \in Life : Attempt(m) \in Sub /\ LifeOf(Attempt(m)) = m
  BY Identities
<1>3. edge' = [edge EXCEPT ![Attempt(l)] = e, ![Spooled(l)] = e]
  BY DEF Live
<1>4. payload'[l] = b /\ \A m \in Life : m # l => payload'[m] = payload[m]
  BY DEF Live, StoreTypeOK
<1>5. edge'[Attempt(l)] = e /\ edge'[Spooled(l)] = e
  BY <1>1, <1>3 DEF StoreTypeOK
<1>6. \A s \in Sub : LifeOf(s) # l => edge'[s] = edge[s]
  BY <1>1, <1>3 DEF StoreTypeOK
<1> QED
  BY <1>2, <1>4, <1>5, <1>6

\* A call's return, and the two ways it begins, keep the threads typed.
ThreadsTypeOK == th \in [Thread -> ThreadState] /\ result \in [Life -> Result]

LEMMA ReturnType ==
    ASSUME TypeOK, NEW t \in Thread, NEW r \in Result, Return(t, r)
    PROVE  ThreadsTypeOK'
<1>1. th[t] \in ThreadState
  BY DEF TypeOK
<1>2. ReplyNext(t) \in ThreadState
  BY <1>1 DEF ReplyNext, ThreadState
<1>3. Done(t, On(t)) \in ThreadState
  BY <1>1 DEF Done, ThreadState, IdleThread, On
<1>4. th' \in [Thread -> ThreadState]
  BY <1>2, <1>3 DEF TypeOK, Return
<1>5. result' \in [Life -> Result]
  BY DEF TypeOK, Return
<1> QED
  BY <1>4, <1>5 DEF ThreadsTypeOK

LEMMA EnterType ==
    ASSUME TypeOK, NEW t \in Thread, NEW api \in RecordingApi, NEW l \in Life,
           NEW point \in {"spool", "ensure", "owner"}, Enter(t, api, l, point)
    PROVE  ThreadsTypeOK'
<1>1. th[t] \in ThreadState
  BY DEF TypeOK
<1>2. CASE writes
  <2>1. th' = [th EXCEPT ![t] = [th[t] EXCEPT !.pc = point, !.api = api, !.life = l]]
    BY <1>1, <1>2 DEF Enter, TypeOK
  <2>2. [th[t] EXCEPT !.pc = point, !.api = api, !.life = l] \in ThreadState
    BY <1>1 DEF ThreadState
  <2> QED
    BY <1>2, <2>1, <2>2 DEF Enter, TypeOK, ThreadsTypeOK
<1>3. CASE ~writes
  <2>1. [Done(t, l) EXCEPT !.api = api] \in ThreadState
    BY <1>1 DEF Done, ThreadState, IdleThread
  <2>2. "dormant" \in Result
    BY DEF Result
  <2> QED
    BY <1>3, <2>1, <2>2 DEF Enter, TypeOK, ThreadsTypeOK
<1> QED
  BY <1>2, <1>3

LEMMA GotoType ==
    ASSUME TypeOK, NEW t \in Thread, NEW point \in {"owner", "report"},
           NEW why \in {"none", "failed", "refused", "custody"}
    PROVE  /\ [th EXCEPT ![t].pc = point] \in [Thread -> ThreadState]
           /\ [th EXCEPT ![t].pc = point, ![t].why = why] \in [Thread -> ThreadState]
  BY DEF TypeOK, ThreadState

\* The drainer's steps that only change its own variables.
DrainQuiet == UNCHANGED <<ledgerVars, th, result, env>>

LEMMA QuietType ==
    ASSUME TypeOK, DrainQuiet, drain' \in DrainState
    PROVE  TypeOK'
  BY DEF DrainQuiet, TypeOK, StoreTypeOK, turns, files, flags, born, env, ledgerVars

LEMMA DrainerTypes ==
    ASSUME TypeOK, DrainInv, Drain
    PROVE  TypeOK'
<1> USE DEF Draining
<1>a. drain \in DrainState /\ IdleDrain \in DrainState
  BY DEF TypeOK, DrainState, IdleDrain
<1>b. BackTo \in DrainState
  BY <1>a DEF BackTo, DrainState
<1>c. [IdleDrain EXCEPT !.pc = "raised"] \in DrainState
  BY DEF IdleDrain, DrainState
<1>1. CASE StartPass
  <2>1. [IdleDrain EXCEPT !.pc = "scan", !.dirs = Directory] \in DrainState
    BY DEF IdleDrain, DrainState
  <2> QED
    BY <1>1, <2>1, QuietType DEF StartPass, DrainQuiet
<1>2. CASE BreakScan
  <2>1. [drain EXCEPT !.files = {}] \in DrainState
    BY <1>a DEF DrainState
  <2> QED
    BY <1>2, <2>1, QuietType DEF BreakScan, DrainQuiet
<1>3. CASE EndScan
  <2>1. [drain EXCEPT !.pc = "round", !.back = "round"] \in DrainState
    BY <1>a DEF DrainState
  <2> QED
    BY <1>3, <2>1, QuietType DEF EndScan, DrainQuiet
<1>4. CASE EndRound
  <2>1. [drain EXCEPT !.todo = drain.later, !.later = {}, !.progress = FALSE] \in DrainState
    BY <1>a DEF DrainState
  <2> QED
    BY <1>4, <1>a, <2>1, QuietType DEF EndRound, DrainQuiet
<1>5. ASSUME NEW d \in Directory, ListDirectory(d)
      PROVE  TypeOK'
  <2>1. [drain EXCEPT !.dirs = @ \ {d},
                      !.files = {s \in Sub : place[s] = "pending" /\ DirectoryOf(s) = d}] \in DrainState
    BY <1>a DEF DrainState
  <2> QED
    BY <1>5, <2>1, QuietType DEF ListDirectory, DrainQuiet
<1>6. ASSUME NEW s \in Sub, ReadFile(s)
      PROVE  TypeOK'
  <2>1. [drain EXCEPT !.pc = "condemn", !.back = "scan", !.now = s, !.files = @ \ {s}] \in DrainState
    BY <1>a DEF DrainState
  <2>2. [drain EXCEPT !.todo = @ \cup {s}, !.files = @ \ {s}] \in DrainState
    BY <1>a DEF DrainState
  <2> QED
    BY <1>6, <2>1, <2>2, QuietType DEF ReadFile, DrainQuiet
<1>7. ASSUME NEW s \in Sub, JudgeAuthority(s)
      PROVE  TypeOK'
  <2>1. [drain EXCEPT !.pc = "condemn", !.now = s, !.todo = @ \ {s}, !.progress = TRUE] \in DrainState
    BY <1>a DEF DrainState
  <2> QED
    BY <1>7, <2>1, QuietType DEF JudgeAuthority, DrainQuiet
<1>8. ASSUME NEW s \in Sub, Defer(s)
      PROVE  TypeOK'
  <2>1. [drain EXCEPT !.todo = @ \ {s}, !.later = @ \cup {s}] \in DrainState
    BY <1>a DEF DrainState
  <2> QED
    BY <1>8, <2>1, QuietType DEF Defer, DrainQuiet
<1>9. ASSUME NEW outcome, CommitEntry(outcome)
      PROVE  TypeOK'
  <2> DEFINE s == drain.now
  <2>0. s \in Sub
    BY <1>9 DEF CommitEntry, DrainInv, Busy
  <2>1. [drain EXCEPT !.pc = "round", !.later = @ \cup {s}, !.now = NoSub] \in DrainState
    BY <1>a, <2>0 DEF DrainState
  <2>2. [drain EXCEPT !.pc = IF outcome = "acked" THEN "ack" ELSE "condemn",
                      !.progress = TRUE] \in DrainState
    BY <1>a DEF DrainState
  <2>3. drain' \in DrainState
    BY <1>9, <2>1, <2>2 DEF CommitEntry
  <2>4. OwnerCommit(s, outcome)
    BY <1>9 DEF CommitEntry
  <2>5. chain' \in Seq(Sub) /\ marked' \in BOOLEAN /\ faults' \in 0..MaxFaults
    BY <2>0, <2>4, CommitMoves DEF TypeOK
  <2> QED
    BY <1>9, <2>3, <2>5 DEF CommitEntry, TypeOK, StoreTypeOK, turns, files, flags, born, env, ledgerVars
<1>10. CASE WriteReceipt
  <2>1. [drain EXCEPT !.pc = "settle"] \in DrainState
    BY <1>a DEF DrainState
  <2>2. drain' \in DrainState
    BY <1>10, <1>b, <2>1 DEF WriteReceipt
  <2>3. faults' \in 0..MaxFaults
    BY <1>10, StoreOperations DEF WriteReceipt, TypeOK
  <2>4. receipts' \subseteq Sub
    BY <1>10 DEF WriteReceipt, TypeOK, StoreTypeOK, DrainInv, Busy
  <2> QED
    BY <1>10, <2>2, <2>3, <2>4 DEF WriteReceipt, TypeOK, StoreTypeOK, turns, files, flags, born, env, ledgerVars
<1>11. CASE MoveAcked
  <2>1. faults' \in 0..MaxFaults
    BY <1>11, StoreOperations DEF MoveAcked, TypeOK
  <2>2. place' \in [Sub -> Place]
    BY <1>11 DEF MoveAcked, Move, TypeOK, StoreTypeOK, Place
  <2> QED
    BY <1>11, <1>b, <2>1, <2>2 DEF MoveAcked, TypeOK, StoreTypeOK, turns, files, flags, born, env, ledgerVars
<1>12. CASE WriteSidecar
  <2>1. [drain EXCEPT !.pc = "refuse"] \in DrainState
    BY <1>a DEF DrainState
  <2>2. drain' \in DrainState
    BY <1>12, <1>c, <2>1 DEF WriteSidecar
  <2>3. faults' \in 0..MaxFaults
    BY <1>12, StoreOperations DEF WriteSidecar, TypeOK
  <2>4. sidecars' \subseteq Sub
    BY <1>12 DEF WriteSidecar, TypeOK, StoreTypeOK, DrainInv, Busy
  <2> QED
    BY <1>12, <2>2, <2>3, <2>4 DEF WriteSidecar, TypeOK, StoreTypeOK, turns, files, flags, born, env, ledgerVars
<1>13. CASE MoveRefused
  <2>1. drain' \in DrainState
    BY <1>13, <1>b, <1>c DEF MoveRefused
  <2>2. faults' \in 0..MaxFaults
    BY <1>13, StoreOperations DEF MoveRefused, TypeOK
  <2>3. place' \in [Sub -> Place]
    BY <1>13 DEF MoveRefused, Move, TypeOK, StoreTypeOK, Place
  <2> QED
    BY <1>13, <2>1, <2>2, <2>3 DEF MoveRefused, TypeOK, StoreTypeOK, turns, files, flags, born, env, ledgerVars
<1>14. ASSUME NEW s \in Sub, TakeUp(s)
       PROVE  TypeOK'
  <2>1. [drain EXCEPT !.pc = "commit", !.now = s, !.todo = @ \ {s}] \in DrainState
    BY <1>a DEF DrainState
  <2> QED
    BY <1>14, <2>1, QuietType DEF TakeUp, DrainQuiet
<1>15. ASSUME NEW s \in Sub, LookupRaises(s)
       PROVE  TypeOK'
  <2>1. faults' \in 0..MaxFaults
    BY <1>15, StoreOperations DEF LookupRaises, TypeOK
  <2> QED
    BY <1>15, <1>c, <2>1 DEF LookupRaises, TypeOK, StoreTypeOK, turns, files, flags, born, env, ledgerVars
<1> QED
  BY <1>1, <1>2, <1>3, <1>4, <1>5, <1>6, <1>7, <1>8, <1>9, <1>10, <1>11, <1>12,
     <1>13, <1>14, <1>15 DEF Drain

\* The steps of the threads.
LEMMA ThreadTypes ==
    ASSUME TypeOK, ThreadInv, NEW t \in Thread
    PROVE  /\ \A api \in Api, bytes \in Bytes : Hear(t, api, bytes) => TypeOK'
           /\ \A bytes \in Bytes : Answer(t, bytes) \/ Speak(t, bytes) => TypeOK'
           /\ Part(t) => TypeOK'
           /\ Recording(t) => TypeOK'
<1>a. th[t] \in ThreadState /\ IdleThread \in ThreadState
  BY DEF TypeOK, ThreadState, IdleThread, RecordingApi
<1>b. ASSUME th[t].pc # "idle"
      PROVE  On(t) \in Life /\ Attempt(On(t)) \in Sub /\ Spooled(On(t)) \in Sub
  <2>1. On(t) \in Life
    BY <1>b, LedgerAssumption DEF ThreadInv, ThreadOK, On, Life, TypeOK, StoreTypeOK
  <2> QED
    BY <2>1, Identities
<1>1. ASSUME NEW api \in Api, NEW bytes \in Bytes, Hear(t, api, bytes)
      PROVE  TypeOK'
  <2>1. Live(lives + 1, bytes, NoSub) /\ bytes \in Payload /\ api \in RecordingApi
    BY <1>1, SpoolAssumption DEF Hear
  <2>2. lives + 1 \in Life
    BY <2>1 DEF Live
  <2>3. ThreadsTypeOK'
    BY <1>1, <2>1, <2>2, EnterType DEF Hear, Lane
  <2>4. /\ lives' \in 0..MaxLives
        /\ payload' \in [Life -> Payload]
        /\ edge' \in [Sub -> Sub \cup {NoSub}]
    BY <2>1, <2>2, StoreOperations DEF TypeOK
  <2> QED
    BY <1>1, <2>3, <2>4 DEF Hear, ThreadsTypeOK, TypeOK, StoreTypeOK, turns, files, flags, born, env, ledgerVars
<1>2. ASSUME NEW bytes \in Bytes, Answer(t, bytes)
      PROVE  TypeOK'
  <2>1. bytes \in Payload /\ th[t].api \in RecordingApi
    BY <1>a, SpoolAssumption DEF ThreadState
  <2>2. EdgeTo(th[t].held) \in Sub \cup {NoSub}
    <3>1. th[t].held \in Life
      BY <1>2, <1>a DEF Answer, ThreadState
    <3> QED
      BY <3>1, Identities DEF EdgeTo
  <2>3. PICK e \in Sub \cup {NoSub} : Live(lives + 1, bytes, e)
    BY <1>2, <2>2 DEF Answer
  <2>4. lives + 1 \in Life
    BY <2>3 DEF Live
  <2>5. ThreadsTypeOK'
    BY <1>2, <2>1, <2>4, EnterType DEF Answer, Lane
  <2>6. /\ lives' \in 0..MaxLives
        /\ payload' \in [Life -> Payload]
        /\ edge' \in [Sub -> Sub \cup {NoSub}]
    BY <2>1, <2>3, <2>4, StoreOperations DEF TypeOK
  <2>7. faults' \in 0..MaxFaults
    BY <1>2, StoreOperations DEF Answer, TypeOK
  <2> QED
    BY <1>2, <2>5, <2>6, <2>7 DEF Answer, ThreadsTypeOK, TypeOK, StoreTypeOK, turns, files, flags, born, env, ledgerVars
<1>3. ASSUME Part(t)
      PROVE  TypeOK'
  BY <1>3, <1>a DEF Part, TypeOK, StoreTypeOK, turns, files, flags, born, env, ledgerVars
<1>4. ASSUME SpoolLane(t)
      PROVE  TypeOK'
  <2>1. Spooled(On(t)) \in Sub
    BY <1>4, <1>b DEF SpoolLane, At
  <2>2. place' \in [Sub -> Place]
    BY <1>4, <2>1, StoreOperations DEF SpoolLane, PublishFails, TypeOK, StoreTypeOK
  <2>3. faults' \in 0..MaxFaults
    BY <1>4, StoreOperations DEF SpoolLane, PublishFails, TypeOK
  <2>4. ThreadsTypeOK'
    <3>1. {"dormant", "custody", "lost"} \subseteq Result
      BY DEF Result
    <3>2. CASE \E r \in {"dormant", "custody", "lost"} : Return(t, r)
      BY <3>1, <3>2, ReturnType
    <3>3. CASE th' = [th EXCEPT ![t].pc = "report", ![t].why = "custody"] /\ UNCHANGED result
      BY <3>3, GotoType DEF ThreadsTypeOK, TypeOK
    <3> QED
      BY <1>4, <3>2, <3>3 DEF SpoolLane
  <2> QED
    BY <1>4, <2>2, <2>3, <2>4 DEF SpoolLane, ThreadsTypeOK, TypeOK, StoreTypeOK, turns, files, flags, born, env, ledgerVars
<1>5. ASSUME EnsureMarker(t)
      PROVE  TypeOK'
  <2>1. faults' \in 0..MaxFaults
    BY <1>5, StoreOperations DEF EnsureMarker, TypeOK
  <2>2. CASE Goto(t, "owner") /\ UNCHANGED born
    BY <1>5, <2>1, <2>2, GotoType DEF EnsureMarker, Goto, TypeOK, StoreTypeOK, turns, files, flags, born, env, ledgerVars
  <2>3. CASE Live(lives + 1, "marker", NoSub) /\
             th' = [th EXCEPT ![t].pc = "owner", ![t].life = lives + 1, ![t].reply = On(t)]
    <3>1. lives + 1 \in Life /\ On(t) \in Life
      BY <1>5, <1>b, <2>3 DEF Live, EnsureMarker, At
    <3>2. /\ lives' \in 0..MaxLives
          /\ payload' \in [Life -> Payload]
          /\ edge' \in [Sub -> Sub \cup {NoSub}]
      BY <2>3, <3>1, StoreOperations DEF TypeOK, Payload
    <3>3. th' \in [Thread -> ThreadState]
      <4>1. [th[t] EXCEPT !.pc = "owner", !.life = lives + 1, !.reply = On(t)] \in ThreadState
        BY <1>a, <3>1 DEF ThreadState
      <4>2. th' = [th EXCEPT ![t] = [th[t] EXCEPT !.pc = "owner", !.life = lives + 1, !.reply = On(t)]]
        BY <1>a, <2>3 DEF TypeOK
      <4> QED
        BY <4>1, <4>2 DEF TypeOK
    <3> QED
      BY <1>5, <2>1, <3>2, <3>3 DEF EnsureMarker, TypeOK, StoreTypeOK, turns, files, flags, born, env, ledgerVars
  <2> QED
    BY <1>5, <2>2, <2>3 DEF EnsureMarker
<1>6. ASSUME HelperWrite(t)
      PROVE  TypeOK'
  <2>1. Attempt(On(t)) \in Sub
    BY <1>6, <1>b DEF HelperWrite, At
  <2>2. {"held", "lost", "dormant", "committed"} \subseteq Result
    BY DEF Result
  <2>3. CASE writes /\ paused
    <3>1. place' \in [Sub -> Place]
      BY <1>6, <2>1, <2>3, StoreOperations DEF HelperWrite, PublishFails, TypeOK, StoreTypeOK
    <3>2. faults' \in 0..MaxFaults
      BY <1>6, <2>3, StoreOperations DEF HelperWrite, PublishFails, TypeOK
    <3>3. ThreadsTypeOK'
      BY <1>6, <2>2, <2>3, ReturnType DEF HelperWrite
    <3> QED
      BY <1>6, <2>3, <3>1, <3>2, <3>3 DEF HelperWrite, ThreadsTypeOK, TypeOK, StoreTypeOK, turns, files, flags, born, env, ledgerVars
  <2>4. CASE ~(writes /\ paused)
    <3>1. PICK outcome \in {"acked", "refused", "failed"} :
            /\ OwnerCommit(Attempt(On(t)), outcome)
            /\ \/ \E r \in {"dormant", "committed"} : Return(t, r)
               \/ /\ outcome # "acked"
                  /\ th' = [th EXCEPT ![t].pc = "report", ![t].why = outcome] /\ UNCHANGED result
      BY <1>6, <2>4 DEF HelperWrite
    <3>2. chain' \in Seq(Sub) /\ marked' \in BOOLEAN /\ faults' \in 0..MaxFaults
      BY <2>1, <3>1, CommitMoves DEF TypeOK
    <3>3. ThreadsTypeOK'
      <4>1. CASE \E r \in {"dormant", "committed"} : Return(t, r)
        BY <2>2, <4>1, ReturnType
      <4>2. CASE /\ outcome # "acked"
                 /\ th' = [th EXCEPT ![t].pc = "report", ![t].why = outcome] /\ UNCHANGED result
        BY <4>2, GotoType DEF ThreadsTypeOK, TypeOK
      <4> QED
        BY <3>1, <4>1, <4>2
    <3> QED
      BY <1>6, <2>4, <3>2, <3>3 DEF HelperWrite, ThreadsTypeOK, TypeOK, StoreTypeOK, turns, files, flags, born, env, ledgerVars
  <2> QED
    BY <2>3, <2>4
<1>7. ASSUME RecorderCommit(t)
      PROVE  TypeOK'
  <2>1. Attempt(On(t)) \in Sub
    BY <1>7, <1>b DEF RecorderCommit, At
  <2>2. PICK outcome \in {"acked", "refused", "failed"} :
          /\ OwnerCommit(Attempt(On(t)), outcome)
          /\ \/ Return(t, "committed")
             \/ /\ outcome # "acked"
                /\ th' = [th EXCEPT ![t].pc = "report", ![t].why = outcome] /\ UNCHANGED result
    BY <1>7 DEF RecorderCommit
  <2>3. chain' \in Seq(Sub) /\ marked' \in BOOLEAN /\ faults' \in 0..MaxFaults
    BY <2>1, <2>2, CommitMoves DEF TypeOK
  <2>4. ThreadsTypeOK'
    <3>1. CASE Return(t, "committed")
      BY <3>1, ReturnType DEF Result
    <3>2. CASE /\ outcome # "acked"
               /\ th' = [th EXCEPT ![t].pc = "report", ![t].why = outcome] /\ UNCHANGED result
      BY <3>2, GotoType DEF ThreadsTypeOK, TypeOK
    <3> QED
      BY <2>2, <3>1, <3>2
  <2> QED
    BY <1>7, <2>3, <2>4 DEF RecorderCommit, ThreadsTypeOK, TypeOK, StoreTypeOK, turns, files, flags, born, env, ledgerVars
<1>8. ASSUME Report(t)
      PROVE  TypeOK'
  <2>1. {"dormant", "dead", "lost"} \subseteq Result
    BY DEF Result
  <2>2. ThreadsTypeOK'
    BY <1>8, <2>1, ReturnType DEF Report
  <2>3. dead' \in [Life -> Category \cup {"none"}]
    BY <1>8 DEF Report, DeadLetter, TypeOK, StoreTypeOK, Category
  <2>4. faults' \in 0..MaxFaults
    BY <1>8, StoreOperations DEF Report, TypeOK
  <2> QED
    BY <1>8, <2>2, <2>3, <2>4 DEF Report, ThreadsTypeOK, TypeOK, StoreTypeOK, turns, files, flags, born, env, ledgerVars
<1>9. ASSUME NEW bytes \in Bytes, Speak(t, bytes)
      PROVE  TypeOK'
  <2>1. Live(lives + 1, bytes, NoSub) /\ bytes \in Payload
    BY <1>9, SpoolAssumption DEF Speak
  <2>2. lives + 1 \in Life
    BY <2>1 DEF Live
  <2>3. ThreadsTypeOK'
    <3>1. \A point \in {"ensure", "spool"} :
            [IdleThread EXCEPT !.pc = point, !.life = lives + 1, !.held = lives + 1] \in ThreadState
      BY <2>2 DEF IdleThread, ThreadState, RecordingApi
    <3>2. CASE writes
      BY <1>9, <3>1, <3>2 DEF Speak, ThreadsTypeOK, TypeOK
    <3>3. CASE ~writes
      <4>1. "dormant" \in Result
        BY DEF Result
      <4> QED
        BY <1>9, <2>2, <3>3, <4>1 DEF Speak, ThreadsTypeOK, TypeOK
    <3> QED
      BY <3>2, <3>3
  <2>4. /\ lives' \in 0..MaxLives
        /\ payload' \in [Life -> Payload]
        /\ edge' \in [Sub -> Sub \cup {NoSub}]
    BY <2>1, <2>2, StoreOperations DEF TypeOK
  <2> QED
    BY <1>9, <2>3, <2>4 DEF Speak, ThreadsTypeOK, TypeOK, StoreTypeOK, turns, files, flags, born, env, ledgerVars
<1> QED
  BY <1>1, <1>2, <1>3, <1>4, <1>5, <1>6, <1>7, <1>8, <1>9 DEF Recording

\* The flags and the crashes.
LEMMA EnvironmentTypes ==
    ASSUME TypeOK, SetFlag \/ ClearFlag \/ Crash
    PROVE  TypeOK'
<1>1. CASE SetFlag
  <2>1. writes' \in BOOLEAN /\ paused' \in BOOLEAN
    BY <1>1, Zenon DEF SetFlag, Pause, Brake, TypeOK, StoreTypeOK
  <2> QED
    BY <1>1, <2>1 DEF SetFlag, TypeOK, StoreTypeOK, turns, files, flags, born, env, ledgerVars
<1>2. CASE ClearFlag
  <2>1. writes' \in BOOLEAN /\ paused' \in BOOLEAN
    BY <1>2, Zenon DEF ClearFlag, TypeOK, StoreTypeOK
  <2> QED
    BY <1>2, <2>1 DEF ClearFlag, TypeOK, StoreTypeOK, turns, files, flags, born, env, ledgerVars
<1>3. CASE Crash
  <2>1. IdleThread \in ThreadState /\ IdleDrain \in DrainState
    BY DEF IdleThread, ThreadState, RecordingApi, IdleDrain, DrainState
  <2> QED
    BY <1>3, <2>1 DEF Crash, TypeOK, StoreTypeOK, turns, files, flags, born, env, ledgerVars
<1> QED
  BY <1>1, <1>2, <1>3

LEMMA InitTypes == Init => TypeOK
<1> SUFFICES ASSUME Init PROVE TypeOK
  OBVIOUS
<1>1. IdleThread \in ThreadState /\ IdleDrain \in DrainState
  BY DEF IdleThread, ThreadState, RecordingApi, IdleDrain, DrainState
<1>2. lives \in 0..MaxLives /\ faults \in 0..MaxFaults
  BY LedgerAssumption DEF Init, StoreInit
<1>3. marked \in BOOLEAN /\ writes \in BOOLEAN /\ paused \in BOOLEAN
  BY Zenon DEF Init, StoreInit
<1>4. chain \in Seq(Sub)
  BY DEF Init, StoreInit
<1>5. StoreTypeOK
  BY <1>2, <1>3, <1>4 DEF Init, StoreInit, StoreTypeOK, Payload, Place
<1> QED
  BY <1>1, <1>5 DEF Init, TypeOK, Result

-----------------------------------------------------------------------------
(* What each part of the invariant sees of a step                          *)

\* The submissions committed by a step are those of S.
Commits(S) == \A x \in Sub : Committed(x)' <=> Committed(x) \/ x \in S

LEMMA CommitsOf ==
    ASSUME TypeOK
    PROVE  /\ UNCHANGED chain => Commits({})
           /\ \A s \in Sub : WriteTurn(s) => Commits({s})
<1>1. UNCHANGED chain => Commits({})
  BY DEF Commits, Committed
<1>2. ASSUME NEW s \in Sub, WriteTurn(s)
      PROVE  Commits({s})
  <2>1. CASE Committed(s)
    <3>1. Commits({})
      BY <1>1, <1>2, <2>1 DEF WriteTurn
    <3> QED
      BY <2>1, <3>1 DEF Commits
  <2>2. CASE ~Committed(s)
    <3>1. chain' = Append(chain, s) /\ chain \in Seq(Sub)
      BY <1>2, <2>2 DEF WriteTurn, TypeOK, StoreTypeOK
    <3>2. Len(chain') = Len(chain) + 1 /\ chain'[Len(chain) + 1] = s
      BY <3>1
    <3>3. \A i \in 1..Len(chain) : chain'[i] = chain[i]
      BY <3>1
    <3>4. ASSUME NEW x \in Sub, Committed(x)' PROVE Committed(x) \/ x = s
      BY <3>1, <3>2, <3>3, <3>4 DEF Committed
    <3>5. ASSUME NEW x \in Sub, Committed(x) \/ x = s PROVE Committed(x)'
      BY <3>1, <3>2, <3>3, <3>5 DEF Committed
    <3> QED
      BY <3>4, <3>5 DEF Commits
  <2> QED
    BY <2>1, <2>2
<1> QED
  BY <1>1, <1>2

\* The drainer looks at envelopes in a directory only.
LEMMA DrainKept ==
    ASSUME DrainInv, UNCHANGED <<drain, receipts, sidecars>>,
           \A s \in Sub : place[s] # "none" =>
               /\ place'[s] = place[s]
               /\ payload'[LifeOf(s)] = payload[LifeOf(s)]
               /\ Committed(s)' <=> Committed(s),
           Listed \subseteq Sub
    PROVE  DrainInv'
<1> DEFINE Steady(s) == /\ place'[s] = place[s]
                       /\ payload'[LifeOf(s)] = payload[LifeOf(s)]
                       /\ Committed(s)' <=> Committed(s)
<1>1. \A s \in Listed : Steady(s)
  BY DEF DrainInv
<1>2. Busy => Steady(drain.now)
  BY DEF DrainInv
<1>3. Busy' <=> Busy
  BY DEF Busy
<1>4. Listed' = Listed
  BY DEF Listed
<1> HIDE DEF Steady
<1>5. (\A s \in Listed : place[s] = "pending" /\ DirectoryOf(s) \notin drain.dirs)'
  BY <1>1, <1>4 DEF DrainInv, Steady
<1>6. (\A s \in drain.todo \cup drain.later : payload[LifeOf(s)] # "garbled")'
  BY <1>1 DEF DrainInv, Steady, Listed
<1>7. (Busy => /\ drain.now \in Sub \ Listed
               /\ place[drain.now] = "pending" /\ DirectoryOf(drain.now) \notin drain.dirs)'
  BY <1>2, <1>3, <1>4 DEF DrainInv, Steady
<1>8. /\ (drain.pc = "commit" => payload[LifeOf(drain.now)] \notin {"garbled", "marker"})'
      /\ drain.pc \in {"ack", "settle"} => Committed(drain.now)'
      /\ drain.pc \in {"condemn", "refuse"} => ~Committed(drain.now)'
  BY <1>2 DEF DrainInv, Steady, Busy
<1> QED
  BY <1>5, <1>6, <1>7, <1>8 DEF DrainInv

\* The threads look at submissions in no directory only.
LEMMA ThreadsKept ==
    ASSUME ThreadInv, TypeOK, UNCHANGED <<th, result, born>>,
           \A s \in Sub : place[s] = "none" => place'[s] = "none" /\ (Committed(s)' <=> Committed(s)),
           \A s \in Sub : Committed(s) => Committed(s)'
    PROVE  ThreadInv'
<1>1. ASSUME NEW l \in Life, Free(l)
      PROVE  Free(l)'
  <2>1. Attempt(l) \in Sub /\ LifeOf(Attempt(l)) = l
    BY Identities
  <2>2. edge[Attempt(l)] \in Sub \cup {NoSub}
    BY <2>1 DEF TypeOK, StoreTypeOK
  <2>3. Resolved(Attempt(l))'
    BY <1>1, <2>1, <2>2 DEF Free, Resolved, born
  <2> QED
    BY <1>1, <2>1, <2>3 DEF Free, born
<1>2. ASSUME NEW t \in Thread
      PROVE  ThreadOK(t)'
  <2>1. 1..lives \subseteq Life
    BY LedgerAssumption DEF TypeOK, StoreTypeOK, Life
  <2>2. ThreadOK(t)
    BY DEF ThreadInv
  <2>3. th[t].pc = "spool" => place'[Spooled(On(t))] = "none"
    BY <2>1, <2>2, Identities DEF ThreadOK
  <2>4. On(t)' = On(t) /\ th'[t] = th[t]
    BY DEF On
  <2>5. th[t].pc \in {"ensure", "owner"} => Free(On(t))'
    BY <1>1, <2>1, <2>2, <2>4 DEF ThreadOK
  <2>6. th[t].reply # NoLife => Free(th[t].reply)'
    BY <1>1, <2>1, <2>2, <2>4 DEF ThreadOK
  <2> QED
    BY <2>2, <2>3, <2>4, <2>5, <2>6 DEF ThreadOK, born
<1>3. ClaimsApart'
  BY DEF ThreadInv, ClaimsApart, Claims, On
<1>4. ToldTrue'
  BY Identities DEF ThreadInv, ToldTrue
<1> QED
  BY <1>2, <1>3, <1>4 DEF ThreadInv

\* What a step of thread t does outside the life l it records: nothing.
OnlyTouches(l) ==
    \A s \in Sub : LifeOf(s) # l => place'[s] = place[s] /\ (Committed(s)' <=> Committed(s))

NothingLost == \A s \in Sub : Committed(s) => Committed(s)'

OthersRest(t) == \A u \in Thread : u # t => th'[u] = th[u]

LEMMA FreeKept ==
    ASSUME TypeOK, NEW l \in Life, Free(l), NEW m, m # l, OnlyTouches(m), NothingLost,
           payload'[l] = payload[l], edge'[Attempt(l)] = edge[Attempt(l)]
    PROVE  Free(l)'
<1>1. Attempt(l) \in Sub /\ LifeOf(Attempt(l)) = l
  BY Identities
<1>2. edge[Attempt(l)] \in Sub \cup {NoSub}
  BY <1>1 DEF TypeOK, StoreTypeOK
<1>3. Resolved(Attempt(l))'
  BY <1>1, <1>2 DEF Free, Resolved, NothingLost
<1> QED
  BY <1>1, <1>3 DEF Free, OnlyTouches

\* A step of t on a life m that is t's own, or new, leaves the others' part.
LEMMA OneThread ==
    ASSUME TypeOK, ThreadInv, NEW t \in Thread, NEW m,
           m \in Claims(t) \/ m > lives,
           lives' \in {lives, lives + 1}, m > lives => m = lives' /\ lives' > lives,
           \A l \in 1..lives : payload'[l] = payload[l] /\ edge'[Attempt(l)] = edge[Attempt(l)],
           OnlyTouches(m), NothingLost, OthersRest(t),
           ThreadOK(t)', Claims(t)' \subseteq Claims(t) \cup ((lives + 1)..lives'), ToldTrue'
    PROVE  ThreadInv'
<1>1. 1..lives \subseteq Life /\ lives \in Nat
  BY LedgerAssumption DEF TypeOK, StoreTypeOK, Life
<1>2. \A u \in Thread : Claims(u) \subseteq 1..lives
  BY DEF ThreadInv, ThreadOK, Claims
<1>3. ASSUME NEW u \in Thread, u # t
      PROVE  ThreadOK(u)' /\ Claims(u)' = Claims(u)
  <2>1. th'[u] = th[u] /\ ThreadOK(u)
    BY <1>3 DEF OthersRest, ThreadInv
  <2>2. On(u)' = On(u) /\ Claims(u)' = Claims(u)
    BY <2>1 DEF On, Claims
  <2>3. m \notin Claims(u)
    BY <1>1, <1>2, <1>3 DEF ThreadInv, ClaimsApart
  <2>4. \A l \in Claims(u) : Free(l) => Free(l)'
    BY <1>1, <1>2, <2>3, FreeKept
  <2>5. th[u].pc = "spool" => place'[Spooled(On(u))] = "none"
    <3> SUFFICES ASSUME th[u].pc = "spool" PROVE place'[Spooled(On(u))] = "none"
      OBVIOUS
    <3>1. On(u) \in Life /\ On(u) # m
      BY <1>1, <2>1, <2>3 DEF ThreadOK, Claims
    <3> QED
      BY <2>1, <3>1, Identities DEF ThreadOK, OnlyTouches
  <2>6. th[u].pc \in {"ensure", "owner"} => Free(On(u))'
    BY <2>1, <2>2, <2>4 DEF ThreadOK, Claims
  <2>7. th[u].reply # NoLife => Free(th[u].reply)'
    BY <2>1, <2>4 DEF ThreadOK, Claims
  <2>8. \A l \in 1..lives : l \in 1..lives'
    BY <1>1
  <2> QED
    BY <2>1, <2>2, <2>5, <2>6, <2>7, <2>8 DEF ThreadOK
<1>4. ClaimsApart'
  <2> SUFFICES ASSUME NEW u \in Thread, NEW v \in Thread, u # v
               PROVE  Claims(u)' \cap Claims(v)' = {}
    BY DEF ClaimsApart
  <2>1. Claims(u) \cap Claims(v) = {}
    BY DEF ThreadInv, ClaimsApart
  <2>2. CASE u # t /\ v # t
    BY <1>3, <2>1, <2>2
  <2>3. CASE u = t
    BY <1>1, <1>2, <1>3, <2>1, <2>3
  <2>4. CASE v = t
    BY <1>1, <1>2, <1>3, <2>1, <2>4
  <2> QED
    BY <2>2, <2>3, <2>4
<1>5. \A u \in Thread : ThreadOK(u)'
  BY <1>3
<1> QED
  BY <1>4, <1>5 DEF ThreadInv

\* A call returns: its life is let go, and the reply that waited for the
\* marker is taken up.
LEMMA ReturnKeeps ==
    ASSUME TypeOK, ThreadInv, NEW t \in Thread, NEW r, Return(t, r), th[t].pc # "idle",
           UNCHANGED born, OnlyTouches(On(t)), NothingLost,
           \A l \in Life : l = On(t) /\ r = "committed" => Committed(Attempt(l))'
    PROVE  ThreadInv'
<1>1. 1..lives \subseteq Life /\ lives \in Nat
  BY LedgerAssumption DEF TypeOK, StoreTypeOK, Life
<1>2. ThreadOK(t) /\ On(t) \in 1..lives /\ On(t) \in Claims(t)
  BY DEF ThreadInv, ThreadOK, Claims
<1>3. OthersRest(t)
  BY DEF Return, OthersRest, TypeOK
<1>4. ToldTrue'
  <2> SUFFICES ASSUME NEW l \in Life, result'[l] = "committed"
               PROVE  Committed(Attempt(l))'
    BY DEF ToldTrue
  <2>1. CASE l = On(t)
    BY <2>1 DEF Return, TypeOK
  <2>2. CASE l # On(t)
    <3>1. result[l] = "committed"
      BY <2>2 DEF Return, TypeOK
    <3> QED
      BY <3>1, Identities DEF ThreadInv, ToldTrue, NothingLost
  <2> QED
    BY <2>1, <2>2
<1>5. th[t] \in ThreadState
  BY DEF TypeOK
<1>6. ThreadOK(t)' /\ Claims(t)' \subseteq Claims(t)
  <2>1. CASE th[t].reply = NoLife
    <3>1. th'[t] = Done(t, On(t))
      BY <2>1 DEF Return, TypeOK
    <3>2. th'[t].pc = "idle" /\ th'[t].reply = NoLife
      BY <3>1 DEF Done, IdleThread
    <3> QED
      BY <3>2 DEF ThreadOK, Claims
  <2>2. CASE th[t].reply # NoLife
    <3>1. th'[t] = ReplyNext(t)
      BY <2>2 DEF Return, TypeOK
    <3>2. th'[t].pc = "owner" /\ th'[t].life = th[t].reply /\ th'[t].reply = NoLife
      BY <1>5, <3>1 DEF ReplyNext, ThreadState
    <3>3. th[t].reply \in 1..lives /\ th[t].reply # On(t) /\ Free(th[t].reply)
      BY <1>2, <2>2 DEF ThreadOK
    <3>4. On(t)' = th[t].reply
      BY <3>2 DEF On
    <3>5. Free(On(t))'
      <4>1. \A l \in Life : l # On(t) /\ Free(l) => Free(l)'
        BY FreeKept DEF born
      <4> QED
        BY <1>1, <3>3, <3>4, <4>1
    <3>6. ThreadOK(t)'
      BY <3>2, <3>3, <3>4, <3>5 DEF ThreadOK, born
    <3>7. Claims(t)' = {th[t].reply} /\ th[t].reply \in Claims(t)
      BY <2>2, <3>2, <3>4 DEF Claims
    <3> QED
      BY <3>6, <3>7
  <2> QED
    BY <2>1, <2>2
<1>7. lives' = lives /\ \A l \in 1..lives : payload'[l] = payload[l] /\ edge'[Attempt(l)] = edge[Attempt(l)]
  BY DEF born
<1>8. ~(On(t) > lives)
  BY <1>1, <1>2
<1> QED
  BY <1>2, <1>3, <1>4, <1>6, <1>7, <1>8, OneThread

\* A write that did not commit is about to be dead-lettered.
LEMMA ReportKeeps ==
    ASSUME TypeOK, ThreadInv, NEW t \in Thread, NEW why, th[t].pc # "idle",
           th' = [th EXCEPT ![t].pc = "report", ![t].why = why],
           UNCHANGED born, UNCHANGED result, OnlyTouches(On(t)), NothingLost
    PROVE  ThreadInv'
<1>1. 1..lives \subseteq Life /\ lives \in Nat
  BY LedgerAssumption DEF TypeOK, StoreTypeOK, Life
<1>2. ThreadOK(t) /\ On(t) \in 1..lives /\ On(t) \in Claims(t)
  BY DEF ThreadInv, ThreadOK, Claims
<1>3. OthersRest(t)
  BY DEF OthersRest, TypeOK
<1>4. ToldTrue'
  BY Identities DEF ThreadInv, ToldTrue, NothingLost
<1>5. th'[t].pc = "report" /\ th'[t].life = th[t].life /\ th'[t].reply = th[t].reply
  BY DEF TypeOK, ThreadState
<1>6. On(t)' = On(t) /\ Claims(t)' = Claims(t)
  BY <1>5 DEF On, Claims
<1>7. th[t].reply # NoLife => Free(th[t].reply)'
  <2>1. \A l \in Life : l # On(t) /\ Free(l) => Free(l)'
    BY FreeKept DEF born
  <2> QED
    BY <1>1, <1>2, <1>5, <2>1 DEF ThreadOK
<1>8. ThreadOK(t)'
  BY <1>2, <1>5, <1>6, <1>7 DEF ThreadOK, born
<1>9. lives' = lives /\ \A l \in 1..lives : payload'[l] = payload[l] /\ edge'[Attempt(l)] = edge[Attempt(l)]
  BY DEF born
<1>10. ~(On(t) > lives)
  BY <1>1, <1>2
<1> QED
  BY <1>2, <1>3, <1>4, <1>6, <1>8, <1>9, <1>10, OneThread

-----------------------------------------------------------------------------
(* What the steps do to the files                                          *)

LEMMA FilesKept ==
    ASSUME FileInv, UNCHANGED <<born, chain, place, receipts, sidecars>>
    PROVE  FileInv'
  BY DEF FileInv, FilesAgree, OneTurnPerSubmission, ParentsFirst, EndsKept, Committed,
         born

\* A life nobody has recorded is lived.
LEMMA LifeFiles ==
    ASSUME TypeOK, FileInv, NEW b \in Payload, NEW e \in Sub \cup {NoSub},
           Live(lives + 1, b, e), UNCHANGED <<chain, place, receipts, sidecars>>
    PROVE  FileInv'
<1>1. lives \in Nat /\ lives' = lives + 1
  BY DEF Live, TypeOK, StoreTypeOK
<1>2. \A s \in Sub : LifeOf(s) # lives + 1 =>
        payload'[LifeOf(s)] = payload[LifeOf(s)] /\ edge'[s] = edge[s]
  BY Identities DEF Live, TypeOK, StoreTypeOK
<1>3. \A s \in Sub : LifeOf(s) \in Nat
  BY Identities DEF Life
<1>4. \A s \in Sub : (Committed(s)' <=> Committed(s)) /\ place'[s] = place[s]
  BY DEF Committed
<1>5. \A s \in Sub : LifeOf(s) = lives + 1 => ~Committed(s) /\ place[s] = "none"
  BY <1>1 DEF FileInv, FilesAgree
<1>6. FilesAgree'
  BY <1>1, <1>2, <1>3, <1>4, <1>5 DEF FileInv, FilesAgree
<1>7. OneTurnPerSubmission'
  BY DEF FileInv, OneTurnPerSubmission
<1>8. ParentsFirst'
  <2>1. \A i \in 1..Len(chain) : chain[i] \in Sub /\ Committed(chain[i])
    BY DEF Committed, TypeOK, StoreTypeOK
  <2>2. \A i \in 1..Len(chain) : edge'[chain[i]] = edge[chain[i]]
    BY <1>2, <1>5, <2>1
  <2> QED
    BY <2>2 DEF FileInv, ParentsFirst
<1>9. EndsKept'
  BY <1>4 DEF FileInv, EndsKept
<1> QED
  BY <1>6, <1>7, <1>8, <1>9 DEF FileInv

\* An envelope is published: its life is lived and its submission is free.
LEMMA PublishFiles ==
    ASSUME TypeOK, FileInv, NEW s \in Sub, Publish(s), LifeOf(s) \in 1..lives,
           ~Committed(s), UNCHANGED <<born, chain, receipts, sidecars>>
    PROVE  FileInv'
<1>1. \A x \in Sub : Committed(x)' <=> Committed(x)
  BY DEF Committed
<1>2. \A x \in Sub : place'[x] = place[x] \/ (x = s /\ place'[x] = "pending")
  BY DEF Publish, TypeOK, StoreTypeOK
<1>3. lives \in Nat /\ lives' = lives /\ payload' = payload
  BY DEF born, TypeOK, StoreTypeOK
<1>4. FilesAgree'
  <2> SUFFICES ASSUME NEW x \in Sub
               PROVE  /\ LifeOf(x) > lives => place'[x] = "none" /\ ~Committed(x)
                      /\ Committed(x) => payload[LifeOf(x)] \in {"good", "marker"}
                      /\ place'[x] # "none" /\ payload[LifeOf(x)] = "marker" => ~Committed(x)
                      /\ Committed(x) /\ place'[x] = "none" => x = Attempt(LifeOf(x))
    BY <1>1, <1>3 DEF FilesAgree
  <2> QED
    BY <1>2, <1>3 DEF FileInv, FilesAgree
<1>5. OneTurnPerSubmission' /\ ParentsFirst'
  BY DEF FileInv, OneTurnPerSubmission, ParentsFirst, born
<1>6. EndsKept'
  BY <1>1, <1>2 DEF FileInv, EndsKept
<1> QED
  BY <1>4, <1>5, <1>6 DEF FileInv

\* A turn is written: its parent's is there, and it was not refused before.
LEMMA TurnFiles ==
    ASSUME TypeOK, FileInv, NEW s \in Sub, WriteTurn(s), LifeOf(s) \in 1..lives,
           Resolved(s), payload[LifeOf(s)] # "garbled",
           place[s] = "none" => s = Attempt(LifeOf(s)),
           place[s] # "none" => payload[LifeOf(s)] # "marker",
           place[s] # "refused",
           UNCHANGED <<born, place, receipts, sidecars>>
    PROVE  FileInv'
<1>1. Commits({s})
  BY CommitsOf
<1>2. lives \in Nat /\ lives' = lives /\ payload' = payload /\ edge' = edge
  BY DEF born, TypeOK, StoreTypeOK
<1>3. payload[LifeOf(s)] \in {"good", "marker"}
  BY Identities DEF WriteTurn, WriterRefuses, TypeOK, StoreTypeOK, Payload
<1>4. FilesAgree'
  BY <1>1, <1>2, <1>3 DEF FileInv, FilesAgree, Commits
<1>5. EndsKept'
  BY <1>1 DEF FileInv, EndsKept, Commits
<1>6. CASE Committed(s)
  <2>1. chain' = chain
    BY <1>6 DEF WriteTurn
  <2> QED
    BY <1>2, <1>4, <1>5, <2>1 DEF FileInv, OneTurnPerSubmission, ParentsFirst
<1>7. CASE ~Committed(s)
  <2>1. chain' = Append(chain, s) /\ chain \in Seq(Sub)
    BY <1>7 DEF WriteTurn, TypeOK, StoreTypeOK
  <2>2. /\ Len(chain') = Len(chain) + 1 /\ Len(chain) \in Nat
        /\ chain'[Len(chain) + 1] = s
        /\ \A i \in 1..Len(chain) : chain'[i] = chain[i]
    BY <2>1
  <2>3. \A i \in 1..Len(chain) : chain[i] # s
    BY <1>7 DEF Committed
  <2>4. OneTurnPerSubmission'
    BY <2>2, <2>3 DEF FileInv, OneTurnPerSubmission
  <2>5. ParentsFirst'
    <3> SUFFICES ASSUME NEW i \in 1..Len(chain'), edge[chain'[i]] # NoSub
                 PROVE  \E j \in 1..(i - 1) : chain'[j] = edge[chain'[i]]
      BY <1>2 DEF ParentsFirst
    <3>1. CASE i = Len(chain) + 1
      BY <2>2, <3>1 DEF Resolved, Committed
    <3>2. CASE i # Len(chain) + 1
      <4>1. i \in 1..Len(chain) /\ chain'[i] = chain[i]
        BY <2>2, <3>2
      <4>2. PICK j \in 1..(i - 1) : chain[j] = edge[chain[i]]
        BY <4>1 DEF FileInv, ParentsFirst
      <4>3. j \in 1..Len(chain)
        BY <2>2, <4>1
      <4> QED
        BY <2>2, <4>1, <4>2, <4>3
    <3> QED
      BY <3>1, <3>2
  <2> QED
    BY <1>4, <1>5, <2>4, <2>5 DEF FileInv
<1> QED
  BY <1>6, <1>7

\* The drainer's writes: a receipt, a sidecar, and the two moves.
LEMMA DrainFiles ==
    ASSUME TypeOK, FileInv, NEW s \in Sub, place[s] = "pending", UNCHANGED <<born, chain>>
    PROVE  /\ receipts' = receipts \cup {s} /\ Committed(s) /\ UNCHANGED <<place, sidecars>> => FileInv'
           /\ sidecars' = sidecars \cup {s} /\ UNCHANGED <<place, receipts>> => FileInv'
           /\ Move(s, "acked") /\ s \in receipts /\ UNCHANGED <<receipts, sidecars>> => FileInv'
           /\ Move(s, "refused") /\ s \in sidecars /\ ~Committed(s)
                /\ UNCHANGED <<receipts, sidecars>> => FileInv'
<1>1. \A x \in Sub : Committed(x)' <=> Committed(x)
  BY DEF Committed
<1>2. lives \in Nat /\ lives' = lives /\ payload' = payload /\ edge' = edge
  BY DEF born, TypeOK, StoreTypeOK
<1>3. OneTurnPerSubmission' /\ ParentsFirst'
  BY <1>2 DEF FileInv, OneTurnPerSubmission, ParentsFirst
<1>4. UNCHANGED place => FilesAgree'
  BY <1>1, <1>2 DEF FileInv, FilesAgree
<1>5. ASSUME NEW d \in {"acked", "refused"}, Move(s, d)
      PROVE  FilesAgree' /\ (\A x \in Sub : place'[x] = IF x = s THEN d ELSE place[x])
  <2>1. \A x \in Sub : place'[x] = IF x = s THEN d ELSE place[x]
    BY <1>5 DEF Move, TypeOK, StoreTypeOK
  <2>2. \A x \in Sub : place'[x] = "none" <=> place[x] = "none"
    BY <2>1
  <2> QED
    BY <1>1, <1>2, <2>1, <2>2 DEF FileInv, FilesAgree
<1>6. receipts' = receipts \cup {s} /\ Committed(s) /\ UNCHANGED <<place, sidecars>>
      => EndsKept'
  BY <1>1 DEF FileInv, EndsKept
<1>7. sidecars' = sidecars \cup {s} /\ UNCHANGED <<place, receipts>> => EndsKept'
  BY <1>1 DEF FileInv, EndsKept
<1>8. Move(s, "acked") /\ s \in receipts /\ UNCHANGED <<receipts, sidecars>> => EndsKept'
  BY <1>1, <1>5 DEF FileInv, EndsKept
<1>9. Move(s, "refused") /\ s \in sidecars /\ ~Committed(s) /\ UNCHANGED <<receipts, sidecars>>
      => EndsKept'
  BY <1>1, <1>5 DEF FileInv, EndsKept
<1> QED
  BY <1>3, <1>4, <1>5, <1>6, <1>7, <1>8, <1>9 DEF FileInv

-----------------------------------------------------------------------------
(* The steps of the threads                                                *)

Parts == FileInv /\ ThreadInv /\ DrainInv

\* The drainer keeps its part when the files of every life but m's, and of
\* all that is in a directory, stay as they are.
LEMMA DrainUntouched ==
    ASSUME TypeOK, FileInv, DrainInv, UNCHANGED <<drain, receipts, sidecars>>,
           \A l \in 1..lives : payload'[l] = payload[l],
           \A s \in Sub : place[s] # "none" =>
               place'[s] = place[s] /\ (Committed(s)' <=> Committed(s))
    PROVE  DrainInv'
<1>1. Listed \subseteq Sub
  BY DEF Listed, TypeOK, DrainState
<1>2. \A s \in Sub : place[s] # "none" => LifeOf(s) \in 1..lives
  BY Identities DEF FileInv, FilesAgree, Life, TypeOK, StoreTypeOK
<1> QED
  BY <1>1, <1>2, DrainKept

\* A call begins at a point, or ends at once for want of the writes flag.
Begins(t, l, point) ==
    /\ OthersRest(t) /\ th'[t].reply = NoLife
    /\ \/ th'[t].pc = point /\ th'[t].life = l /\ UNCHANGED result
       \/ th'[t].pc = "idle" /\ result' = [result EXCEPT ![l] = "dormant"]

LEMMA Beginnings ==
    ASSUME SpoolInv, NEW t \in Thread, At(t, "idle")
    PROVE  /\ \A api, l, point : Enter(t, api, l, point) => Begins(t, l, point)
           /\ \A bytes : Speak(t, bytes) =>
                \E point \in {"spool", "ensure"} :
                    /\ Begins(t, lives + 1, point)
                    /\ point = "ensure" => bytes # "garbled"
<1>1. th[t] \in ThreadState /\ th[t].reply = NoLife
  BY DEF SpoolInv, TypeOK, ThreadInv, ThreadOK, At
<1>2. ASSUME NEW api, NEW l, NEW point, Enter(t, api, l, point)
      PROVE  Begins(t, l, point)
  <2>1. OthersRest(t)
    BY <1>2 DEF Enter, OthersRest, SpoolInv, TypeOK
  <2>2. CASE writes
    BY <1>1, <1>2, <2>1, <2>2 DEF Enter, Begins, SpoolInv, TypeOK, ThreadState
  <2>3. CASE ~writes
    <3>1. th'[t] = [Done(t, l) EXCEPT !.api = api]
      BY <1>2, <2>3 DEF Enter, SpoolInv, TypeOK
    <3>2. th'[t].pc = "idle" /\ th'[t].reply = NoLife
      BY <3>1 DEF Done, IdleThread
    <3> QED
      BY <1>2, <2>1, <2>3, <3>2 DEF Enter, Begins
  <2> QED
    BY <2>2, <2>3
<1>3. ASSUME NEW bytes, Speak(t, bytes)
      PROVE  \E point \in {"spool", "ensure"} :
                /\ Begins(t, lives + 1, point)
                /\ point = "ensure" => bytes # "garbled"
  <2> DEFINE point == IF Lane(t) = "owner" THEN "ensure" ELSE "spool"
  <2>1. point = "ensure" => bytes # "garbled"
    BY <1>3 DEF Speak
  <2>2. CASE writes
    <3>1. th' = [th EXCEPT ![t] = [IdleThread EXCEPT !.pc = point, !.life = lives + 1,
                                                     !.held = lives + 1]]
          /\ UNCHANGED result
      BY <1>3, <2>2 DEF Speak
    <3> HIDE DEF point
    <3>2. OthersRest(t)
      BY <3>1 DEF OthersRest, SpoolInv, TypeOK
    <3>3. th'[t].pc = point /\ th'[t].life = lives + 1 /\ th'[t].reply = NoLife
      BY <3>1 DEF IdleThread, SpoolInv, TypeOK
    <3>4. Begins(t, lives + 1, point)
      BY <3>1, <3>2, <3>3 DEF Begins
    <3>5. point \in {"spool", "ensure"}
      BY DEF point
    <3> QED
      BY <2>1, <3>4, <3>5
  <2>3. CASE ~writes
    <3>1. th' = th /\ result' = [result EXCEPT ![lives + 1] = "dormant"]
      BY <1>3, <2>3 DEF Speak
    <3>2. Begins(t, lives + 1, "spool")
      BY <1>1, <3>1 DEF Begins, OthersRest, At
    <3> QED
      BY <3>2
  <2> QED
    BY <2>2, <2>3
<1> QED
  BY <1>2, <1>3

LEMMA BirthKeeps ==
    ASSUME SpoolInv, NEW t \in Thread, At(t, "idle"),
           NEW b \in Payload, NEW e \in Sub \cup {NoSub},
           NEW point \in {"spool", "ensure", "owner"},
           Live(lives + 1, b, e), Begins(t, lives + 1, point),
           point # "spool" => b # "garbled" /\ (e = NoSub \/ Committed(e)),
           UNCHANGED <<chain, files, drain>>
    PROVE  Parts'
<1> DEFINE l == lives + 1
<1>1. lives \in Nat /\ l \in Life /\ lives' = l /\ 1..lives \subseteq Life
  BY LedgerAssumption DEF Live, SpoolInv, TypeOK, StoreTypeOK, Life
<1>2. payload'[l] = b /\ edge'[Attempt(l)] = e
  BY <1>1, LifeNames DEF SpoolInv, TypeOK
<1>3. \A m \in 1..lives : payload'[m] = payload[m] /\ edge'[Attempt(m)] = edge[Attempt(m)]
  BY <1>1, LifeNames DEF SpoolInv, TypeOK
<1>4. \A s \in Sub : place'[s] = place[s] /\ (Committed(s)' <=> Committed(s))
  BY DEF files, Committed
<1>5. /\ Attempt(l) \in Sub /\ Spooled(l) \in Sub
      /\ LifeOf(Attempt(l)) = l /\ LifeOf(Spooled(l)) = l
  BY <1>1, Identities
<1>6. place[Attempt(l)] = "none" /\ ~Committed(Attempt(l)) /\ place[Spooled(l)] = "none"
  BY <1>1, <1>5 DEF SpoolInv, FileInv, FilesAgree
<1>7. FileInv'
  BY LifeFiles DEF SpoolInv, files
<1>8. DrainInv'
  BY <1>3, <1>4, DrainUntouched DEF SpoolInv, files
<1>10. ASSUME point # "spool"
       PROVE  \A k \in Life : k = l => Free(k)'
  <2> SUFFICES ASSUME NEW k \in Life, k = l PROVE Free(k)'
    OBVIOUS
  <2>1. payload'[k] # "garbled" /\ place'[Attempt(k)] = "none" /\ ~Committed(Attempt(k))'
    BY <1>2, <1>4, <1>5, <1>6, <1>10
  <2>2. Resolved(Attempt(k))'
    BY <1>2, <1>4, <1>5, <1>10 DEF Resolved
  <2> QED
    BY <2>1, <2>2 DEF Free
<1>11. ThreadOK(t)' /\ Claims(t)' \subseteq {l}
  <2>1. CASE th'[t].pc = point /\ th'[t].life = l
    <3>1. On(t)' = l /\ th'[t].reply = NoLife
      BY <2>1 DEF On, Begins
    <3>2. point # "spool" => Free(On(t))'
      BY <1>1, <1>10, <3>1
    <3>3. place'[Spooled(l)] = "none"
      BY <1>4, <1>5, <1>6
    <3>4. ThreadOK(t)'
      BY <1>1, <2>1, <3>1, <3>2, <3>3 DEF ThreadOK
    <3> QED
      BY <2>1, <3>1, <3>4 DEF Claims
  <2>2. CASE th'[t].pc = "idle"
    BY <2>2 DEF Begins, ThreadOK, Claims
  <2> QED
    BY <2>1, <2>2 DEF Begins
<1>12. ToldTrue'
  <2>1. \A k \in Life : result'[k] = "committed" => result[k] = "committed"
    BY DEF Begins, SpoolInv, TypeOK
  <2> QED
    BY <1>4, <2>1, Identities DEF SpoolInv, ThreadInv, ToldTrue
<1>13. OthersRest(t)
  BY DEF Begins
<1>14. OnlyTouches(l) /\ NothingLost
  BY <1>4 DEF OnlyTouches, NothingLost
<1>15. Claims(t)' \subseteq Claims(t) \cup ((lives + 1)..lives')
  BY <1>1, <1>11
<1>16. l > lives /\ lives' > lives
  BY <1>1
<1>17. ThreadInv'
  BY <1>1, <1>3, <1>11, <1>12, <1>13, <1>14, <1>15, <1>16, OneThread DEF SpoolInv
<1> QED
  BY <1>7, <1>8, <1>17 DEF Parts

LEMMA HearKeeps ==
    ASSUME SpoolInv, NEW t \in Thread, NEW api \in Api, NEW bytes \in Bytes, Hear(t, api, bytes)
    PROVE  Parts'
<1>1. bytes \in Payload
  BY SpoolAssumption
<1>2. Lane(t) \in {"spool", "ensure", "owner"} /\ (Lane(t) # "spool" => bytes # "garbled")
  BY DEF Hear, Lane
<1>3. Begins(t, lives + 1, Lane(t))
  BY Beginnings DEF Hear
<1> QED
  BY <1>1, <1>2, <1>3, BirthKeeps DEF Hear, turns

LEMMA SpeakKeeps ==
    ASSUME SpoolInv, NEW t \in Thread, NEW bytes \in Bytes, Speak(t, bytes)
    PROVE  Parts'
<1>1. bytes \in Payload
  BY SpoolAssumption
<1>2. PICK point \in {"spool", "ensure"} :
        Begins(t, lives + 1, point) /\ (point = "ensure" => bytes # "garbled")
  BY Beginnings DEF Speak
<1> QED
  BY <1>1, <1>2, BirthKeeps DEF Speak, turns

LEMMA AnswerKeeps ==
    ASSUME SpoolInv, NEW t \in Thread, NEW bytes \in Bytes, Answer(t, bytes)
    PROVE  Parts'
<1>1. bytes \in Payload /\ th[t].held \in Life
  BY SpoolAssumption DEF Answer, SpoolInv, TypeOK, ThreadState
<1>2. EdgeTo(th[t].held) \in Sub \cup {NoSub}
  BY <1>1, Identities DEF EdgeTo
<1>3. Lane(t) # "spool" => EdgeTo(th[t].held) = NoSub \/ Committed(EdgeTo(th[t].held))
  BY <1>1 DEF Lane, EdgeTo, Answer, SpoolInv, ThreadInv, ToldTrue
<1>4. PICK e \in Sub \cup {NoSub} :
        Live(lives + 1, bytes, e) /\ (Lane(t) # "spool" => e = NoSub \/ Committed(e))
  BY <1>2, <1>3 DEF Answer
<1>5. PICK point \in {"spool", "ensure", "owner"} :
        /\ Begins(t, lives + 1, point)
        /\ point # "spool" => Lane(t) # "spool"
  BY Beginnings DEF Answer, Lane
<1>6. Lane(t) # "spool" => bytes # "garbled"
  BY DEF Answer
<1> QED
  BY <1>1, <1>4, <1>5, <1>6, BirthKeeps DEF Answer, turns

\* A call in progress records a life that is lived.
LEMMA InProgress ==
    ASSUME SpoolInv, NEW t \in Thread, th[t].pc # "idle"
    PROVE  /\ On(t) \in 1..lives /\ On(t) \in Life
           /\ Attempt(On(t)) \in Sub /\ LifeOf(Attempt(On(t))) = On(t)
           /\ Spooled(On(t)) \in Sub /\ LifeOf(Spooled(On(t))) = On(t)
<1>1. On(t) \in 1..lives
  BY DEF SpoolInv, ThreadInv, ThreadOK
<1>2. On(t) \in Life
  BY <1>1, LedgerAssumption DEF SpoolInv, TypeOK, StoreTypeOK, Life
<1> QED
  BY <1>1, <1>2, Identities

\* What a recording step leaves to be shown of the threads.
FileStep(t) ==
    /\ FileInv' /\ DrainInv'
    /\ OnlyTouches(On(t)) /\ NothingLost

\* Nothing the invariant looks at changes in the files.
LEMMA StillFiles ==
    ASSUME SpoolInv, NEW t, UNCHANGED <<born, chain, files, drain>>
    PROVE  FileStep(t)
<1>1. FileInv'
  BY FilesKept DEF SpoolInv, files
<1>2. \A s \in Sub : place'[s] = place[s] /\ (Committed(s)' <=> Committed(s))
  BY DEF files, Committed
<1>3. DrainInv'
  BY <1>2, DrainUntouched DEF SpoolInv, files, born
<1> QED
  BY <1>1, <1>2, <1>3 DEF FileStep, OnlyTouches, NothingLost

LEMMA PublishStep ==
    ASSUME SpoolInv, NEW t \in Thread, th[t].pc # "idle",
           NEW s \in {Attempt(On(t)), Spooled(On(t))}, place[s] = "none", ~Committed(s), Publish(s),
           UNCHANGED <<born, chain, receipts, sidecars, drain>>
    PROVE  FileStep(t)
<1>1. s \in Sub /\ LifeOf(s) = On(t) /\ On(t) \in 1..lives
  BY InProgress
<1>2. FileInv'
  BY <1>1, PublishFiles DEF SpoolInv
<1>3. \A x \in Sub : x # s => place'[x] = place[x]
  BY DEF Publish, SpoolInv, TypeOK, StoreTypeOK
<1>4. \A x \in Sub : Committed(x)' <=> Committed(x)
  BY DEF Committed
<1>5. DrainInv'
  BY <1>1, <1>3, <1>4, DrainUntouched DEF SpoolInv, born
<1> QED
  BY <1>1, <1>2, <1>3, <1>4, <1>5 DEF FileStep, OnlyTouches, NothingLost

LEMMA WriteStep ==
    ASSUME SpoolInv, NEW t \in Thread, At(t, "owner"), WriteTurn(Attempt(On(t))),
           UNCHANGED <<born, files, drain>>
    PROVE  FileStep(t)
<1> DEFINE s == Attempt(On(t))
<1>1. s \in Sub /\ LifeOf(s) = On(t) /\ On(t) \in 1..lives
  BY InProgress DEF At
<1>2. Free(On(t))
  BY DEF SpoolInv, ThreadInv, ThreadOK, At
<1>3. FileInv'
  BY <1>1, <1>2, TurnFiles DEF SpoolInv, Free, files
<1>4. Commits({s})
  BY <1>1, CommitsOf DEF SpoolInv
<1>5. \A x \in Sub : x # s => (Committed(x)' <=> Committed(x))
  BY <1>4 DEF Commits
<1>6. DrainInv'
  BY <1>1, <1>2, <1>5, DrainUntouched DEF SpoolInv, Free, born, files
<1>7. NothingLost
  BY <1>4 DEF Commits, NothingLost
<1> QED
  BY <1>1, <1>3, <1>5, <1>6, <1>7 DEF FileStep, OnlyTouches, files

\* owner_commit in the direct lane, whatever its outcome.
LEMMA CommitStep ==
    ASSUME SpoolInv, NEW t \in Thread, At(t, "owner"), NEW outcome,
           OwnerCommit(Attempt(On(t)), outcome), UNCHANGED <<born, files, drain>>
    PROVE  /\ FileStep(t)
           /\ outcome = "acked" => \A l \in Life : l = On(t) => Committed(Attempt(l))'
<1>1. Attempt(On(t)) \in Sub
  BY InProgress DEF At
<1>2. UNCHANGED turns \/ WriteTurn(Attempt(On(t)))
  BY <1>1, CommitMoves DEF SpoolInv, TypeOK
<1>3. FileStep(t)
  BY <1>2, StillFiles, WriteStep DEF turns
<1>4. ASSUME outcome = "acked", NEW l \in Life, l = On(t)
      PROVE  Committed(Attempt(l))'
  <2>1. WriteTurn(Attempt(l)) /\ Attempt(l) \in Sub
    BY <1>1, <1>4, CommitMoves DEF SpoolInv, TypeOK
  <2> QED
    BY <2>1, CommitsOf DEF SpoolInv, Commits
<1> QED
  BY <1>3, <1>4

LEMMA SpoolLaneKeeps ==
    ASSUME SpoolInv, NEW t \in Thread, SpoolLane(t)
    PROVE  Parts'
<1> DEFINE s == Spooled(On(t))
<1>1. th[t].pc = "spool" /\ s \in Sub /\ LifeOf(s) = On(t) /\ On(t) \in Life
  BY InProgress DEF SpoolLane, At
<1>2. place[s] = "none" /\ ~Committed(s)
  <2>1. place[s] = "none"
    BY <1>1 DEF SpoolInv, ThreadInv, ThreadOK
  <2> QED
    BY <1>1, <2>1, Identities DEF SpoolInv, FileInv, FilesAgree
<1>3. UNCHANGED <<born, chain, receipts, sidecars, drain>>
  BY DEF SpoolLane, turns
<1>4. UNCHANGED place \/ Publish(s)
  BY DEF SpoolLane, PublishFails
<1>5. FileStep(t)
  BY <1>1, <1>2, <1>3, <1>4, StillFiles, PublishStep DEF files
<1>6. \/ \E r \in {"dormant", "custody", "lost"} : Return(t, r)
      \/ th' = [th EXCEPT ![t].pc = "report", ![t].why = "custody"] /\ UNCHANGED result
  BY DEF SpoolLane
<1>7. ThreadInv'
  BY <1>1, <1>3, <1>5, <1>6, ReturnKeeps, ReportKeeps DEF FileStep, SpoolInv
<1> QED
  BY <1>5, <1>7 DEF FileStep, Parts

LEMMA HelperWriteKeeps ==
    ASSUME SpoolInv, NEW t \in Thread, HelperWrite(t)
    PROVE  Parts'
<1>1. At(t, "owner") /\ th[t].pc # "idle" /\ Free(On(t))
  BY DEF HelperWrite, At, SpoolInv, ThreadInv, ThreadOK
<1>2. UNCHANGED <<born, receipts, sidecars, drain>>
  BY DEF HelperWrite
<1>3. CASE writes /\ paused
  <2>1. UNCHANGED place \/ Publish(Attempt(On(t)))
    BY <1>3 DEF HelperWrite, PublishFails
  <2>2. FileStep(t)
    BY <1>1, <1>2, <1>3, <2>1, StillFiles, PublishStep DEF HelperWrite, turns, files, Free
  <2>3. \E r \in {"held", "lost"} : Return(t, r)
    BY <1>3 DEF HelperWrite
  <2>4. ThreadInv'
    BY <1>1, <1>2, <2>2, <2>3, ReturnKeeps DEF FileStep, SpoolInv
  <2> QED
    BY <2>2, <2>4 DEF FileStep, Parts
<1>4. CASE ~(writes /\ paused)
  <2>1. PICK outcome \in {"acked", "refused", "failed"} :
          /\ OwnerCommit(Attempt(On(t)), outcome)
          /\ \/ Return(t, "dormant")
             \/ outcome = "acked" /\ Return(t, "committed")
             \/ /\ th' = [th EXCEPT ![t].pc = "report", ![t].why = outcome]
                /\ UNCHANGED result
          /\ UNCHANGED place
    BY <1>4 DEF HelperWrite
  <2>2. FileStep(t) /\ (outcome = "acked" => \A l \in Life : l = On(t) => Committed(Attempt(l))')
    BY <1>1, <1>2, <2>1, CommitStep DEF files
  <2>3. ThreadInv'
    BY <1>1, <1>2, <2>1, <2>2, ReturnKeeps, ReportKeeps DEF FileStep, SpoolInv
  <2> QED
    BY <2>2, <2>3 DEF FileStep, Parts
<1> QED
  BY <1>3, <1>4

LEMMA RecorderCommitKeeps ==
    ASSUME SpoolInv, NEW t \in Thread, RecorderCommit(t)
    PROVE  Parts'
<1>1. At(t, "owner") /\ th[t].pc # "idle"
  BY DEF RecorderCommit, At
<1>2. UNCHANGED <<born, files, drain>>
  BY DEF RecorderCommit
<1>3. PICK outcome \in {"acked", "refused", "failed"} :
        /\ OwnerCommit(Attempt(On(t)), outcome)
        /\ \/ outcome = "acked" /\ Return(t, "committed")
           \/ /\ th' = [th EXCEPT ![t].pc = "report", ![t].why = outcome]
              /\ UNCHANGED result
  BY DEF RecorderCommit
<1>4. FileStep(t) /\ (outcome = "acked" => \A l \in Life : l = On(t) => Committed(Attempt(l))')
  BY <1>1, <1>2, <1>3, CommitStep
<1>5. ThreadInv'
  BY <1>1, <1>2, <1>3, <1>4, ReturnKeeps, ReportKeeps DEF FileStep, SpoolInv
<1> QED
  BY <1>4, <1>5 DEF FileStep, Parts

LEMMA ReportStepKeeps ==
    ASSUME SpoolInv, NEW t \in Thread, Report(t)
    PROVE  Parts'
<1>1. th[t].pc # "idle"
  BY DEF Report, At
<1>2. UNCHANGED <<born, chain, files, drain>>
  BY DEF Report, turns
<1>3. \E r \in {"dormant", "dead", "lost"} : Return(t, r)
  BY DEF Report
<1>4. FileStep(t)
  BY <1>2, StillFiles
<1>5. ThreadInv'
  BY <1>1, <1>2, <1>3, <1>4, ReturnKeeps DEF FileStep, SpoolInv
<1> QED
  BY <1>4, <1>5 DEF FileStep, Parts

LEMMA EnsureMarkerKeeps ==
    ASSUME SpoolInv, NEW t \in Thread, EnsureMarker(t)
    PROVE  Parts'
<1> DEFINE l == lives + 1
<1>1. th[t].pc = "ensure" /\ th[t] \in ThreadState /\ th[t].reply = NoLife
  BY DEF EnsureMarker, At, SpoolInv, TypeOK, ThreadInv, ThreadOK
<1>2. Free(On(t)) /\ On(t) \in 1..lives /\ On(t) \in Life /\ On(t) \in Claims(t)
  BY <1>1, InProgress DEF SpoolInv, ThreadInv, ThreadOK, Claims
<1>3. UNCHANGED <<chain, files, result, drain>>
  BY DEF EnsureMarker, turns
<1>4. \A s \in Sub : place'[s] = place[s] /\ (Committed(s)' <=> Committed(s))
  BY <1>3 DEF files, Committed
<1>5. ToldTrue'
  BY <1>3, <1>4, Identities DEF SpoolInv, ThreadInv, ToldTrue
<1>6. lives \in Nat
  BY DEF SpoolInv, TypeOK, StoreTypeOK
<1>7. CASE Goto(t, "owner") /\ UNCHANGED born
  <2>1. FileStep(t)
    BY <1>3, <1>7, StillFiles
  <2>2. th'[t].pc = "owner" /\ th'[t].life = th[t].life /\ th'[t].reply = NoLife
    BY <1>1, <1>7 DEF Goto, SpoolInv, TypeOK, ThreadState
  <2>3. On(t)' = On(t)
    BY <2>2 DEF On
  <2>4. Free(On(t))'
    <3>1. \A k \in Life : k # l /\ Free(k) => Free(k)'
      BY <1>4, <1>7, FreeKept DEF SpoolInv, OnlyTouches, NothingLost, born
    <3> QED
      BY <1>2, <1>6, <2>3, <3>1
  <2>5. ThreadOK(t)' /\ Claims(t)' \subseteq Claims(t)
    BY <1>2, <1>7, <2>2, <2>3, <2>4 DEF ThreadOK, Claims, born
  <2>6. OthersRest(t)
    BY <1>7 DEF Goto, OthersRest, SpoolInv, TypeOK
  <2>7. lives' = lives /\ \A k \in 1..lives : payload'[k] = payload[k] /\ edge'[Attempt(k)] = edge[Attempt(k)]
    BY <1>7 DEF born
  <2>8. ~(On(t) > lives)
    BY <1>2, <1>6
  <2>9. ThreadInv'
    BY <1>2, <1>5, <2>1, <2>5, <2>6, <2>7, <2>8, OneThread DEF FileStep, SpoolInv
  <2> QED
    BY <2>1, <2>9 DEF FileStep, Parts
<1>8. CASE Live(l, "marker", NoSub) /\
           th' = [th EXCEPT ![t].pc = "owner", ![t].life = l, ![t].reply = On(t)]
  <2>1. l \in Life /\ lives' = l
    BY <1>8 DEF Live
  <2>2. payload'[l] = "marker" /\ edge'[Attempt(l)] = NoSub
    BY <1>8, <2>1, LifeNames DEF SpoolInv, TypeOK
  <2>3. \A m \in 1..lives : payload'[m] = payload[m] /\ edge'[Attempt(m)] = edge[Attempt(m)]
    <3>1. \A m \in 1..lives : m \in Life /\ m # l
      BY <1>6, <2>1, LedgerAssumption DEF Life
    <3> QED
      BY <1>8, <2>1, <3>1, LifeNames DEF SpoolInv, TypeOK
  <2>4. FileInv'
    BY <1>3, <1>8, LifeFiles DEF SpoolInv, files, Payload
  <2>5. DrainInv'
    BY <1>3, <1>4, <2>3, DrainUntouched DEF SpoolInv, files
  <2>6. th'[t].pc = "owner" /\ th'[t].life = l /\ th'[t].reply = On(t)
    BY <1>1, <1>8 DEF SpoolInv, TypeOK, ThreadState
  <2>7. On(t)' = l
    BY <2>6 DEF On
  <2>8. Free(On(t))'
    <3>1. Attempt(l) \in Sub /\ LifeOf(Attempt(l)) = l
      BY <2>1, Identities
    <3>2. place[Attempt(l)] = "none" /\ ~Committed(Attempt(l))
      BY <1>6, <3>1 DEF SpoolInv, FileInv, FilesAgree
    <3>3. \A k \in Life : k = l => Free(k)'
      BY <1>4, <2>2, <3>1, <3>2 DEF Free, Resolved
    <3> QED
      BY <2>1, <2>7, <3>3
  <2>9. \A k \in Life : k = On(t) => Free(k)'
    <3>1. OnlyTouches(l) /\ NothingLost
      BY <1>4 DEF OnlyTouches, NothingLost
    <3>2. On(t) # l
      BY <1>2, <1>6
    <3> QED
      BY <1>2, <2>3, <3>1, <3>2, FreeKept DEF SpoolInv
  <2>10. ThreadOK(t)'
    BY <1>2, <1>6, <2>1, <2>6, <2>7, <2>8, <2>9 DEF ThreadOK
  <2>11. Claims(t)' \subseteq Claims(t) \cup ((lives + 1)..lives')
    BY <1>2, <1>6, <2>1, <2>6, <2>7 DEF Claims
  <2>12. OthersRest(t)
    BY <1>8 DEF OthersRest, SpoolInv, TypeOK
  <2>13. OnlyTouches(l) /\ NothingLost
    BY <1>4 DEF OnlyTouches, NothingLost
  <2>14. l > lives /\ lives' > lives
    BY <1>6, <2>1
  <2>15. ThreadInv'
    BY <1>5, <2>1, <2>3, <2>10, <2>11, <2>12, <2>13, <2>14, OneThread DEF SpoolInv
  <2> QED
    BY <2>4, <2>5, <2>15 DEF Parts
<1> QED
  BY <1>7, <1>8 DEF EnsureMarker

\* Threads that go idle, by parting or by dying, leave the others' part.
LEMMA RestKeeps ==
    ASSUME SpoolInv, NEW S \in SUBSET Thread,
           th' = [t \in Thread |-> IF t \in S THEN IdleThread ELSE th[t]],
           UNCHANGED <<ledgerVars, result>>
    PROVE  ThreadInv'
<1>1. \A l : Free(l)' <=> Free(l)
  BY DEF Free, Resolved, Committed, ledgerVars, born, turns, files
<1>2. ASSUME NEW t \in Thread
      PROVE  /\ ThreadOK(t)'
             /\ Claims(t)' \subseteq Claims(t)
  <2>1. CASE t \in S
    <3>1. th'[t].pc = "idle" /\ th'[t].reply = NoLife
      BY <2>1 DEF IdleThread
    <3> QED
      BY <3>1 DEF ThreadOK, Claims
  <2>2. CASE t \notin S
    <3>1. th'[t] = th[t] /\ ThreadOK(t)
      BY <2>2 DEF SpoolInv, ThreadInv
    <3>2. On(t)' = On(t)
      BY <3>1 DEF On
    <3> QED
      BY <1>1, <3>1, <3>2 DEF ThreadOK, Claims, ledgerVars, born, files
  <2> QED
    BY <2>1, <2>2
<1>3. ClaimsApart'
  BY <1>2 DEF SpoolInv, ThreadInv, ClaimsApart
<1>4. ToldTrue'
  BY DEF SpoolInv, ThreadInv, ToldTrue, Committed, ledgerVars, turns
<1> QED
  BY <1>2, <1>3, <1>4 DEF ThreadInv

LEMMA PartKeeps ==
    ASSUME SpoolInv, NEW t \in Thread, Part(t)
    PROVE  Parts'
<1>1. th' = [th EXCEPT ![t] = IdleThread] /\ UNCHANGED <<ledgerVars, result, drain>>
  BY DEF Part
<1>2. FileStep(t)
  BY <1>1, StillFiles DEF ledgerVars, turns
<1>3. ThreadInv'
  <2>1. th' = [u \in Thread |-> IF u \in {t} THEN IdleThread ELSE th[u]]
    BY <1>1 DEF SpoolInv, TypeOK
  <2> QED
    BY <1>1, <2>1, RestKeeps
<1> QED
  BY <1>2, <1>3 DEF FileStep, Parts

-----------------------------------------------------------------------------
(* The steps of the drainer                                                *)

\* A step of the drainer that writes no file leaves the threads their part.
LEMMA QuietKeeps ==
    ASSUME SpoolInv, DrainQuiet, DrainInv'
    PROVE  Parts'
<1>1. UNCHANGED <<born, chain, place, receipts, sidecars, th, result>>
  BY DEF DrainQuiet, ledgerVars, turns, files
<1>2. FileInv'
  BY <1>1, FilesKept DEF SpoolInv
<1>3. \A s \in Sub : place'[s] = place[s] /\ (Committed(s)' <=> Committed(s))
  BY <1>1 DEF Committed
<1>4. ThreadInv'
  BY <1>1, <1>3, ThreadsKept DEF SpoolInv
<1> QED
  BY <1>2, <1>4 DEF Parts

LEMMA DrainerWalks ==
    ASSUME SpoolInv,
           StartPass \/ BreakScan \/ EndScan \/ EndRound
           \/ (\E d \in Directory : ListDirectory(d))
           \/ (\E s \in Sub : ReadFile(s) \/ JudgeAuthority(s) \/ Defer(s) \/ TakeUp(s))
    PROVE  Parts'
<1> USE DEF Draining
<1>a. /\ drain \in DrainState /\ DrainInv /\ FilesAgree /\ EndsKept
      /\ Listed \subseteq Sub
  BY DEF SpoolInv, TypeOK, FileInv, Listed, DrainState
<1>b. ASSUME DrainQuiet
      PROVE  \A s \in Sub : /\ place'[s] = place[s] /\ (Committed(s)' <=> Committed(s))
                             /\ payload'[LifeOf(s)] = payload[LifeOf(s)]
  BY <1>b DEF DrainQuiet, ledgerVars, born, turns, files, Committed
<1>1. CASE StartPass
  <2>1. /\ drain'.pc = "scan" /\ drain'.files = {} /\ drain'.todo = {} /\ drain'.later = {}
        /\ DrainQuiet
    BY <1>1 DEF StartPass, IdleDrain, DrainQuiet
  <2>2. DrainInv'
    BY <2>1 DEF DrainInv, Listed, Busy
  <2> QED
    BY <2>1, <2>2, QuietKeeps
<1>2. CASE BreakScan
  <2>1. /\ drain'.pc = "scan" /\ drain'.files = {} /\ drain'.todo = drain.todo
        /\ drain'.later = drain.later /\ drain'.dirs = drain.dirs /\ DrainQuiet
    BY <1>2, <1>a DEF BreakScan, DrainQuiet, DrainState
  <2>2. Listed' \subseteq Listed
    BY <2>1 DEF Listed
  <2>3. DrainInv'
    BY <1>a, <1>b, <2>1, <2>2 DEF DrainInv, Listed, Busy
  <2> QED
    BY <2>1, <2>3, QuietKeeps
<1>3. CASE EndScan
  <2>1. /\ drain'.pc = "round" /\ drain'.files = drain.files /\ drain'.todo = drain.todo
        /\ drain'.later = drain.later /\ drain'.dirs = drain.dirs /\ DrainQuiet
    BY <1>3, <1>a DEF EndScan, DrainQuiet, DrainState
  <2>2. DrainInv'
    BY <1>a, <1>b, <2>1 DEF DrainInv, Listed, Busy
  <2> QED
    BY <2>1, <2>2, QuietKeeps
<1>4. CASE EndRound
  <2>1. DrainQuiet
    BY <1>4 DEF EndRound, DrainQuiet
  <2>2. CASE drain.progress
    <3>1. /\ drain'.pc = "round" /\ drain'.files = drain.files /\ drain'.todo = drain.later
          /\ drain'.later = {} /\ drain'.dirs = drain.dirs
      BY <1>4, <1>a, <2>2 DEF EndRound, DrainState
    <3>2. DrainInv'
      BY <1>a, <1>b, <2>1, <3>1 DEF DrainInv, Listed, Busy
    <3> QED
      BY <2>1, <3>2, QuietKeeps
  <2>3. CASE ~drain.progress
    <3>1. drain' = IdleDrain
      BY <1>4, <2>3 DEF EndRound
    <3>2. DrainInv'
      BY <3>1 DEF DrainInv, Listed, Busy, IdleDrain
    <3> QED
      BY <2>1, <3>2, QuietKeeps
  <2> QED
    BY <2>2, <2>3
<1>5. ASSUME NEW d \in Directory, ListDirectory(d)
      PROVE  Parts'
  <2>1. /\ drain'.pc = "scan" /\ drain'.dirs = drain.dirs \ {d}
        /\ drain'.files = {s \in Sub : place[s] = "pending" /\ DirectoryOf(s) = d}
        /\ drain'.todo = drain.todo /\ drain'.later = drain.later /\ DrainQuiet
    BY <1>5, <1>a DEF ListDirectory, DrainQuiet, DrainState
  <2>2. drain.files = {} /\ d \in drain.dirs
    BY <1>5 DEF ListDirectory
  <2>3. \A s \in drain.todo \cup drain.later : DirectoryOf(s) # d
    BY <1>a, <2>2 DEF DrainInv, Listed
  <2>4. \A s \in Listed' : s \in Sub /\ place[s] = "pending" /\ DirectoryOf(s) \notin drain'.dirs
    BY <1>a, <2>1, <2>3 DEF DrainInv, Listed
  <2>5. DrainInv'
    BY <1>a, <1>b, <2>1, <2>3, <2>4 DEF DrainInv, Listed, Busy
  <2> QED
    BY <2>1, <2>5, QuietKeeps
<1>6. ASSUME NEW s \in Sub, ReadFile(s)
      PROVE  Parts'
  <2>1. DrainQuiet /\ s \in drain.files /\ drain.pc = "scan"
    BY <1>6 DEF ReadFile, DrainQuiet
  <2>2. CASE payload[LifeOf(s)] = "garbled"
    <3>1. /\ drain'.pc = "condemn" /\ drain'.now = s /\ drain'.files = drain.files \ {s}
          /\ drain'.todo = drain.todo /\ drain'.later = drain.later /\ drain'.dirs = drain.dirs
      BY <1>6, <1>a, <2>2 DEF ReadFile, DrainState
    <3>2. ~Committed(s)
      BY <1>a, <2>2 DEF FilesAgree
    <3>3. DrainInv'
      BY <1>a, <1>b, <2>1, <3>1, <3>2 DEF DrainInv, Listed, Busy
    <3> QED
      BY <2>1, <3>3, QuietKeeps
  <2>3. CASE payload[LifeOf(s)] # "garbled"
    <3>1. /\ drain'.pc = "scan" /\ drain'.files = drain.files \ {s}
          /\ drain'.todo = drain.todo \cup {s} /\ drain'.later = drain.later
          /\ drain'.dirs = drain.dirs
      BY <1>6, <1>a, <2>1, <2>3 DEF ReadFile, DrainState
    <3>2. DrainInv'
      BY <1>a, <1>b, <2>1, <2>3, <3>1 DEF DrainInv, Listed, Busy
    <3> QED
      BY <2>1, <3>2, QuietKeeps
  <2> QED
    BY <2>2, <2>3
<1>7. ASSUME NEW s \in Sub, JudgeAuthority(s)
      PROVE  Parts'
  <2>1. DrainQuiet /\ s \in drain.todo /\ payload[LifeOf(s)] = "marker"
    BY <1>7 DEF JudgeAuthority, DrainQuiet, Authority
  <2>2. /\ drain'.pc = "condemn" /\ drain'.now = s /\ drain'.files = drain.files
        /\ drain'.todo = drain.todo \ {s} /\ drain'.later = drain.later
        /\ drain'.dirs = drain.dirs
    BY <1>7, <1>a DEF JudgeAuthority, DrainState
  <2>3. ~Committed(s)
    BY <1>a, <2>1 DEF DrainInv, Listed, FilesAgree
  <2>4. DrainInv'
    BY <1>a, <1>b, <2>1, <2>2, <2>3 DEF DrainInv, Listed, Busy
  <2> QED
    BY <2>1, <2>4, QuietKeeps
<1>8. ASSUME NEW s \in Sub, Defer(s)
      PROVE  Parts'
  <2>1. DrainQuiet /\ s \in drain.todo
    BY <1>8 DEF Defer, DrainQuiet
  <2>2. /\ drain'.pc = "round" /\ drain'.files = drain.files /\ drain'.todo = drain.todo \ {s}
        /\ drain'.later = drain.later \cup {s} /\ drain'.dirs = drain.dirs
    BY <1>8, <1>a DEF Defer, DrainState
  <2>3. DrainInv'
    BY <1>a, <1>b, <2>1, <2>2 DEF DrainInv, Listed, Busy
  <2> QED
    BY <2>1, <2>3, QuietKeeps
<1>9. ASSUME NEW s \in Sub, TakeUp(s)
      PROVE  Parts'
  <2>1. DrainQuiet /\ s \in drain.todo /\ payload[LifeOf(s)] \notin {"garbled", "marker"}
    BY <1>9, <1>a DEF TakeUp, DrainQuiet, Authority, DrainInv
  <2>2. /\ drain'.pc = "commit" /\ drain'.now = s /\ drain'.files = drain.files
        /\ drain'.todo = drain.todo \ {s} /\ drain'.later = drain.later
        /\ drain'.dirs = drain.dirs
    BY <1>9, <1>a DEF TakeUp, DrainState
  <2>3. DrainInv'
    BY <1>a, <1>b, <2>1, <2>2 DEF DrainInv, Listed, Busy
  <2> QED
    BY <2>1, <2>3, QuietKeeps
<1> QED
  BY <1>1, <1>2, <1>3, <1>4, <1>5, <1>6, <1>7, <1>8, <1>9

\* An entry is committed, refused by the writer, or left for another round.
LEMMA CommitEntryKeeps ==
    ASSUME SpoolInv, NEW outcome \in {"acked", "refused", "failed"}, CommitEntry(outcome)
    PROVE  Parts'
<1> USE DEF Draining
<1>s. PICK s \in Sub : s = drain.now
  BY DEF CommitEntry, SpoolInv, DrainInv, Busy
<1>1. /\ drain \in DrainState /\ DrainInv /\ FileInv /\ TypeOK
      /\ Listed \subseteq Sub
  BY DEF SpoolInv, TypeOK, Listed, DrainState
<1>2. /\ s \in Sub \ Listed /\ payload[LifeOf(s)] \notin {"garbled", "marker"}
      /\ place[s] = "pending" /\ DirectoryOf(s) \notin drain.dirs /\ Resolved(s)
  BY <1>1, <1>s DEF CommitEntry, DrainInv, Busy, SpoolInv, Ready
<1>3. LifeOf(s) \in 1..lives
  BY <1>2, Identities DEF SpoolInv, FileInv, FilesAgree, Life, TypeOK, StoreTypeOK
<1>4. UNCHANGED <<born, place, receipts, sidecars, th, result>> /\ OwnerCommit(s, outcome)
  BY <1>s DEF CommitEntry, files
<1>5. /\ UNCHANGED turns \/ WriteTurn(s)
      /\ outcome = "acked" => WriteTurn(s)
      /\ outcome = "refused" => WriterRefuses(s) /\ UNCHANGED turns
  BY <1>1, <1>4, CommitMoves DEF TypeOK
<1>6. FileInv'
  <2>1. CASE UNCHANGED turns
    BY <1>1, <1>4, <2>1, FilesKept DEF turns
  <2>2. CASE WriteTurn(s)
    BY <1>1, <1>2, <1>3, <1>4, <2>2, TurnFiles
  <2> QED
    BY <1>5, <2>1, <2>2
<1>7. Commits({}) \/ Commits({s})
  BY <1>1, <1>5, CommitsOf DEF turns
<1>8. /\ \A x \in Sub : Committed(x) => Committed(x)'
      /\ \A x \in Sub : x # s => (Committed(x)' <=> Committed(x))
  BY <1>7 DEF Commits
<1>9. ThreadInv'
  BY <1>2, <1>4, <1>8, ThreadsKept DEF SpoolInv
<1>10. DrainInv'
  <2>1. \A x \in Sub : place'[x] = place[x] /\ payload'[LifeOf(x)] = payload[LifeOf(x)]
    BY <1>4 DEF born
  <2>2. CASE outcome = "failed"
    <3>1. /\ drain'.pc = "round" /\ drain'.files = drain.files
          /\ drain'.todo = drain.todo /\ drain'.later = drain.later \cup {s}
          /\ drain'.dirs = drain.dirs
      BY <1>1, <1>s, <2>2 DEF CommitEntry, DrainState
    <3> QED
      BY <1>1, <1>2, <2>1, <3>1 DEF DrainInv, Listed, Busy
  <2>3. CASE outcome # "failed"
    <3>1. /\ drain'.pc = (IF outcome = "acked" THEN "ack" ELSE "condemn") /\ drain'.now = s
          /\ drain'.files = drain.files /\ drain'.todo = drain.todo
          /\ drain'.later = drain.later /\ drain'.dirs = drain.dirs
      BY <1>1, <1>s, <2>3 DEF CommitEntry, DrainState
    <3>2. outcome = "acked" => Committed(s)'
      BY <1>1, <1>5, CommitsOf DEF Commits
    <3>3. outcome = "refused" => ~Committed(s)'
      BY <1>1, <1>2, <1>5 DEF WriterRefuses, FileInv, FilesAgree, Committed, turns
    <3> QED
      BY <1>1, <1>2, <2>1, <2>3, <3>1, <3>2, <3>3 DEF DrainInv, Listed, Busy
  <2> QED
    BY <2>2, <2>3
<1> QED
  BY <1>6, <1>9, <1>10 DEF Parts

\* The drainer writes a receipt or a sidecar, or moves the envelope in hand.
LEMMA DrainerWrites ==
    ASSUME SpoolInv,
           WriteReceipt \/ MoveAcked \/ WriteSidecar \/ MoveRefused
           \/ (\E s \in Sub : LookupRaises(s))
    PROVE  Parts'
<1> DEFINE now == drain.now
<1> USE DEF Draining
<1>1. /\ drain \in DrainState /\ DrainInv /\ FileInv /\ TypeOK
      /\ Listed \subseteq Sub
  BY DEF SpoolInv, TypeOK, Listed, DrainState
<1>2. UNCHANGED <<born, chain, th, result>>
  BY DEF WriteReceipt, MoveAcked, WriteSidecar, MoveRefused, LookupRaises, turns
<1>3. \A x \in Sub : (Committed(x)' <=> Committed(x)) /\ payload'[LifeOf(x)] = payload[LifeOf(x)]
  BY <1>2 DEF Committed, born
<1>4. Busy => now \in Sub \ Listed /\ place[now] = "pending" /\ DirectoryOf(now) \notin drain.dirs
  BY <1>1 DEF DrainInv
\* What is left to show when only the envelope in hand may have moved.
<1>5. ASSUME Busy, \A x \in Sub : x # now => place'[x] = place[x], place'[now] # "none"
      PROVE  ThreadInv'
  BY <1>2, <1>3, <1>4, <1>5, ThreadsKept DEF SpoolInv
<1>6. ASSUME Busy, drain' = BackTo, \A x \in Sub : x # now => place'[x] = place[x]
      PROVE  DrainInv'
  <2>1. /\ drain'.pc \in {"scan", "round"} /\ drain'.files = drain.files
        /\ drain'.todo = drain.todo /\ drain'.later = drain.later /\ drain'.dirs = drain.dirs
    BY <1>1, <1>6 DEF BackTo, DrainState
  <2>2. \A x \in Listed : place'[x] = place[x]
    BY <1>1, <1>4, <1>6
  <2> QED
    BY <1>1, <1>3, <2>1, <2>2 DEF DrainInv, Listed, Busy
<1>7. ASSUME drain' = [IdleDrain EXCEPT !.pc = "raised"]
      PROVE  DrainInv'
  BY <1>7 DEF IdleDrain, DrainInv, Listed, Busy
<1>8. CASE WriteReceipt
  <2>1. drain.pc = "ack" /\ Busy /\ Committed(now) /\ UNCHANGED <<place, sidecars>>
    BY <1>1, <1>8 DEF WriteReceipt, Busy, DrainInv
  <2>2. ThreadInv'
    BY <1>4, <1>5, <2>1
  <2>3. CASE receipts' = receipts \cup {now} /\ drain' = [drain EXCEPT !.pc = "settle"]
    <3>1. FileInv'
      BY <1>1, <1>2, <1>4, <2>1, <2>3, DrainFiles
    <3>2. /\ drain'.pc = "settle" /\ drain'.files = drain.files /\ drain'.todo = drain.todo
          /\ drain'.later = drain.later /\ drain'.dirs = drain.dirs /\ drain'.now = now
      BY <1>1, <2>3 DEF DrainState
    <3>3. DrainInv'
      BY <1>1, <1>3, <1>4, <2>1, <2>3, <3>2 DEF DrainInv, Listed, Busy
    <3> QED
      BY <2>2, <3>1, <3>3 DEF Parts
  <2>4. CASE drain' = BackTo /\ receipts' \in {receipts, receipts \cup {now}}
    <3>1. FileInv'
      BY <1>1, <1>2, <1>4, <2>1, <2>4, DrainFiles, FilesKept
    <3> QED
      BY <1>6, <2>1, <2>2, <2>4, <3>1 DEF Parts
  <2> QED
    BY <1>8, <2>3, <2>4 DEF WriteReceipt
<1>9. CASE MoveAcked
  <2>1. drain.pc = "settle" /\ Busy /\ now \in receipts /\ UNCHANGED <<receipts, sidecars>>
    BY <1>1, <1>9 DEF MoveAcked, Busy, DrainInv
  <2>2. Move(now, "acked") \/ UNCHANGED place
    BY <1>9 DEF MoveAcked
  <2>3. FileInv'
    BY <1>1, <1>2, <1>4, <2>1, <2>2, DrainFiles, FilesKept
  <2>4. (\A x \in Sub : x # now => place'[x] = place[x]) /\ place'[now] # "none"
    BY <1>1, <1>4, <2>1, <2>2 DEF Move, TypeOK, StoreTypeOK
  <2> QED
    BY <1>5, <1>6, <1>9, <2>1, <2>3, <2>4 DEF MoveAcked, Parts
<1>10. CASE WriteSidecar
  <2>1. drain.pc = "condemn" /\ Busy /\ ~Committed(now) /\ UNCHANGED <<place, receipts>>
    BY <1>1, <1>10 DEF WriteSidecar, Busy, DrainInv
  <2>2. ThreadInv'
    BY <1>4, <1>5, <2>1
  <2>3. CASE sidecars' = sidecars \cup {now} /\ drain' = [drain EXCEPT !.pc = "refuse"]
    <3>1. FileInv'
      BY <1>1, <1>2, <1>4, <2>1, <2>3, DrainFiles
    <3>2. /\ drain'.pc = "refuse" /\ drain'.files = drain.files /\ drain'.todo = drain.todo
          /\ drain'.later = drain.later /\ drain'.dirs = drain.dirs /\ drain'.now = now
      BY <1>1, <2>3 DEF DrainState
    <3>3. DrainInv'
      BY <1>1, <1>3, <1>4, <2>1, <2>3, <3>2 DEF DrainInv, Listed, Busy
    <3> QED
      BY <2>2, <3>1, <3>3 DEF Parts
  <2>4. CASE /\ drain' = [IdleDrain EXCEPT !.pc = "raised"]
             /\ sidecars' \in {sidecars, sidecars \cup {now}}
    <3>1. FileInv'
      BY <1>1, <1>2, <1>4, <2>1, <2>4, DrainFiles, FilesKept
    <3> QED
      BY <1>7, <2>2, <2>4, <3>1 DEF Parts
  <2> QED
    BY <1>10, <2>3, <2>4 DEF WriteSidecar
<1>11. CASE MoveRefused
  <2>1. /\ drain.pc = "refuse" /\ Busy /\ now \in sidecars /\ ~Committed(now)
        /\ UNCHANGED <<receipts, sidecars>>
    BY <1>1, <1>11 DEF MoveRefused, Busy, DrainInv
  <2>2. Move(now, "refused") \/ UNCHANGED place
    BY <1>11 DEF MoveRefused
  <2>3. FileInv'
    BY <1>1, <1>2, <1>4, <2>1, <2>2, DrainFiles, FilesKept
  <2>4. (\A x \in Sub : x # now => place'[x] = place[x]) /\ place'[now] # "none"
    BY <1>1, <1>4, <2>1, <2>2 DEF Move, TypeOK, StoreTypeOK
  <2>5. drain' = BackTo \/ drain' = [IdleDrain EXCEPT !.pc = "raised"]
    BY <1>11 DEF MoveRefused
  <2> QED
    BY <1>5, <1>6, <1>7, <2>1, <2>3, <2>4, <2>5 DEF Parts
<1>12. ASSUME NEW s \in Sub, LookupRaises(s)
       PROVE  Parts'
  <2>1. UNCHANGED <<place, receipts, sidecars>> /\ drain' = [IdleDrain EXCEPT !.pc = "raised"]
    BY <1>12 DEF LookupRaises, files
  <2>2. FileInv'
    BY <1>1, <1>2, <2>1, FilesKept
  <2>3. ThreadInv'
    BY <1>2, <1>3, <2>1, ThreadsKept DEF SpoolInv
  <2> QED
    BY <1>7, <2>1, <2>2, <2>3 DEF Parts
<1> QED
  BY <1>8, <1>9, <1>10, <1>11, <1>12

-----------------------------------------------------------------------------
(* The environment                                                         *)

LEMMA EnvironmentKeeps ==
    ASSUME SpoolInv, SetFlag \/ ClearFlag \/ Crash
    PROVE  Parts'
<1>1. CASE SetFlag \/ ClearFlag
  <2>1. UNCHANGED <<born, chain, files, th, result, drain>>
    BY <1>1 DEF SetFlag, ClearFlag, turns
  <2>2. FileInv'
    BY <2>1, FilesKept DEF SpoolInv, files
  <2>3. \A s \in Sub : place'[s] = place[s] /\ (Committed(s)' <=> Committed(s))
    BY <2>1 DEF files, Committed
  <2>4. ThreadInv'
    BY <2>1, <2>3, ThreadsKept DEF SpoolInv
  <2>5. DrainInv'
    BY <2>1, <2>3, DrainUntouched DEF SpoolInv, files, born
  <2> QED
    BY <2>2, <2>4, <2>5 DEF Parts
<1>2. CASE Crash
  <2>1. UNCHANGED <<ledgerVars, result>>
    BY <1>2 DEF Crash
  <2>2. FileInv'
    BY <2>1, FilesKept DEF SpoolInv, ledgerVars, turns, files
  <2>3. ThreadInv'
    <3>1. \E S \in SUBSET Thread :
            th' = [t \in Thread |-> IF t \in S THEN IdleThread ELSE th[t]]
      <4>1. CASE th' = [t \in Thread |-> IF t \in Daemon THEN IdleThread ELSE th[t]]
        BY <4>1 DEF Thread
      <4>2. CASE \E t \in Surface : th' = [th EXCEPT ![t] = IdleThread]
        <5>1. PICK t \in Surface : th' = [th EXCEPT ![t] = IdleThread]
          BY <4>2
        <5>2. th' = [u \in Thread |-> IF u \in {t} THEN IdleThread ELSE th[u]]
          BY <5>1 DEF SpoolInv, TypeOK
        <5> QED
          BY <5>2 DEF Thread
      <4> QED
        BY <1>2, <4>1, <4>2 DEF Crash
    <3> QED
      BY <2>1, <3>1, RestKeeps
  <2>4. DrainInv'
    <3>1. CASE drain' = IdleDrain
      BY <3>1 DEF IdleDrain, DrainInv, Listed, Busy
    <3>2. CASE UNCHANGED drain
      <4>1. \A s \in Sub : place'[s] = place[s] /\ (Committed(s)' <=> Committed(s))
        BY <2>1 DEF ledgerVars, files, turns, Committed
      <4> QED
        BY <2>1, <3>2, <4>1, DrainUntouched DEF SpoolInv, ledgerVars, files, born
    <3> QED
      BY <1>2, <3>1, <3>2 DEF Crash
  <2> QED
    BY <2>2, <2>3, <2>4 DEF Parts
<1> QED
  BY <1>1, <1>2

\* A step either writes one turn or leaves the turns table and its marker row;
\* no life begins in the step that writes.
LEMMA TurnMoves ==
    ASSUME SpoolInv, [Next]_vars
    PROVE  (\E s \in Sub : WriteTurn(s) /\ UNCHANGED born) \/ UNCHANGED turns
<1>1. ASSUME NEW t \in Thread, HelperWrite(t) \/ RecorderCommit(t)
      PROVE  (\E s \in Sub : WriteTurn(s) /\ UNCHANGED born) \/ UNCHANGED turns
  <2>1. Attempt(On(t)) \in Sub
    BY <1>1, InProgress DEF HelperWrite, RecorderCommit, At
  <2>2. \/ \E outcome \in {"acked", "refused", "failed"} :
             OwnerCommit(Attempt(On(t)), outcome) /\ UNCHANGED born
        \/ UNCHANGED turns
    BY <1>1 DEF HelperWrite, RecorderCommit
  <2> QED
    BY <2>1, <2>2 DEF OwnerCommit
<1>2. ASSUME NEW outcome, CommitEntry(outcome)
      PROVE  (\E s \in Sub : WriteTurn(s) /\ UNCHANGED born) \/ UNCHANGED turns
  <2>1. drain.now \in Sub /\ OwnerCommit(drain.now, outcome) /\ UNCHANGED born
    BY <1>2 DEF CommitEntry, Draining, SpoolInv, DrainInv, Busy
  <2> QED
    BY <2>1 DEF OwnerCommit
<1>3. ASSUME NEW t \in Thread, SpoolLane(t) \/ EnsureMarker(t) \/ Report(t)
      PROVE  UNCHANGED turns
  BY <1>3 DEF SpoolLane, EnsureMarker, Report
<1>4. ASSUME Drain, \A outcome : ~CommitEntry(outcome)
      PROVE  UNCHANGED turns
  BY <1>4 DEF Drain, StartPass, BreakScan, EndScan, EndRound, ListDirectory, ReadFile,
     JudgeAuthority, Defer, TakeUp, LookupRaises, WriteReceipt, MoveAcked, WriteSidecar,
     MoveRefused, ledgerVars
<1>5. ASSUME SetFlag \/ ClearFlag \/ Crash \/ UNCHANGED vars \/ \E t \in Thread : Part(t)
      PROVE  UNCHANGED turns
  BY <1>5 DEF SetFlag, ClearFlag, Crash, Part, vars, ledgerVars
<1>6. ASSUME NEW t, NEW api, NEW bytes, Hear(t, api, bytes) \/ Answer(t, bytes) \/ Speak(t, bytes)
      PROVE  UNCHANGED turns
  BY <1>6 DEF Hear, Answer, Speak
<1> QED
  BY <1>1, <1>2, <1>3, <1>4, <1>5, <1>6 DEF Next, Recording

\* A step lives at most one more life; the ones lived keep their bytes and edge.
LEMMA LivesStay ==
    ASSUME SpoolInv, [Next]_vars
    PROVE  /\ \A l \in 1..lives : payload'[l] = payload[l]
           /\ \A s \in Sub : LifeOf(s) \in 1..lives => edge'[s] = edge[s]
<1>1. UNCHANGED born \/ \E b, e : Live(lives + 1, b, e)
  <2>1. ASSUME NEW t, NEW api, NEW bytes, Hear(t, api, bytes) \/ Answer(t, bytes) \/ Speak(t, bytes)
        PROVE  \E b, e : Live(lives + 1, b, e)
    BY <2>1 DEF Hear, Answer, Speak
  <2>2. ASSUME NEW t \in Thread, Recording(t) \/ Part(t)
        PROVE  UNCHANGED born \/ \E b, e : Live(lives + 1, b, e)
    BY <2>2 DEF Recording, SpoolLane, EnsureMarker, HelperWrite, RecorderCommit, Report, Part,
       ledgerVars
  <2>3. ASSUME Drain \/ SetFlag \/ ClearFlag \/ Crash \/ UNCHANGED vars
        PROVE  UNCHANGED born
    BY <2>3 DEF Drain, StartPass, BreakScan, EndScan, EndRound, ListDirectory, ReadFile,
       JudgeAuthority, Defer, TakeUp, CommitEntry, LookupRaises, WriteReceipt, MoveAcked,
       WriteSidecar, MoveRefused, SetFlag, ClearFlag, Crash, vars, ledgerVars
  <2> QED
    BY <2>1, <2>2, <2>3 DEF Next
<1>2. CASE UNCHANGED born
  BY <1>2 DEF born
<1>3. ASSUME NEW b, NEW e, Live(lives + 1, b, e)
      PROVE  /\ \A l \in 1..lives : payload'[l] = payload[l]
             /\ \A s \in Sub : LifeOf(s) \in 1..lives => edge'[s] = edge[s]
  <2>1. lives + 1 \in Life /\ 1..lives \subseteq Life /\ lives \in Nat
    BY <1>3, LedgerAssumption DEF Live, SpoolInv, TypeOK, StoreTypeOK, Life
  <2> QED
    BY <1>3, <2>1, LifeNames DEF SpoolInv, TypeOK
<1> QED
  BY <1>1, <1>2, <1>3

\* Turns stay, and so does the parent a life names.
LEMMA TurnsStay ==
    ASSUME SpoolInv, [Next]_vars
    PROVE  NothingLost /\ \A s \in Sub : LifeOf(s) \in 1..lives => edge'[s] = edge[s]
<1>1. (\E s \in Sub : WriteTurn(s)) \/ UNCHANGED chain
  BY TurnMoves DEF turns
<1>2. NothingLost
  BY <1>1, CommitsOf DEF SpoolInv, Commits, NothingLost
<1> QED
  BY <1>2, LivesStay

\* What was ready when the drainer took it up is ready when it commits.
LEMMA ReadyKeeps ==
    ASSUME SpoolInv, [Next]_vars
    PROVE  Ready'
<1>1. CASE drain' = drain
  <2> SUFFICES ASSUME drain.pc = "commit" PROVE Resolved(drain.now)'
    BY <1>1 DEF Ready
  <2>1. drain.now \in Sub /\ place[drain.now] = "pending" /\ Resolved(drain.now)
    BY DEF SpoolInv, DrainInv, Busy, Ready
  <2>2. LifeOf(drain.now) \in 1..lives
    <3>1. LifeOf(drain.now) \in Life /\ ~(LifeOf(drain.now) > lives)
      BY <2>1, Identities DEF SpoolInv, FileInv, FilesAgree
    <3> QED
      BY <3>1, LedgerAssumption DEF Life, SpoolInv, TypeOK, StoreTypeOK
  <2>3. edge[drain.now] \in Sub \cup {NoSub}
    BY <2>1, Identities DEF SpoolInv, TypeOK, StoreTypeOK
  <2>4. edge'[drain.now] = edge[drain.now] /\ NothingLost
    BY <2>1, <2>2, TurnsStay
  <2> QED
    BY <1>1, <2>1, <2>3, <2>4 DEF Resolved, NothingLost
<1>2. ASSUME NEW s \in Sub, TakeUp(s)
      PROVE  Ready'
  <2>1. drain'.now = s /\ Resolved(s) /\ UNCHANGED <<edge, chain>>
    BY <1>2 DEF TakeUp, SpoolInv, TypeOK, DrainState, ledgerVars, born, turns
  <2> QED
    BY <2>1 DEF Ready, Resolved, Committed
<1>3. ASSUME drain' # drain, \A s \in Sub : ~TakeUp(s)
      PROVE  drain'.pc # "commit"
  <2>1. drain \in DrainState
    BY DEF SpoolInv, TypeOK
  <2>2. CASE Drain
    <3>1. CASE StartPass
      BY <3>1 DEF StartPass, IdleDrain
    <3>2. CASE BreakScan
      BY <2>1, <3>2 DEF BreakScan, Draining, DrainState
    <3>3. CASE EndScan
      BY <2>1, <3>3 DEF EndScan, Draining, DrainState
    <3>4. CASE EndRound
      <4>1. CASE drain.progress
        <5>1. drain' = [drain EXCEPT !.todo = drain.later, !.later = {}, !.progress = FALSE]
          BY <3>4, <4>1 DEF EndRound
        <5> QED
          BY <2>1, <3>4, <5>1 DEF EndRound, Draining, DrainState
      <4>2. CASE ~drain.progress
        BY <3>4, <4>2 DEF EndRound, IdleDrain
      <4> QED
        BY <4>1, <4>2
    <3>5. ASSUME NEW d \in Directory, ListDirectory(d)
          PROVE  drain'.pc # "commit"
      <4> DEFINE listed == {s \in Sub : place[s] = "pending" /\ DirectoryOf(s) = d}
      <4>1. drain' = [drain EXCEPT !.dirs = @ \ {d}, !.files = listed] /\ drain.pc = "scan"
        BY <3>5 DEF ListDirectory, Draining
      <4> HIDE DEF listed
      <4> QED
        BY <2>1, <4>1 DEF DrainState
    <3>6. CASE \E s \in Sub : ReadFile(s) \/ JudgeAuthority(s) \/ Defer(s) \/ LookupRaises(s)
      BY <2>1, <3>6 DEF ReadFile, JudgeAuthority, Defer, LookupRaises, Draining, DrainState,
         IdleDrain
    <3>7. CASE \E outcome \in {"acked", "refused", "failed"} : CommitEntry(outcome)
      BY <2>1, <3>7 DEF CommitEntry, Draining, DrainState
    <3>8. CASE WriteReceipt \/ MoveAcked \/ WriteSidecar \/ MoveRefused
      BY <2>1, <3>8 DEF WriteReceipt, MoveAcked, WriteSidecar, MoveRefused, Draining, DrainState,
         IdleDrain, BackTo
    <3> QED
      BY <1>3, <2>2, <3>1, <3>2, <3>3, <3>4, <3>5, <3>6, <3>7, <3>8 DEF Drain
  <2>3. CASE Crash
    BY <1>3, <2>3 DEF Crash, IdleDrain
  <2>4. ASSUME ~Drain, ~Crash
        PROVE  drain' = drain
    BY <2>4 DEF Next, Hear, Answer, Speak, Part, Recording, SpoolLane, EnsureMarker, HelperWrite,
       RecorderCommit, Report, SetFlag, ClearFlag, vars
  <2> QED
    BY <1>3, <2>2, <2>3, <2>4
<1> QED
  BY <1>1, <1>2, <1>3 DEF Ready

-----------------------------------------------------------------------------
(* The theorems                                                            *)

LEMMA SpoolInit == Init => SpoolInv
<1> SUFFICES ASSUME Init PROVE SpoolInv
  OBVIOUS
<1>1. TypeOK
  BY InitTypes
<1>2. chain = <<>> /\ place = [s \in Sub |-> "none"] /\ receipts = {} /\ sidecars = {}
  BY DEF Init, StoreInit
<1>3. FileInv
  BY <1>2 DEF FileInv, FilesAgree, OneTurnPerSubmission, ParentsFirst, EndsKept, Committed
<1>4. ThreadInv
  BY DEF Init, IdleThread, ThreadInv, ThreadOK, ClaimsApart, Claims, ToldTrue
<1>5. DrainInv /\ Ready
  BY DEF Init, IdleDrain, DrainInv, Listed, Busy, Ready
<1> QED
  BY <1>1, <1>3, <1>4, <1>5 DEF SpoolInv

LEMMA SpoolNext == SpoolInv /\ [Next]_vars => SpoolInv'
<1> SUFFICES ASSUME SpoolInv, [Next]_vars PROVE SpoolInv'
  OBVIOUS
<1>a. TypeOK /\ ThreadInv /\ DrainInv
  BY DEF SpoolInv
<1>b. Ready'
  BY ReadyKeeps
<1>1. ASSUME NEW t \in Thread, NEW api \in Api, NEW bytes \in Bytes, Hear(t, api, bytes)
      PROVE  SpoolInv'
  BY <1>1, <1>a, <1>b, ThreadTypes, HearKeeps DEF Parts, SpoolInv
<1>2. ASSUME NEW t \in Thread, NEW bytes \in Bytes, Answer(t, bytes) \/ Speak(t, bytes)
      PROVE  SpoolInv'
  BY <1>2, <1>a, <1>b, ThreadTypes, AnswerKeeps, SpeakKeeps DEF Parts, SpoolInv
<1>3. ASSUME NEW t \in Thread, Part(t)
      PROVE  SpoolInv'
  BY <1>3, <1>a, <1>b, ThreadTypes, PartKeeps DEF Parts, SpoolInv
<1>4. ASSUME NEW t \in Thread, Recording(t)
      PROVE  SpoolInv'
  <2>1. TypeOK'
    BY <1>4, <1>a, ThreadTypes
  <2>2. Parts'
    BY <1>4, SpoolLaneKeeps, EnsureMarkerKeeps, HelperWriteKeeps, RecorderCommitKeeps,
       ReportStepKeeps DEF Recording
  <2> QED
    BY <1>b, <2>1, <2>2 DEF Parts, SpoolInv
<1>5. ASSUME Drain
      PROVE  SpoolInv'
  <2>1. TypeOK'
    BY <1>5, <1>a, DrainerTypes
  <2>2. Parts'
    BY <1>5, DrainerWalks, CommitEntryKeeps, DrainerWrites DEF Drain
  <2> QED
    BY <1>b, <2>1, <2>2 DEF Parts, SpoolInv
<1>6. ASSUME SetFlag \/ ClearFlag \/ Crash
      PROVE  SpoolInv'
  BY <1>6, <1>a, <1>b, EnvironmentTypes, EnvironmentKeeps DEF Parts, SpoolInv
<1>7. ASSUME UNCHANGED vars
      PROVE  SpoolInv'
  <2>1. TypeOK'
    BY <1>7, <1>a DEF vars, ledgerVars, born, turns, files, flags, env, TypeOK, StoreTypeOK
  <2>2. UNCHANGED <<born, chain, place, receipts, sidecars, th, result, drain>>
    BY <1>7 DEF vars, ledgerVars, turns, files
  <2>3. FileInv'
    BY <2>2, FilesKept DEF SpoolInv
  <2>4. \A s \in Sub : place'[s] = place[s] /\ (Committed(s)' <=> Committed(s))
    BY <2>2 DEF Committed
  <2>5. ThreadInv' /\ DrainInv'
    BY <2>2, <2>4, ThreadsKept, DrainUntouched DEF SpoolInv, born
  <2> QED
    BY <1>b, <2>1, <2>3, <2>5 DEF SpoolInv
<1> QED
  BY <1>1, <1>2, <1>3, <1>4, <1>5, <1>6, <1>7 DEF Next

\* The invariant behind the others: the files, the recording threads and the
\* drainer's hands agree, whatever crashes, failures and flag flips come.
THEOREM SpoolInvariant == Spec => []SpoolInv
  BY SpoolInit, SpoolNext, PTL DEF Spec

\* The files, the threads and the drainer stay in their ranges, however many
\* lives, threads and failures there are (owner.py, recorder.py, spool.py).
THEOREM SpoolTypeCorrect == Spec => []TypeOK
<1>1. SpoolInv => TypeOK
  BY DEF SpoolInv
<1> QED
  BY <1>1, SpoolInvariant, PTL

\* No submission becomes two turns: write_turn under the UNIQUE submission_id,
\* redriven by the drainer as often as may be.
THEOREM TurnsAreUnique == Spec => []OneTurnPerSubmission
<1>1. SpoolInv => OneTurnPerSubmission
  BY DEF SpoolInv, FileInv
<1> QED
  BY <1>1, SpoolInvariant, PTL

\* Every parent edge of the turns table points back in the chain, through
\* whichever lane parent and child were recorded: the owner's direct lane
\* only names turns, and drain_once defers a child without its parent's.
THEOREM ParentsComeFirst == Spec => []ParentsFirst
<1>1. SpoolInv => ParentsFirst
  BY DEF SpoolInv, FileInv
<1> QED
  BY <1>1, SpoolInvariant, PTL

\* A marker's turn set the marker row, in the transaction that added it.
MarkerSet ==
    \A i \in 1..Len(chain) : payload[LifeOf(chain[i])] = "marker" => marked

MarkerInv == MarkerSet /\ OneMarker

\* The payload of a turn is settled: its life was lived before.
LEMMA TurnPayloads ==
    ASSUME SpoolInv, [Next]_vars, NEW i \in 1..Len(chain)
    PROVE  chain[i] \in Sub /\ payload'[LifeOf(chain[i])] = payload[LifeOf(chain[i])]
<1>1. chain[i] \in Sub /\ Committed(chain[i])
  BY DEF Committed, SpoolInv, TypeOK, StoreTypeOK
<1>2. LifeOf(chain[i]) \in 1..lives
  BY <1>1, Identities DEF SpoolInv, FileInv, FilesAgree, Life, TypeOK, StoreTypeOK
<1> QED
  BY <1>1, <1>2, LivesStay

LEMMA MarkerKeeps == SpoolInv /\ MarkerInv /\ [Next]_vars => MarkerInv'
<1> SUFFICES ASSUME SpoolInv, MarkerInv, [Next]_vars PROVE MarkerInv'
  OBVIOUS
<1>1. chain \in Seq(Sub) /\ marked \in BOOLEAN
  BY DEF SpoolInv, TypeOK, StoreTypeOK
<1>2. CASE UNCHANGED turns
  BY <1>2, TurnPayloads DEF MarkerInv, MarkerSet, OneMarker, turns
<1>3. ASSUME NEW s \in Sub, WriteTurn(s), UNCHANGED born
      PROVE  MarkerInv'
  <2>1. marked => marked'
    BY <1>3 DEF WriteTurn
  <2>2. CASE Committed(s)
    <3>1. chain' = chain
      BY <1>3, <2>2 DEF WriteTurn
    <3> QED
      BY <2>1, <3>1, TurnPayloads DEF MarkerInv, MarkerSet, OneMarker
  <2>3. CASE ~Committed(s)
    <3>1. chain' = Append(chain, s)
      BY <1>3, <2>3 DEF WriteTurn
    <3>2. /\ Len(chain') = Len(chain) + 1 /\ Len(chain) \in Nat
          /\ chain'[Len(chain) + 1] = s
          /\ \A i \in 1..Len(chain) : chain'[i] = chain[i]
      BY <1>1, <3>1
    <3>3. /\ payload'[LifeOf(s)] = payload[LifeOf(s)]
          /\ \A i \in 1..Len(chain) : payload'[LifeOf(chain[i])] = payload[LifeOf(chain[i])]
      BY <1>3, TurnPayloads DEF born
    <3>4. payload[LifeOf(s)] = "marker" => ~marked /\ marked'
      BY <1>3, <2>3 DEF WriteTurn, WriterRefuses
    <3>5. MarkerSet'
      <4> SUFFICES ASSUME NEW i \in 1..Len(chain'), payload'[LifeOf(chain'[i])] = "marker"
                   PROVE  marked'
        BY DEF MarkerSet
      <4>1. CASE i = Len(chain) + 1
        BY <3>2, <3>3, <3>4, <4>1
      <4>2. CASE i \in 1..Len(chain)
        BY <2>1, <3>2, <3>3, <4>2 DEF MarkerInv, MarkerSet
      <4> QED
        BY <3>2, <4>1, <4>2
    <3>6. OneMarker'
      <4> SUFFICES ASSUME NEW i \in 1..Len(chain'), NEW j \in 1..Len(chain'),
                          payload'[LifeOf(chain'[i])] = "marker",
                          payload'[LifeOf(chain'[j])] = "marker"
                   PROVE  i = j
        BY DEF OneMarker
      <4>1. CASE i \in 1..Len(chain) /\ j \in 1..Len(chain)
        BY <3>2, <3>3, <4>1 DEF MarkerInv, OneMarker
      <4>2. CASE i = Len(chain) + 1 \/ j = Len(chain) + 1
        BY <3>2, <3>3, <3>4, <4>2 DEF MarkerInv, MarkerSet
      <4> QED
        BY <3>2, <4>1, <4>2
    <3> QED
      BY <3>5, <3>6 DEF MarkerInv
  <2> QED
    BY <2>2, <2>3
<1> QED
  BY <1>2, <1>3, TurnMoves

\* The persistence marker is recorded at most once, though every thread that
\* finds it missing records one: write_turn looks again in its transaction.
THEOREM MarkerIsOne == Spec => []OneMarker
<1>1. Init => MarkerInv
  BY DEF Init, StoreInit, MarkerInv, MarkerSet, OneMarker
<1>2. MarkerInv => OneMarker
  BY DEF MarkerInv
<1> QED
  BY <1>1, <1>2, SpoolInvariant, MarkerKeeps, PTL DEF Spec

-----------------------------------------------------------------------------
(* The ledger implements LedgerAdmission                                   *)

\* The attempt of a life is in no directory and is not a turn.
Untaken(l) == place[Attempt(l)] = "none" /\ ~Committed(Attempt(l))

\* A thread about to dead-letter what the writer refused.
ReportsRefusal(t) == th[t].pc = "report" /\ th[t].why = "refused"

\* A dead letter is written when its life is done with: none is in progress,
\* and what one says was refused is nowhere else.
DeadInv ==
    /\ \A l \in Life : dead[l] # "none" => l <= lives
    /\ \A l \in Life : dead[l] = "refused" => Untaken(l)
    /\ \A t \in Thread : \A l \in Claims(t) : dead[l] = "none"
    /\ \A t \in Thread : ReportsRefusal(t) => Untaken(On(t))

\* What a step does to the files LedgerAdmission looks at: a life begins, a
\* turn is written, an envelope is published or ends, a dead letter is
\* written, or none of these.
AtOwner(s) == \E t \in Thread : th[t].pc = "owner" /\ s = Attempt(On(t))

Births == (\E b, e : Live(lives + 1, b, e)) /\ UNCHANGED <<turns, place, dead>>

Admits(s) ==
    /\ WriteTurn(s) /\ (place[s] = "pending" \/ AtOwner(s))
    /\ UNCHANGED <<born, place, dead>>

Publishes(s) ==
    /\ place[s] = "none" /\ place' = [place EXCEPT ![s] = "pending"]
    /\ s = Spooled(LifeOf(s)) \/ AtOwner(s)
    /\ UNCHANGED <<born, turns, dead>>

Ends(s, d) ==
    /\ place[s] = "pending" /\ place' = [place EXCEPT ![s] = d]
    /\ d \in {"acked", "refused"}
    /\ d = "refused" => ~Committed(s) /\ drain.pc = "refuse" /\ s = drain.now
    /\ UNCHANGED <<born, turns, dead>>

Buries(t, c) ==
    /\ th[t].pc = "report" /\ dead' = [dead EXCEPT ![On(t)] = c]
    /\ c \in Category /\ (c = "refused" => ReportsRefusal(t))
    /\ On(t) \notin Claims(t)'
    /\ UNCHANGED <<born, turns, place>>

Rests == UNCHANGED <<born, turns, place, dead>>

Shape ==
    \/ Births \/ Rests
    \/ \E s \in Sub : Admits(s) \/ Publishes(s) \/ \E d \in {"acked", "refused"} : Ends(s, d)
    \/ \E t \in Thread, c \in Category : Buries(t, c)

\* An owner commit writes the turn in hand, or nothing.
LEMMA CommitShape ==
    ASSUME SpoolInv, NEW s \in Sub, place[s] = "pending" \/ AtOwner(s), NEW outcome,
           OwnerCommit(s, outcome), UNCHANGED <<born, place, dead>>
    PROVE  Shape
<1>1. UNCHANGED turns \/ WriteTurn(s)
  BY DEF OwnerCommit
<1> QED
  BY <1>1 DEF Shape, Rests, Admits

\* The attempt in the direct lane is in no directory.
LEMMA OwnerFree ==
    ASSUME SpoolInv, NEW t \in Thread, th[t].pc = "owner"
    PROVE  /\ Attempt(On(t)) \in Sub /\ AtOwner(Attempt(On(t)))
           /\ place[Attempt(On(t))] = "none" /\ ~Committed(Attempt(On(t)))
<1>1. Attempt(On(t)) \in Sub
  BY InProgress
<1>2. Free(On(t))
  BY DEF SpoolInv, ThreadInv, ThreadOK
<1> QED
  BY <1>1, <1>2 DEF AtOwner, Free

\* A call that returns lets go of its life.
LEMMA ReturnClaims ==
    ASSUME SpoolInv, NEW t \in Thread, th[t].pc # "idle", NEW r, Return(t, r)
    PROVE  /\ Claims(t)' \subseteq Claims(t) /\ On(t) \notin Claims(t)'
           /\ ~ReportsRefusal(t)' /\ OthersRest(t)
<1>1. th[t] \in ThreadState /\ ThreadOK(t)
  BY DEF SpoolInv, TypeOK, ThreadInv
<1>2. OthersRest(t)
  BY DEF Return, OthersRest, SpoolInv, TypeOK
<1>3. CASE th[t].reply = NoLife
  <2>1. th'[t] = Done(t, On(t))
    BY <1>3 DEF Return, SpoolInv, TypeOK
  <2>2. th'[t].pc = "idle" /\ th'[t].reply = NoLife
    BY <2>1 DEF Done, IdleThread
  <2> QED
    BY <1>2, <2>2 DEF Claims, ReportsRefusal
<1>4. CASE th[t].reply # NoLife
  <2>1. th'[t] = ReplyNext(t)
    BY <1>4 DEF Return, SpoolInv, TypeOK
  <2>2. th'[t].pc = "owner" /\ th'[t].life = th[t].reply /\ th'[t].reply = NoLife
    BY <1>1, <2>1 DEF ReplyNext, ThreadState
  <2>3. th[t].reply # On(t)
    BY <1>1, <1>4 DEF ThreadOK
  <2> QED
    BY <1>2, <1>4, <2>2, <2>3 DEF Claims, On, ReportsRefusal
<1> QED
  BY <1>3, <1>4

\* What a thread claims, and is about to report, after one of its steps.
ThreadStep(t) ==
    /\ OthersRest(t)
    /\ Claims(t)' \subseteq Claims(t) \cup {lives + 1}
    /\ ReportsRefusal(t)' => /\ th[t].pc = "owner" /\ On(t)' = On(t)
                            /\ Untaken(On(t))' /\ payload[On(t)] # "good"

LEMMA BeginStep ==
    ASSUME NEW t \in Thread, NEW point, Begins(t, lives + 1, point)
    PROVE  point # "report" => ThreadStep(t)
  BY DEF Begins, ThreadStep, Claims, On, ReportsRefusal

\* A write that did not commit goes to report.
LEMMA ReportStep ==
    ASSUME SpoolInv, NEW t \in Thread, th[t].pc # "idle", NEW why,
           th' = [th EXCEPT ![t].pc = "report", ![t].why = why],
           why = "refused" => /\ th[t].pc = "owner" /\ UNCHANGED <<chain, place>>
                              /\ payload[On(t)] # "good"
    PROVE  ThreadStep(t)
<1>1. th[t] \in ThreadState
  BY DEF SpoolInv, TypeOK
<1>2. OthersRest(t)
  BY DEF OthersRest, SpoolInv, TypeOK
<1>3. /\ th'[t].pc = "report" /\ th'[t].life = th[t].life /\ th'[t].reply = th[t].reply
      /\ th'[t].why = why
  BY <1>1 DEF SpoolInv, TypeOK, ThreadState
<1>4. On(t)' = On(t) /\ Claims(t)' = Claims(t)
  BY <1>3 DEF On, Claims
<1>5. why = "refused" => Untaken(On(t)) /\ UNCHANGED <<chain, place>>
  BY OwnerFree DEF Untaken
<1>6. why = "refused" => Untaken(On(t))'
  BY <1>4, <1>5 DEF Untaken, Committed, Attempt
<1> QED
  BY <1>2, <1>3, <1>4, <1>6 DEF ThreadStep, ReportsRefusal

\* The steps of the threads.
LEMMA BirthShape ==
    ASSUME SpoolInv, NEW t \in Thread
    PROVE  /\ \A api \in Api, bytes \in Bytes : Hear(t, api, bytes) => Shape /\ ThreadStep(t)
           /\ \A bytes \in Bytes : Answer(t, bytes) \/ Speak(t, bytes) => Shape /\ ThreadStep(t)
           /\ EnsureMarker(t) => Shape /\ ThreadStep(t)
<1>1. ASSUME NEW api \in Api, NEW bytes \in Bytes, Hear(t, api, bytes)
      PROVE  Shape /\ ThreadStep(t)
  <2>1. Shape
    BY <1>1 DEF Hear, Shape, Births, files
  <2>2. Lane(t) \in {"spool", "ensure", "owner"}
    BY DEF Lane
  <2>3. Begins(t, lives + 1, Lane(t))
    BY <1>1, Beginnings DEF Hear
  <2> QED
    BY <2>1, <2>2, <2>3, BeginStep
<1>2. ASSUME NEW bytes \in Bytes, Answer(t, bytes)
      PROVE  Shape /\ ThreadStep(t)
  <2>1. Shape
    BY <1>2 DEF Answer, Shape, Births, files
  <2>2. PICK point \in {"spool", "ensure", "owner"} : Begins(t, lives + 1, point)
    BY <1>2, Beginnings DEF Answer, Lane
  <2> QED
    BY <2>1, <2>2, BeginStep
<1>3. ASSUME EnsureMarker(t)
      PROVE  Shape /\ ThreadStep(t)
  <2>1. Shape
    BY <1>3 DEF EnsureMarker, Shape, Births, Rests, files, Goto
  <2>2. th[t].pc = "ensure" /\ th[t] \in ThreadState /\ th[t].reply = NoLife
    BY <1>3 DEF EnsureMarker, At, SpoolInv, TypeOK, ThreadInv, ThreadOK
  <2>3. \/ th' = [th EXCEPT ![t].pc = "owner"]
        \/ th' = [th EXCEPT ![t].pc = "owner", ![t].life = lives + 1, ![t].reply = On(t)]
    BY <1>3 DEF EnsureMarker, Goto
  <2>4. OthersRest(t)
    BY <2>3 DEF OthersRest, SpoolInv, TypeOK
  <2>5. /\ th'[t].pc = "owner"
        /\ \/ th'[t].life = On(t) /\ th'[t].reply = NoLife
           \/ th'[t].life = lives + 1 /\ th'[t].reply = On(t)
    BY <2>2, <2>3 DEF On, SpoolInv, TypeOK, ThreadState
  <2>6. Claims(t)' \subseteq Claims(t) \cup {lives + 1} /\ ~ReportsRefusal(t)'
    BY <2>2, <2>5 DEF Claims, On, ReportsRefusal
  <2> QED
    BY <2>1, <2>4, <2>6 DEF ThreadStep
<1>4. ASSUME NEW bytes \in Bytes, Speak(t, bytes)
      PROVE  Shape /\ ThreadStep(t)
  <2>1. Shape
    BY <1>4 DEF Speak, Shape, Births, files
  <2>2. PICK point \in {"spool", "ensure"} : Begins(t, lives + 1, point)
    BY <1>4, Beginnings DEF Speak
  <2> QED
    BY <2>1, <2>2, BeginStep
<1> QED
  BY <1>1, <1>2, <1>3, <1>4

LEMMA ReturnStep ==
    ASSUME SpoolInv, NEW t \in Thread, th[t].pc # "idle", NEW r, Return(t, r)
    PROVE  ThreadStep(t)
  BY ReturnClaims DEF ThreadStep

LEMMA RecordingShape ==
    ASSUME SpoolInv, NEW t \in Thread
    PROVE  /\ SpoolLane(t) => Shape /\ ThreadStep(t)
           /\ HelperWrite(t) => Shape /\ ThreadStep(t)
           /\ RecorderCommit(t) => Shape /\ ThreadStep(t)
           /\ Report(t) => Shape /\ ThreadStep(t)
           /\ Part(t) => Shape /\ ThreadStep(t)
<1>1. ASSUME SpoolLane(t)
      PROVE  Shape /\ ThreadStep(t)
  <2> DEFINE s == Spooled(On(t))
  <2>1. th[t].pc = "spool" /\ s \in Sub /\ LifeOf(s) = On(t) /\ place[s] = "none"
    BY <1>1, InProgress DEF SpoolLane, At, SpoolInv, ThreadInv, ThreadOK
  <2>2. (UNCHANGED place \/ Publish(s)) /\ UNCHANGED <<born, turns, dead>>
    BY <1>1 DEF SpoolLane, PublishFails
  <2>3. Publish(s) => Publishes(s)
    BY <2>1, <2>2 DEF Publish, Publishes
  <2>4. Shape
    BY <2>1, <2>2, <2>3 DEF Shape, Rests
  <2>5. \/ \E r \in {"dormant", "custody", "lost"} : Return(t, r)
        \/ th' = [th EXCEPT ![t].pc = "report", ![t].why = "custody"]
    BY <1>1 DEF SpoolLane
  <2>6. ThreadStep(t)
    BY <2>1, <2>5, ReturnStep, ReportStep
  <2> QED
    BY <2>4, <2>6
<1>2. ASSUME HelperWrite(t)
      PROVE  Shape /\ ThreadStep(t)
  <2> DEFINE s == Attempt(On(t))
  <2>1. th[t].pc = "owner" /\ s \in Sub /\ AtOwner(s) /\ place[s] = "none"
    BY <1>2, OwnerFree DEF HelperWrite, At
  <2>2. CASE writes /\ paused
    <3>1. (UNCHANGED place \/ Publish(s)) /\ UNCHANGED <<born, turns, dead>>
      BY <1>2, <2>2 DEF HelperWrite, PublishFails
    <3>2. Publish(s) => Publishes(s)
      BY <2>1, <3>1 DEF Publish, Publishes
    <3>3. \E r \in {"held", "lost"} : Return(t, r)
      BY <1>2, <2>2 DEF HelperWrite
    <3> QED
      BY <2>1, <3>1, <3>2, <3>3, ReturnStep DEF Shape, Rests
  <2>3. CASE ~(writes /\ paused)
    <3>1. PICK outcome \in {"acked", "refused", "failed"} :
            /\ OwnerCommit(s, outcome)
            /\ \/ \E r \in {"dormant", "committed"} : Return(t, r)
               \/ th' = [th EXCEPT ![t].pc = "report", ![t].why = outcome]
            /\ UNCHANGED <<born, place, dead>>
      BY <1>2, <2>3 DEF HelperWrite
    <3>2. outcome = "refused" => UNCHANGED chain /\ payload[On(t)] # "good"
      BY <2>1, <3>1, InProgress DEF OwnerCommit, WriterRefuses, turns
    <3>3. Shape
      BY <2>1, <3>1, CommitShape
    <3>4. ThreadStep(t)
      BY <2>1, <3>1, <3>2, ReturnStep, ReportStep
    <3> QED
      BY <3>3, <3>4
  <2> QED
    BY <2>2, <2>3
<1>3. ASSUME RecorderCommit(t)
      PROVE  Shape /\ ThreadStep(t)
  <2> DEFINE s == Attempt(On(t))
  <2>1. th[t].pc = "owner" /\ s \in Sub /\ AtOwner(s)
    BY <1>3, OwnerFree DEF RecorderCommit, At
  <2>2. PICK outcome \in {"acked", "refused", "failed"} :
          /\ OwnerCommit(s, outcome)
          /\ \/ Return(t, "committed")
             \/ th' = [th EXCEPT ![t].pc = "report", ![t].why = outcome]
          /\ UNCHANGED <<born, place, dead>>
    BY <1>3 DEF RecorderCommit, files
  <2>3. outcome = "refused" => UNCHANGED chain /\ payload[On(t)] # "good"
    BY <2>1, <2>2, InProgress DEF OwnerCommit, WriterRefuses, turns
  <2>4. Shape
    BY <2>1, <2>2, CommitShape
  <2>5. ThreadStep(t)
    BY <2>1, <2>2, <2>3, ReturnStep, ReportStep
  <2> QED
    BY <2>4, <2>5
<1>4. ASSUME Report(t)
      PROVE  Shape /\ ThreadStep(t)
  <2>1. th[t].pc = "report" /\ UNCHANGED <<born, turns, place>>
    BY <1>4 DEF Report, At, files
  <2>2. PICK r : Return(t, r)
    BY <1>4 DEF Report
  <2>3. On(t) \notin Claims(t)' /\ ThreadStep(t)
    BY <2>1, <2>2, ReturnClaims, ReturnStep
  <2>4. \/ UNCHANGED dead
        \/ DeadLetter(On(t), IF th[t].why = "refused" THEN "refused" ELSE "failed")
    BY <1>4 DEF Report
  <2>5. CASE UNCHANGED dead
    BY <2>1, <2>3, <2>5 DEF Shape, Rests
  <2>6. CASE DeadLetter(On(t), IF th[t].why = "refused" THEN "refused" ELSE "failed")
    <3>1. \E c \in Category : Buries(t, c)
      BY <2>1, <2>3, <2>6 DEF DeadLetter, Buries, Category, ReportsRefusal
    <3> QED
      BY <2>3, <3>1 DEF Shape
  <2> QED
    BY <2>4, <2>5, <2>6
<1>5. ASSUME Part(t)
      PROVE  Shape /\ ThreadStep(t)
  <2>1. th' = [th EXCEPT ![t] = IdleThread] /\ UNCHANGED ledgerVars
    BY <1>5 DEF Part
  <2>2. OthersRest(t) /\ th'[t] = IdleThread
    BY <2>1 DEF OthersRest, SpoolInv, TypeOK
  <2> QED
    BY <2>1, <2>2 DEF Shape, Rests, ledgerVars, files, ThreadStep, Claims, ReportsRefusal, IdleThread
<1> QED
  BY <1>1, <1>2, <1>3, <1>4, <1>5

\* The steps of the drainer and of the environment.
LEMMA DrainShape ==
    ASSUME SpoolInv, Drain \/ SetFlag \/ ClearFlag \/ Crash \/ UNCHANGED vars
    PROVE  Shape
<1>1. ASSUME NEW outcome, CommitEntry(outcome)
      PROVE  Shape
  <2>1. drain.now \in Sub /\ place[drain.now] = "pending"
    BY <1>1 DEF CommitEntry, Draining, SpoolInv, DrainInv, Busy
  <2> QED
    BY <1>1, <2>1, CommitShape DEF CommitEntry, files
<1>2. ASSUME MoveAcked \/ MoveRefused
      PROVE  Shape
  <2>1. drain.now \in Sub /\ place[drain.now] = "pending"
    BY <1>2 DEF MoveAcked, MoveRefused, Draining, SpoolInv, DrainInv, Busy
  <2>2. UNCHANGED <<born, turns, dead>>
    BY <1>2 DEF MoveAcked, MoveRefused
  <2>3. CASE UNCHANGED place
    BY <2>2, <2>3 DEF Shape, Rests
  <2>4. CASE Move(drain.now, "acked")
    <3>1. Ends(drain.now, "acked")
      BY <2>1, <2>2, <2>4 DEF Move, Ends
    <3> QED
      BY <2>1, <3>1 DEF Shape
  <2>5. CASE MoveRefused /\ Move(drain.now, "refused")
    <3>1. ~Committed(drain.now) /\ drain.pc = "refuse"
      BY <2>5 DEF MoveRefused, Draining, SpoolInv, DrainInv
    <3>2. Ends(drain.now, "refused")
      BY <2>1, <2>2, <2>5, <3>1 DEF Move, Ends
    <3> QED
      BY <2>1, <3>2 DEF Shape
  <2> QED
    BY <1>2, <2>3, <2>4, <2>5 DEF MoveAcked, MoveRefused
<1>3. ASSUME \/ StartPass \/ BreakScan \/ EndScan \/ EndRound
             \/ \E d \in Directory : ListDirectory(d)
             \/ \E s \in Sub : ReadFile(s) \/ JudgeAuthority(s) \/ Defer(s) \/ TakeUp(s)
      PROVE  Rests
  BY <1>3 DEF StartPass, BreakScan, EndScan, EndRound, ListDirectory, ReadFile, JudgeAuthority,
     Defer, TakeUp, Rests, ledgerVars, files
<1>4. ASSUME WriteReceipt \/ WriteSidecar \/ \E s \in Sub : LookupRaises(s)
      PROVE  Rests
  BY <1>4 DEF WriteReceipt, WriteSidecar, LookupRaises, Rests, files
<1>5. ASSUME SetFlag \/ ClearFlag \/ Crash \/ UNCHANGED vars
      PROVE  Rests
  BY <1>5 DEF SetFlag, ClearFlag, Crash, Rests, vars, ledgerVars, files
<1> QED
  BY <1>1, <1>2, <1>3, <1>4, <1>5 DEF Drain, Shape

\* They start no call, and a crash ends some.
LEMMA OthersStep ==
    ASSUME SpoolInv, Drain \/ SetFlag \/ ClearFlag \/ Crash \/ UNCHANGED vars, NEW u \in Thread
    PROVE  th'[u] \in {th[u], IdleThread}
<1>1. CASE Crash
  BY <1>1 DEF Crash, SpoolInv, TypeOK
<1>2. CASE ~Crash
  BY <1>2 DEF Drain, StartPass, BreakScan, EndScan, EndRound, ListDirectory, ReadFile,
     JudgeAuthority, Defer, TakeUp, CommitEntry, LookupRaises, WriteReceipt, MoveAcked,
     WriteSidecar, MoveRefused, SetFlag, ClearFlag, vars
<1> QED
  BY <1>1, <1>2

\* Every step has such a shape; each thread goes on with what it claimed.
LEMMA Shapes ==
    ASSUME SpoolInv, [Next]_vars
    PROVE  /\ Shape
           /\ \A u \in Thread :
                \/ th'[u] \in {th[u], IdleThread}
                \/ ThreadStep(u)
<1>1. ASSUME NEW t \in Thread, Shape /\ ThreadStep(t)
      PROVE  /\ Shape
             /\ \A u \in Thread : th'[u] \in {th[u], IdleThread} \/ ThreadStep(u)
  BY <1>1 DEF ThreadStep, OthersRest
<1>2. ASSUME Drain \/ SetFlag \/ ClearFlag \/ Crash \/ UNCHANGED vars
      PROVE  /\ Shape
             /\ \A u \in Thread : th'[u] \in {th[u], IdleThread} \/ ThreadStep(u)
  BY <1>2, DrainShape, OthersStep
<1> QED
  BY <1>1, <1>2, BirthShape, RecordingShape DEF Next, Recording

\* A thread's claims and its report after a step.
LEMMA ClaimsMove ==
    ASSUME SpoolInv, [Next]_vars, NEW u \in Thread
    PROVE  /\ Claims(u)' \subseteq Claims(u) \cup {lives + 1}
           /\ ReportsRefusal(u)' =>
                /\ On(u)' = On(u)
                /\ \/ ReportsRefusal(u) /\ th'[u] = th[u]
                   \/ /\ Untaken(On(u))'
                      /\ th[u].pc = "owner" /\ payload[On(u)] # "good"
<1>1. CASE th'[u] = th[u]
  BY <1>1 DEF Claims, ReportsRefusal, On
<1>2. CASE th'[u] = IdleThread
  BY <1>2 DEF Claims, ReportsRefusal, IdleThread
<1>3. CASE ThreadStep(u)
  BY <1>3 DEF ThreadStep
<1> QED
  BY <1>1, <1>2, <1>3, Shapes

\* Only the direct lane of its own thread takes an attempt that is untaken.
LEMMA UntakenStays ==
    ASSUME SpoolInv, [Next]_vars, NEW l \in Life, Untaken(l),
           \A t \in Thread : th[t].pc = "owner" => On(t) # l
    PROVE  Untaken(l)'
<1>1. Attempt(l) \in Sub /\ LifeOf(Attempt(l)) = l /\ Attempt(l) # Spooled(l)
  BY Identities
<1>2. ~AtOwner(Attempt(l))
  <2> SUFFICES ASSUME NEW t \in Thread, th[t].pc = "owner", Attempt(l) = Attempt(On(t))
               PROVE  FALSE
    BY DEF AtOwner
  <2>1. On(t) \in Life
    BY InProgress
  <2> QED
    BY <2>1, Identities
<1>3. CASE UNCHANGED <<chain, place>>
  BY <1>3 DEF Untaken, Committed
<1>4. ASSUME NEW s \in Sub, Admits(s)
      PROVE  Untaken(l)'
  <2>1. s # Attempt(l)
    BY <1>2, <1>4 DEF Admits, Untaken
  <2>2. Commits({s})
    BY <1>4, CommitsOf DEF Admits, SpoolInv
  <2> QED
    BY <1>1, <1>4, <2>1, <2>2 DEF Admits, Commits, Untaken
<1>5. ASSUME NEW s \in Sub, Publishes(s) \/ \E d \in {"acked", "refused"} : Ends(s, d)
      PROVE  Untaken(l)'
  <2>1. s # Attempt(l)
    BY <1>1, <1>2, <1>5 DEF Publishes, Ends, Untaken
  <2>2. place'[Attempt(l)] = place[Attempt(l)] /\ UNCHANGED chain
    BY <1>1, <1>5, <2>1 DEF Publishes, Ends, SpoolInv, TypeOK, StoreTypeOK, turns
  <2> QED
    BY <2>2 DEF Untaken, Committed
<1>6. Births \/ Rests \/ (\E t \in Thread, c \in Category : Buries(t, c)) => UNCHANGED <<chain, place>>
  BY DEF Births, Rests, Buries, turns
<1> QED
  BY <1>3, <1>4, <1>5, <1>6, Shapes DEF Shape

\* The dead letters: all stay but one that is written.
LEMMA DeadMoves ==
    ASSUME SpoolInv, [Next]_vars
    PROVE  UNCHANGED dead \/ \E t \in Thread, c \in Category : Buries(t, c)
  BY Shapes DEF Shape, Births, Rests, Admits, Publishes, Ends

LEMMA DeadKeeps == SpoolInv /\ DeadInv /\ [Next]_vars => DeadInv'
<1> SUFFICES ASSUME SpoolInv, DeadInv, [Next]_vars PROVE DeadInv'
  OBVIOUS
<1>a. SpoolInv'
  BY SpoolNext
<1>b. lives \in Nat /\ 1..lives \subseteq Life /\ 1..lives' \subseteq Life /\ lives' \in {lives, lives + 1}
  <2>1. lives' \in {lives, lives + 1}
    BY Shapes DEF Shape, Births, Live, Rests, Admits, Publishes, Ends, Buries, born
  <2> QED
    BY <1>a, <2>1, LedgerAssumption DEF SpoolInv, TypeOK, StoreTypeOK, Life
<1>c. \A u \in Thread : Claims(u) \subseteq 1..lives /\ Claims(u)' \subseteq 1..lives'
  BY <1>a DEF SpoolInv, ThreadInv, ThreadOK, Claims, On
<1>d. \A u \in Thread : th[u].pc # "idle" => On(u) \in Claims(u)
  BY DEF Claims
<1>1. ASSUME NEW t \in Thread, NEW c \in Category, Buries(t, c), NEW l \in Life
      PROVE  /\ l = On(t) => dead'[l] = c /\ l \in Claims(t)
             /\ l # On(t) => dead'[l] = dead[l]
  BY <1>1, <1>d DEF Buries, SpoolInv, TypeOK, StoreTypeOK
<1>2. ASSUME NEW l \in Life, dead'[l] # "none"
      PROVE  l <= lives'
  <2>1. CASE dead'[l] = dead[l]
    BY <1>2, <1>b, <2>1 DEF DeadInv, Life
  <2>2. CASE dead'[l] # dead[l]
    <3>1. \E t \in Thread : l \in Claims(t)
      BY <1>1, <2>2, DeadMoves
    <3>2. l \in 1..lives
      BY <1>c, <3>1
    <3> QED
      BY <1>b, <3>2
  <2> QED
    BY <2>1, <2>2
<1>3. ASSUME NEW l \in Life, dead'[l] = "refused"
      PROVE  Untaken(l)'
  <2>1. CASE dead[l] = "refused"
    <3>1. \A t \in Thread : th[t].pc = "owner" => On(t) # l
      BY <1>d, <2>1 DEF DeadInv
    <3> QED
      BY <2>1, <3>1, UntakenStays DEF DeadInv
  <2>2. CASE dead[l] # "refused"
    <3>1. PICK t \in Thread : Buries(t, "refused") /\ l = On(t)
      BY <1>1, <1>3, <2>2, DeadMoves
    <3>2. Untaken(l) /\ ReportsRefusal(t)
      BY <3>1 DEF Buries, DeadInv
    <3>3. UNCHANGED <<chain, place>>
      BY <3>1 DEF Buries, turns
    <3> QED
      BY <3>2, <3>3 DEF Untaken, Committed
  <2> QED
    BY <2>1, <2>2
<1>4. ASSUME NEW u \in Thread, NEW l \in Claims(u)'
      PROVE  dead'[l] = "none"
  <2>1. l \in Life /\ (l \in Claims(u) \/ l = lives + 1)
    BY <1>b, <1>c, <1>4, ClaimsMove
  <2>2. dead[l] = "none"
    BY <1>b, <2>1 DEF DeadInv
  <2>3. ASSUME NEW t \in Thread, NEW c \in Category, Buries(t, c)
        PROVE  l # On(t)
    <3>1. On(t) \in Claims(t) /\ On(t) \notin Claims(t)'
      BY <1>d, <2>3 DEF Buries
    <3>2. CASE u = t
      BY <1>4, <3>1, <3>2
    <3>3. CASE u # t
      BY <1>b, <1>c, <2>1, <3>1, <3>3 DEF SpoolInv, ThreadInv, ClaimsApart
    <3> QED
      BY <3>2, <3>3
  <2> QED
    BY <1>1, <2>1, <2>2, <2>3, DeadMoves
<1>5. ASSUME NEW u \in Thread, ReportsRefusal(u)'
      PROVE  Untaken(On(u))'
  <2>1. CASE Untaken(On(u))' /\ On(u)' = On(u)
    BY <2>1
  <2>2. CASE ReportsRefusal(u) /\ th'[u] = th[u]
    <3>1. Untaken(On(u)) /\ On(u) \in Life /\ On(u) \in Claims(u) /\ th[u].pc = "report"
      BY <1>b, <1>c, <1>d, <2>2 DEF DeadInv, ReportsRefusal
    <3>2. \A t \in Thread : th[t].pc = "owner" => On(t) # On(u)
      BY <1>d, <3>1 DEF SpoolInv, ThreadInv, ClaimsApart
    <3> DEFINE l == On(u)
    <3>3. Untaken(l) /\ l \in Life /\ \A t \in Thread : th[t].pc = "owner" => On(t) # l
      BY <3>1, <3>2
    <3>4. On(u)' = On(u)
      BY <2>2 DEF On
    <3>5. \A m \in Life : m = On(u) => Untaken(m)'
      BY <3>3, UntakenStays
    <3> QED
      BY <3>1, <3>4, <3>5 DEF Untaken, Committed, Attempt
  <2> QED
    BY <1>5, <2>1, <2>2, ClaimsMove
<1> QED
  BY <1>2, <1>3, <1>4, <1>5 DEF DeadInv

-----------------------------------------------------------------------------
(* What is refused deserves it                                             *)

\* Nothing good is refused, or about to be: not by _quarantine, and not in a
\* dead letter.
UnfitInv ==
    /\ \A s \in Sub : place[s] = "refused" => payload[LifeOf(s)] # "good"
    /\ \A l \in Life : dead[l] = "refused" => payload[l] # "good"
    /\ drain.pc \in {"condemn", "refuse"} => payload[LifeOf(drain.now)] # "good"
    /\ \A t \in Thread : ReportsRefusal(t) => payload[On(t)] # "good"

\* The drainer condemns what is garbled, names an authority or was refused by
\* the writer; it goes on with what it condemned.
LEMMA Condemned ==
    ASSUME SpoolInv, [Next]_vars, drain'.pc \in {"condemn", "refuse"}
    PROVE  /\ LifeOf(drain'.now) \in Life
           /\ place[drain'.now] = "pending" /\ drain'.now \in Sub
           /\ \/ payload[LifeOf(drain'.now)] # "good"
              \/ drain.pc \in {"condemn", "refuse"} /\ drain'.now = drain.now
<1>1. drain \in DrainState
  BY DEF SpoolInv, TypeOK
<1>2. \A s \in Listed : s \in Sub /\ place[s] = "pending"
  BY <1>1 DEF SpoolInv, DrainInv, Listed, DrainState
<1>3. Busy => drain.now \in Sub /\ place[drain.now] = "pending"
  BY DEF SpoolInv, DrainInv
<1>4. CASE drain' = drain
  BY <1>3, <1>4, Identities DEF Busy
<1>5. ASSUME NEW s \in Sub, ReadFile(s)
      PROVE  drain'.now = s /\ payload[LifeOf(s)] # "good" /\ s \in Listed
  BY <1>1, <1>5 DEF ReadFile, Draining, DrainState, Listed
<1>6. ASSUME NEW s \in Sub, JudgeAuthority(s)
      PROVE  drain'.now = s /\ payload[LifeOf(s)] # "good" /\ s \in Listed
  BY <1>1, <1>6 DEF JudgeAuthority, Authority, Draining, DrainState, Listed
<1>7. ASSUME NEW outcome, CommitEntry(outcome)
      PROVE  drain'.now = drain.now /\ payload[LifeOf(drain.now)] # "good" /\ Busy
  <2>1. outcome = "refused"
    BY <1>1, <1>7 DEF CommitEntry, OwnerCommit, Draining, DrainState
  <2>2. payload[LifeOf(drain.now)] # "good"
    BY <1>7, <2>1 DEF CommitEntry, OwnerCommit, WriterRefuses
  <2>3. drain' = [drain EXCEPT !.pc = "condemn", !.progress = TRUE] /\ Busy
    BY <1>7, <2>1 DEF CommitEntry, Draining, Busy
  <2> QED
    BY <1>1, <2>2, <2>3 DEF DrainState
<1>8. ASSUME WriteSidecar
      PROVE  drain'.now = drain.now /\ drain.pc = "condemn"
  BY <1>1, <1>8 DEF WriteSidecar, Draining, DrainState, IdleDrain
<1>9. ~(WriteReceipt \/ MoveAcked \/ MoveRefused)
  BY <1>1 DEF WriteReceipt, MoveAcked, MoveRefused, BackTo, Draining, DrainState, IdleDrain
<1>10. ASSUME NEW s \in Sub, Defer(s) \/ TakeUp(s) \/ LookupRaises(s)
       PROVE  FALSE
  BY <1>1, <1>10 DEF Defer, TakeUp, LookupRaises, Draining, DrainState, IdleDrain
<1>11. ~(StartPass \/ BreakScan \/ EndScan)
  BY <1>1 DEF StartPass, BreakScan, EndScan, Draining, DrainState, IdleDrain
<1>12. ~EndRound
  <2> SUFFICES ASSUME EndRound PROVE FALSE
    OBVIOUS
  <2>1. CASE drain.progress
    <3>1. drain' = [drain EXCEPT !.todo = drain.later, !.later = {}, !.progress = FALSE]
      BY <2>1 DEF EndRound
    <3> QED
      BY <1>1, <3>1 DEF EndRound, Draining, DrainState
  <2>2. CASE ~drain.progress
    BY <2>2 DEF EndRound, IdleDrain
  <2> QED
    BY <2>1, <2>2
<1>13. ASSUME NEW d \in Directory, ListDirectory(d)
       PROVE  FALSE
  <2> DEFINE listed == {s \in Sub : place[s] = "pending" /\ DirectoryOf(s) = d}
  <2>1. drain' = [drain EXCEPT !.dirs = @ \ {d}, !.files = listed] /\ drain.pc = "scan"
    BY <1>13 DEF ListDirectory, Draining
  <2> HIDE DEF listed
  <2> QED
    BY <1>1, <2>1 DEF DrainState
<1>14. ASSUME Crash, drain' # drain
       PROVE  FALSE
  BY <1>14 DEF Crash, IdleDrain
<1>15. ASSUME ~Drain, ~Crash
       PROVE  drain' = drain
  BY <1>15 DEF Next, Hear, Answer, Speak, Part, Recording, SpoolLane, EnsureMarker, HelperWrite,
     RecorderCommit, Report, SetFlag, ClearFlag, vars
<1>16. CASE Drain
  <2>1. \/ \E s \in Sub : ReadFile(s) \/ JudgeAuthority(s)
        \/ \E outcome : CommitEntry(outcome)
        \/ WriteSidecar
    BY <1>9, <1>10, <1>11, <1>12, <1>13, <1>16 DEF Drain
  <2> QED
    BY <1>2, <1>3, <1>5, <1>6, <1>7, <1>8, <2>1, Identities DEF Busy
<1> QED
  BY <1>4, <1>14, <1>15, <1>16

LEMMA UnfitKeeps == SpoolInv /\ DeadInv /\ UnfitInv /\ [Next]_vars => UnfitInv'
<1> SUFFICES ASSUME SpoolInv, DeadInv, UnfitInv, [Next]_vars PROVE UnfitInv'
  OBVIOUS
<1>a. lives \in Nat /\ \A l \in Life : l <= lives => l \in 1..lives
  BY DEF SpoolInv, TypeOK, StoreTypeOK, Life
<1>b. \A s \in Sub : place[s] # "none" => payload'[LifeOf(s)] = payload[LifeOf(s)]
  <2>1. \A s \in Sub : place[s] # "none" => LifeOf(s) \in 1..lives
    BY <1>a, Identities DEF SpoolInv, FileInv, FilesAgree, Life
  <2> QED
    BY <2>1, LivesStay
<1>c. \A t \in Thread : th[t].pc # "idle" => payload'[On(t)] = payload[On(t)]
  BY InProgress, LivesStay
<1>1. ASSUME NEW s \in Sub, place'[s] = "refused"
      PROVE  payload'[LifeOf(s)] # "good"
  <2>1. CASE place[s] = "refused"
    BY <1>b, <2>1 DEF UnfitInv
  <2>2. CASE place[s] # "refused"
    <3>1. drain.pc = "refuse" /\ s = drain.now /\ place[s] = "pending"
      BY <1>1, <2>2, Shapes DEF Shape, Births, Rests, Admits, Publishes, Ends, Buries,
         SpoolInv, TypeOK, StoreTypeOK
    <3> QED
      BY <1>b, <3>1 DEF UnfitInv
  <2> QED
    BY <2>1, <2>2
<1>2. ASSUME NEW l \in Life, dead'[l] = "refused"
      PROVE  payload'[l] # "good"
  <2>1. CASE dead[l] = "refused"
    BY <1>a, <2>1, LivesStay DEF DeadInv, UnfitInv
  <2>2. CASE dead[l] # "refused"
    <3>1. PICK t \in Thread, c \in Category : Buries(t, c)
      BY <1>2, <2>2, DeadMoves
    <3>2. l = On(t) /\ c = "refused"
      BY <1>2, <2>2, <3>1 DEF Buries, SpoolInv, TypeOK, StoreTypeOK
    <3> QED
      BY <1>c, <3>1, <3>2 DEF Buries, UnfitInv, ReportsRefusal
  <2> QED
    BY <2>1, <2>2
<1>3. drain'.pc \in {"condemn", "refuse"} => payload'[LifeOf(drain'.now)] # "good"
  BY <1>b, Condemned DEF UnfitInv
<1>4. ASSUME NEW u \in Thread, ReportsRefusal(u)'
      PROVE  payload'[On(u)'] # "good"
  BY <1>4, <1>c, ClaimsMove DEF UnfitInv, ReportsRefusal
<1> QED
  BY <1>1, <1>2, <1>3, <1>4 DEF UnfitInv

LEMMA EndsFollow == SpoolInv /\ UnfitInv => EndsAreDocumented
  BY DEF SpoolInv, FileInv, EndsKept, UnfitInv, EndsAreDocumented

\* Every envelope's end is documented and deserved: a receipt means a turn,
\* acked means a receipt, and what _quarantine moved, or a dead letter calls
\* refused, was never a turn and was unfit to be one; no failure, pause or
\* crash has anything good refused (owner.py, recorder.py, spool.py).
THEOREM EndsStayDocumented == Spec => []EndsAreDocumented
<1>1. Init => DeadInv /\ UnfitInv
  BY DEF Init, StoreInit, IdleThread, IdleDrain, DeadInv, UnfitInv, Claims, ReportsRefusal
<1> QED
  BY <1>1, EndsFollow, SpoolInvariant, DeadKeeps, UnfitKeeps, PTL DEF Spec

-----------------------------------------------------------------------------
(* What a caller was told                                                  *)

\* The files have what was told of a life.
Told(l) ==
    /\ result[l] = "custody" => place[Spooled(l)] # "none"
    /\ result[l] = "held" => place[Attempt(l)] # "none"
    /\ result[l] = "dead" => dead[l] # "none"

\* Of a life a thread lets go of, something was told.
ToldInv ==
    /\ \A l \in Life : Told(l)
    /\ crashes = 0 => \A l \in 1..lives : result[l] # "none" \/ \E t \in Thread : l \in Claims(t)

\* A step of t tells of one life what the files have, and lets no life go, one
\* that begins included, without a word.
Tells(t) ==
    /\ OthersRest(t)
    /\ \A l \in Life : result'[l] = result[l] \/ (result'[l] # "none" /\ Told(l)')
    /\ \A l \in Claims(t) \cup ((lives + 1)..lives') : l \in Claims(t)' \/ result'[l] # "none"

LEMMA BeginTells ==
    ASSUME SpoolInv, NEW t \in Thread, At(t, "idle"), NEW point \in {"spool", "ensure", "owner"},
           Begins(t, lives + 1, point), lives' = lives + 1, lives + 1 \in Life
    PROVE  Tells(t)
<1>1. th[t].reply = NoLife /\ Claims(t) = {}
  BY DEF SpoolInv, ThreadInv, ThreadOK, At, Claims
<1>2. lives \in Nat /\ (lives + 1)..lives' = {lives + 1}
  BY DEF SpoolInv, TypeOK, StoreTypeOK
<1>3. CASE th'[t].pc = point /\ th'[t].life = lives + 1 /\ UNCHANGED result
  <2>1. lives + 1 \in Claims(t)'
    BY <1>3 DEF Claims, On
  <2> QED
    BY <1>1, <1>2, <1>3, <2>1 DEF Begins, Tells
<1>4. CASE result' = [result EXCEPT ![lives + 1] = "dormant"]
  <2>1. /\ result'[lives + 1] = "dormant"
        /\ \A l \in Life : l # lives + 1 => result'[l] = result[l]
    BY <1>4 DEF SpoolInv, TypeOK
  <2> QED
    BY <1>1, <1>2, <2>1 DEF Begins, Tells, Told
<1> QED
  BY <1>3, <1>4 DEF Begins

LEMMA ReturnTells ==
    ASSUME SpoolInv, NEW t \in Thread, th[t].pc # "idle", NEW r \in Result \ {"none"}, Return(t, r),
           UNCHANGED lives,
           r = "custody" => place'[Spooled(On(t))] # "none",
           r = "held" => place'[Attempt(On(t))] # "none",
           r = "dead" => dead'[On(t)] # "none"
    PROVE  Tells(t)
<1>1. th[t] \in ThreadState /\ ThreadOK(t) /\ On(t) \in Life /\ lives \in Nat
  BY InProgress DEF SpoolInv, TypeOK, StoreTypeOK, ThreadInv
<1>2. result'[On(t)] = r /\ \A l \in Life : l # On(t) => result'[l] = result[l]
  BY <1>1 DEF Return, SpoolInv, TypeOK
<1>3. OthersRest(t)
  BY DEF Return, OthersRest, SpoolInv, TypeOK
<1>4. Claims(t) \subseteq Claims(t)' \cup {On(t)}
  <2>1. CASE th[t].reply = NoLife
    BY <2>1 DEF Claims
  <2>2. CASE th[t].reply # NoLife
    <3>1. th'[t] = ReplyNext(t)
      BY <2>2 DEF Return, SpoolInv, TypeOK
    <3>2. th'[t].pc = "owner" /\ th'[t].life = th[t].reply
      BY <1>1, <3>1 DEF ReplyNext, ThreadState
    <3> QED
      BY <2>2, <3>2 DEF Claims, On
  <2> QED
    BY <2>1, <2>2
<1>5. (lives + 1)..lives' = {}
  BY <1>1
<1>6. \A l \in Life : l = On(t) => Told(l)'
  BY <1>2 DEF Told, Spooled, Attempt
<1> QED
  BY <1>2, <1>3, <1>4, <1>5, <1>6 DEF Tells

\* A step inside a call lets go of nothing.
LEMMA GotoTells ==
    ASSUME SpoolInv, NEW t \in Thread, th[t].pc # "idle", NEW point \in {"owner", "report"}, NEW why,
           th' = [th EXCEPT ![t].pc = point, ![t].why = why] \/ th' = [th EXCEPT ![t].pc = point],
           UNCHANGED <<result, lives>>
    PROVE  Tells(t)
<1>1. th[t] \in ThreadState /\ lives \in Nat
  BY DEF SpoolInv, TypeOK, StoreTypeOK
<1>2. OthersRest(t)
  BY DEF OthersRest, SpoolInv, TypeOK
<1>3. th'[t].pc = point /\ th'[t].life = th[t].life /\ th'[t].reply = th[t].reply
  BY <1>1 DEF SpoolInv, TypeOK, ThreadState
<1>4. Claims(t)' = Claims(t) /\ (lives + 1)..lives' = {}
  BY <1>1, <1>3 DEF Claims, On
<1> QED
  BY <1>2, <1>4 DEF Tells

LEMMA ThreadTells ==
    ASSUME SpoolInv, NEW t \in Thread
    PROVE  /\ \A api \in Api, bytes \in Bytes : Hear(t, api, bytes) => Tells(t)
           /\ \A bytes \in Bytes : Answer(t, bytes) \/ Speak(t, bytes) => Tells(t)
           /\ Part(t) \/ Recording(t) => Tells(t)
<1>1. ASSUME NEW api \in Api, NEW bytes \in Bytes, Hear(t, api, bytes)
      PROVE  Tells(t)
  <2>1. Lane(t) \in {"spool", "ensure", "owner"} /\ Begins(t, lives + 1, Lane(t))
    BY <1>1, Beginnings DEF Hear, Lane
  <2> QED
    BY <1>1, <2>1, BeginTells DEF Hear, Live
<1>2. ASSUME NEW bytes \in Bytes, Answer(t, bytes)
      PROVE  Tells(t)
  <2>1. PICK point \in {"spool", "ensure", "owner"} : Begins(t, lives + 1, point)
    BY <1>2, Beginnings DEF Answer, Lane
  <2> QED
    BY <1>2, <2>1, BeginTells DEF Answer, Live
<1>3. ASSUME NEW bytes \in Bytes, Speak(t, bytes)
      PROVE  Tells(t)
  <2>1. PICK point \in {"spool", "ensure"} : Begins(t, lives + 1, point)
    BY <1>3, Beginnings DEF Speak
  <2> QED
    BY <1>3, <2>1, BeginTells DEF Speak, Live
<1>4. ASSUME Part(t)
      PROVE  Tells(t)
  <2>1. th' = [th EXCEPT ![t] = IdleThread] /\ UNCHANGED <<result, lives>>
    BY <1>4 DEF Part, ledgerVars, born
  <2>2. OthersRest(t) /\ lives \in Nat
    BY <2>1 DEF OthersRest, SpoolInv, TypeOK, StoreTypeOK
  <2>3. Claims(t) = {}
    BY <1>4 DEF Part, At, Claims, SpoolInv, ThreadInv, ThreadOK
  <2>4. (lives + 1)..lives' = {}
    BY <2>1, <2>2
  <2> QED
    BY <2>1, <2>2, <2>3, <2>4 DEF Tells
<1>5. ASSUME SpoolLane(t)
      PROVE  Tells(t)
  <2>1. th[t].pc = "spool" /\ Spooled(On(t)) \in Sub /\ UNCHANGED lives
    BY <1>5, InProgress DEF SpoolLane, At, born
  <2>2. \/ Publish(Spooled(On(t))) /\ Return(t, "custody")
        \/ \E r \in {"dormant", "lost"} : Return(t, r)
        \/ th' = [th EXCEPT ![t].pc = "report", ![t].why = "custody"] /\ UNCHANGED result
    BY <1>5 DEF SpoolLane
  <2>3. Publish(Spooled(On(t))) => place'[Spooled(On(t))] # "none"
    BY <2>1 DEF Publish, SpoolInv, TypeOK, StoreTypeOK
  <2> QED
    BY <2>1, <2>2, <2>3, ReturnTells, GotoTells DEF Result
<1>6. ASSUME EnsureMarker(t)
      PROVE  Tells(t)
  <2>1. th[t].pc = "ensure" /\ th[t] \in ThreadState /\ th[t].reply = NoLife /\ UNCHANGED result
    BY <1>6 DEF EnsureMarker, At, SpoolInv, TypeOK, ThreadInv, ThreadOK
  <2>2. CASE Goto(t, "owner") /\ UNCHANGED born
    BY <2>1, <2>2, GotoTells DEF Goto, born
  <2>3. CASE /\ lives' = lives + 1
             /\ th' = [th EXCEPT ![t].pc = "owner", ![t].life = lives + 1, ![t].reply = On(t)]
    <3>1. OthersRest(t)
      BY <2>3 DEF OthersRest, SpoolInv, TypeOK
    <3>2. th'[t].pc = "owner" /\ th'[t].life = lives + 1 /\ th'[t].reply = On(t)
      BY <2>1, <2>3 DEF SpoolInv, TypeOK, ThreadState
    <3>3. On(t) # NoLife
      BY <2>1, InProgress, SpoolAssumption
    <3>4. Claims(t) \cup {lives + 1} \subseteq Claims(t)'
      BY <2>1, <3>2, <3>3 DEF Claims, On
    <3>5. (lives + 1)..lives' = {lives + 1}
      BY <2>3 DEF SpoolInv, TypeOK, StoreTypeOK
    <3> QED
      BY <2>1, <3>1, <3>4, <3>5 DEF Tells
  <2> QED
    BY <1>6, <2>2, <2>3 DEF EnsureMarker, Live
<1>7. ASSUME HelperWrite(t)
      PROVE  Tells(t)
  <2>1. th[t].pc = "owner" /\ Attempt(On(t)) \in Sub /\ UNCHANGED lives
    BY <1>7, InProgress DEF HelperWrite, At, born
  <2>2. \/ Publish(Attempt(On(t))) /\ Return(t, "held")
        \/ \E r \in {"dormant", "lost", "committed"} : Return(t, r)
        \/ \E why : th' = [th EXCEPT ![t].pc = "report", ![t].why = why] /\ UNCHANGED result
    BY <1>7 DEF HelperWrite
  <2>3. Publish(Attempt(On(t))) => place'[Attempt(On(t))] # "none"
    BY <2>1 DEF Publish, SpoolInv, TypeOK, StoreTypeOK
  <2> QED
    BY <2>1, <2>2, <2>3, ReturnTells, GotoTells DEF Result
<1>8. ASSUME RecorderCommit(t)
      PROVE  Tells(t)
  <2>1. th[t].pc = "owner" /\ UNCHANGED lives
    BY <1>8 DEF RecorderCommit, At, born
  <2>2. \/ Return(t, "committed")
        \/ \E why : th' = [th EXCEPT ![t].pc = "report", ![t].why = why] /\ UNCHANGED result
    BY <1>8 DEF RecorderCommit
  <2> QED
    BY <2>1, <2>2, ReturnTells, GotoTells DEF Result
<1>9. ASSUME Report(t)
      PROVE  Tells(t)
  <2>1. th[t].pc = "report" /\ On(t) \in Life /\ UNCHANGED lives
    BY <1>9, InProgress DEF Report, At, born
  <2>2. \/ /\ DeadLetter(On(t), IF th[t].why = "refused" THEN "refused" ELSE "failed")
           /\ Return(t, "dead")
        \/ \E r \in {"dormant", "lost"} : Return(t, r)
    BY <1>9 DEF Report
  <2>3. DeadLetter(On(t), IF th[t].why = "refused" THEN "refused" ELSE "failed") => dead'[On(t)] # "none"
    BY <2>1 DEF DeadLetter, SpoolInv, TypeOK, StoreTypeOK
  <2> QED
    BY <2>1, <2>2, <2>3, ReturnTells DEF Result
<1> QED
  BY <1>1, <1>2, <1>3, <1>4, <1>5, <1>6, <1>7, <1>8, <1>9 DEF Recording

\* No envelope and no dead letter is ever taken back.
LEMMA FilesGrow ==
    ASSUME SpoolInv, DeadInv, [Next]_vars
    PROVE  /\ \A s \in Sub : place[s] # "none" => place'[s] # "none"
           /\ \A l \in Life : dead[l] # "none" => dead'[l] # "none"
<1>1. ASSUME NEW s \in Sub, place[s] # "none"
      PROVE  place'[s] # "none"
  BY <1>1, Shapes DEF Shape, Births, Rests, Admits, Publishes, Ends, Buries,
     SpoolInv, TypeOK, StoreTypeOK
<1>2. ASSUME NEW l \in Life, dead[l] # "none"
      PROVE  dead'[l] # "none"
  BY <1>2, DeadMoves DEF Buries, Category, SpoolInv, TypeOK, StoreTypeOK
<1> QED
  BY <1>1, <1>2

LEMMA ToldKeeps == SpoolInv /\ DeadInv /\ ToldInv /\ [Next]_vars => ToldInv'
<1> SUFFICES ASSUME SpoolInv, DeadInv, ToldInv, [Next]_vars PROVE ToldInv'
  OBVIOUS
<1>1. \/ \E t \in Thread : Tells(t) /\ UNCHANGED crashes
      \/ UNCHANGED <<result, lives>> /\ ((UNCHANGED th /\ UNCHANGED crashes) \/ crashes' # 0)
  <2>1. ASSUME NEW t \in Thread, NEW api \in Api, NEW bytes \in Bytes,
               Hear(t, api, bytes) \/ Answer(t, bytes) \/ Speak(t, bytes)
        PROVE  Tells(t) /\ UNCHANGED crashes
    BY <2>1, ThreadTells DEF Hear, Answer, Speak, env
  <2>2. ASSUME NEW t \in Thread, NEW bytes \in Bytes, Answer(t, bytes) \/ Speak(t, bytes)
        PROVE  Tells(t) /\ UNCHANGED crashes
    BY <2>2, ThreadTells DEF Answer, Speak, env
  <2>3. ASSUME NEW t \in Thread, Part(t) \/ Recording(t)
        PROVE  Tells(t) /\ UNCHANGED crashes
    BY <2>3, ThreadTells DEF Part, Recording, SpoolLane, EnsureMarker, HelperWrite,
       RecorderCommit, Report, env
  <2>4. ASSUME Crash
        PROVE  UNCHANGED <<result, lives>> /\ crashes' # 0
    BY <2>4 DEF Crash, ledgerVars, born, SpoolInv, TypeOK
  <2>5. ASSUME Drain \/ SetFlag \/ ClearFlag \/ UNCHANGED vars
        PROVE  UNCHANGED <<result, lives, th, crashes>>
    BY <2>5 DEF Drain, StartPass, BreakScan, EndScan, EndRound, ListDirectory, ReadFile,
       JudgeAuthority, Defer, TakeUp, CommitEntry, LookupRaises, WriteReceipt, MoveAcked,
       WriteSidecar, MoveRefused, SetFlag, ClearFlag, vars, ledgerVars, born, env
  <2> QED
    BY <2>1, <2>2, <2>3, <2>4, <2>5 DEF Next
<1>2. ASSUME NEW l \in Life
      PROVE  Told(l)'
  <2>1. CASE result'[l] = result[l]
    <3>1. Told(l) /\ Attempt(l) \in Sub /\ Spooled(l) \in Sub
      BY Identities DEF ToldInv
    <3> QED
      BY <2>1, <3>1, FilesGrow DEF Told
  <2>2. CASE result'[l] # result[l]
    BY <1>1, <2>2 DEF Tells
  <2> QED
    BY <2>1, <2>2
<1>3. ASSUME crashes' = 0, NEW l \in 1..lives'
      PROVE  result'[l] # "none" \/ \E t \in Thread : l \in Claims(t)'
  <2>1. CASE UNCHANGED <<result, lives, th, crashes>>
    BY <1>3, <2>1 DEF ToldInv, Claims, On
  <2>2. ASSUME NEW t \in Thread, Tells(t), UNCHANGED crashes
        PROVE  result'[l] # "none" \/ \E u \in Thread : l \in Claims(u)'
    <3>1. lives \in Nat /\ lives' \in Nat /\ l \in Life
      BY SpoolNext, LedgerAssumption DEF SpoolInv, TypeOK, StoreTypeOK, Life
    <3>2. CASE l \in (lives + 1)..lives'
      BY <2>2, <3>2 DEF Tells
    <3>3. CASE l \in 1..lives
      <4>1. CASE result[l] # "none"
        BY <2>2, <3>1, <4>1 DEF Tells
      <4>2. ASSUME NEW u \in Thread, l \in Claims(u)
            PROVE  result'[l] # "none" \/ \E v \in Thread : l \in Claims(v)'
        <5>1. CASE u = t
          BY <2>2, <4>2, <5>1 DEF Tells
        <5>2. CASE u # t
          <6>1. th'[u] = th[u]
            BY <2>2, <5>2 DEF Tells, OthersRest
          <6>2. l \in Claims(u)'
            BY <4>2, <6>1 DEF Claims, On
          <6> QED
            BY <6>2
        <5> QED
          BY <5>1, <5>2
      <4> QED
        BY <1>3, <2>2, <3>3, <4>1, <4>2 DEF ToldInv
    <3> QED
      BY <3>1, <3>2, <3>3
  <2> QED
    BY <1>1, <1>3, <2>1, <2>2
<1> QED
  BY <1>2, <1>3 DEF ToldInv

LEMMA TellingFollows == SpoolInv /\ ToldInv => ToldIsKept
<1> SUFFICES ASSUME SpoolInv, ToldInv PROVE ToldIsKept
  OBVIOUS
<1>1. \A t \in Thread : Claims(t) \subseteq {th[t].life, th[t].reply}
  BY DEF Claims, On
<1>2. \A l \in Life : l <= lives => l \in 1..lives
  BY DEF SpoolInv, TypeOK, StoreTypeOK, Life
<1>3. \A l \in Life : l <= lives /\ result[l] = "none" /\ crashes = 0
                     => \E t \in Thread : l \in {th[t].life, th[t].reply}
  BY <1>1, <1>2 DEF ToldInv
<1> QED
  BY <1>3 DEF SpoolInv, ThreadInv, ToldTrue, ToldInv, Told, ToldIsKept

\* What a caller was told is so and stays so: "committed" means a turn,
\* "custody" and "held" an envelope, "dead" a dead letter, through every later
\* failure and crash; and no call ends without a word unless a process died
\* (owner.py, recorder.py, model_reply_persistence.py).
THEOREM CallersAreTold == Spec => []ToldIsKept
<1>1. Init => DeadInv /\ ToldInv
  BY DEF Init, StoreInit, IdleThread, DeadInv, ToldInv, Told, Claims, ReportsRefusal
<1> QED
  BY <1>1, TellingFollows, SpoolInvariant, DeadKeeps, ToldKeeps, PTL DEF Spec

-----------------------------------------------------------------------------
(* The steps of LedgerAdmission                                            *)

\* What LedgerAdmission sees of a submission that no step changed.
LEMMA FateStays ==
    ASSUME UNCHANGED <<place, dead>>
    PROVE  UNCHANGED [s \in Sub |-> FateOf(s)]
  BY DEF FateOf

LEMMA FateChanges ==
    ASSUME NEW x \in Sub, NEW f, FateOf(x)' = f, \A s \in Sub : s # x => FateOf(s)' = FateOf(s)
    PROVE  [s \in Sub |-> FateOf(s)]' = [[s \in Sub |-> FateOf(s)] EXCEPT ![x] = f]
  OBVIOUS

AdmissionStep == Admission!Next \/ UNCHANGED Admission!avars

\* A life that begins names the parents of submissions nobody has seen.
LEMMA BirthNames ==
    ASSUME SpoolInv, SpoolInv', DeadInv, Births
    PROVE  AdmissionStep
<1>1. UNCHANGED <<chain, place, dead>>
  BY DEF Births, turns
<1>3. ASSUME NEW s \in Sub, edge'[s] # edge[s]
      PROVE  FateOf(s) = "none" /\ ~Committed(s)
  <2>1. LifeOf(s) \in Life /\ lives \in Nat
    BY Identities DEF SpoolInv, TypeOK, StoreTypeOK
  <2>2. LifeOf(s) > lives
    <3>1. PICK b, e : Live(lives + 1, b, e)
      BY DEF Births
    <3>2. lives + 1 \in Life
      BY <3>1 DEF Live
    <3>3. LifeOf(s) = lives + 1
      BY <1>3, <3>1, <3>2, LifeNames DEF SpoolInv, TypeOK
    <3> QED
      BY <2>1, <3>3
  <2>3. place[s] = "none" /\ ~Committed(s)
    BY <2>2 DEF SpoolInv, FileInv, FilesAgree
  <2>4. dead[LifeOf(s)] = "none"
    BY <2>1, <2>2 DEF DeadInv, Life
  <2> QED
    BY <2>3, <2>4 DEF FateOf
<1>4. Admission!Name
  <2>1. edge' \in [Sub -> Sub \cup {NoSub}]
    BY DEF SpoolInv, TypeOK, StoreTypeOK
  <2>2. \A s \in Sub : edge'[s] # edge[s] => FateOf(s) = "none" /\ ~Committed(s)
    BY <1>3
  <2>3. UNCHANGED <<chain, [s \in Sub |-> FateOf(s)]>>
    BY <1>1, FateStays
  <2> QED
    BY <2>1, <2>2, <2>3 DEF Admission!Name, Admission!Admitted, Committed
<1> QED
  BY <1>4 DEF AdmissionStep, Admission!Next

\* A turn that is new is admitted, after its parent and never once refused.
LEMMA TurnAdmits ==
    ASSUME SpoolInv, SpoolInv', DeadInv, NEW s \in Sub, Admits(s)
    PROVE  AdmissionStep
<1>1. WriteTurn(s) /\ UNCHANGED <<edge, place, dead>>
  BY DEF Admits, born
<1>2. UNCHANGED [x \in Sub |-> FateOf(x)] /\ UNCHANGED edge
  BY <1>1, FateStays
<1>3. CASE Committed(s)
  <2>1. UNCHANGED chain
    BY <1>1, <1>3 DEF WriteTurn
  <2> QED
    BY <1>2, <2>1 DEF AdmissionStep, Admission!avars
<1>4. CASE ~Committed(s)
  <2>1. chain' = Append(chain, s) /\ chain \in Seq(Sub)
    BY <1>1, <1>4 DEF WriteTurn, SpoolInv, TypeOK, StoreTypeOK
  <2>2. Len(chain') = Len(chain) + 1 /\ Len(chain) \in Nat /\ chain'[Len(chain) + 1] = s
    BY <2>1
  <2>3. \A i \in 1..Len(chain) : chain'[i] = chain[i]
    BY <2>1
  <2>4. edge[s] = NoSub \/ Committed(edge[s])
    <3> SUFFICES ASSUME edge[s] # NoSub PROVE Committed(edge[s])
      OBVIOUS
    <3>1. \E j \in 1..(Len(chain) + 1 - 1) : chain'[j] = edge[s]
      BY <1>1, <2>2 DEF SpoolInv, FileInv, ParentsFirst
    <3> QED
      BY <2>2, <2>3, <3>1 DEF Committed
  <2>5. FateOf(s) # "refused"
    <3>1. CASE place[s] = "pending"
      <4>1. s = Attempt(LifeOf(s)) => dead[LifeOf(s)] # "refused"
        BY <3>1, Identities DEF DeadInv, Untaken
      <4> QED
        BY <3>1, <4>1 DEF FateOf
    <3>2. CASE AtOwner(s)
      <4>1. PICK t \in Thread : th[t].pc = "owner" /\ s = Attempt(On(t))
        BY <3>2 DEF AtOwner
      <4>2. place[s] = "none" /\ LifeOf(s) = On(t) /\ On(t) \in Claims(t)
        BY <4>1, OwnerFree, InProgress DEF Claims
      <4>3. dead[LifeOf(s)] = "none"
        BY <4>2 DEF DeadInv
      <4> QED
        BY <4>2, <4>3 DEF FateOf
    <3> QED
      BY <3>1, <3>2 DEF Admits
  <2>6. Admission!Admit(s)
    BY <1>2, <1>4, <2>1, <2>4, <2>5 DEF Admission!Admit, Admission!Admitted, Committed
  <2> QED
    BY <2>6 DEF AdmissionStep, Admission!Next
<1> QED
  BY <1>3, <1>4

\* An envelope is kept when it is published, and acked it is kept still; it
\* is refused only from there, without a turn.
LEMMA EnvelopeMoves ==
    ASSUME SpoolInv, DeadInv, NEW s \in Sub,
           Publishes(s) \/ \E d \in {"acked", "refused"} : Ends(s, d)
    PROVE  AdmissionStep
<1>1. PICK d \in Place \ {"none"} :
        place' = [place EXCEPT ![s] = d] /\ (d = "pending" => Publishes(s)) /\ (d # "pending" => Ends(s, d))
  BY DEF Publishes, Ends, Place
<1>2. UNCHANGED <<chain, dead>> /\ UNCHANGED edge
  BY <1>1 DEF Publishes, Ends, born, turns
<1>3. place'[s] = d /\ \A x \in Sub : x # s => FateOf(x)' = FateOf(x)
  BY <1>1, <1>2 DEF SpoolInv, TypeOK, StoreTypeOK, FateOf
<1>4. ~(s = Attempt(LifeOf(s)) /\ dead[LifeOf(s)] = "refused")
  <2>1. CASE Publishes(s)
    <3>1. CASE s = Spooled(LifeOf(s))
      BY <3>1, Identities
    <3>2. CASE AtOwner(s)
      <4>1. PICK t \in Thread : th[t].pc = "owner" /\ s = Attempt(On(t))
        BY <3>2 DEF AtOwner
      <4>2. LifeOf(s) = On(t) /\ On(t) \in Claims(t)
        BY <4>1, InProgress DEF Claims
      <4> QED
        BY <4>2 DEF DeadInv
    <3> QED
      BY <2>1, <3>1, <3>2 DEF Publishes
  <2>2. CASE place[s] = "pending"
    BY <2>2, Identities DEF DeadInv, Untaken
  <2> QED
    BY <1>1, <2>1, <2>2 DEF Ends
<1>5. CASE d = "pending"
  <2>1. place[s] = "none"
    BY <1>1, <1>5 DEF Publishes
  <2>2. FateOf(s)' = "kept" /\ FateOf(s) \in {"none", "kept"}
    BY <1>2, <1>3, <1>4, <1>5, <2>1 DEF FateOf
  <2>3. CASE FateOf(s) = "none"
    <3>1. Admission!Keep(s)
      BY <1>2, <1>3, <2>2, <2>3, FateChanges DEF Admission!Keep
    <3> QED
      BY <3>1 DEF AdmissionStep, Admission!Next
  <2>4. CASE FateOf(s) = "kept"
    <3>1. UNCHANGED [x \in Sub |-> FateOf(x)]
      BY <1>3, <2>2, <2>4
    <3> QED
      BY <1>2, <3>1 DEF AdmissionStep, Admission!avars
  <2> QED
    BY <2>2, <2>3, <2>4
<1>6. CASE d = "acked"
  <2>1. FateOf(s)' = "kept" /\ FateOf(s) = "kept"
    BY <1>1, <1>2, <1>3, <1>4, <1>6 DEF FateOf, Ends
  <2>2. UNCHANGED [x \in Sub |-> FateOf(x)]
    BY <1>3, <2>1
  <2> QED
    BY <1>2, <2>2 DEF AdmissionStep, Admission!avars
<1>7. CASE d = "refused"
  <2>1. FateOf(s)' = "refused" /\ FateOf(s) = "kept" /\ ~Committed(s)
    BY <1>1, <1>3, <1>4, <1>7 DEF FateOf, Ends
  <2>2. Admission!Refuse(s)
    BY <1>2, <1>3, <2>1, FateChanges DEF Admission!Refuse, Admission!Admitted, Committed
  <2> QED
    BY <2>2 DEF AdmissionStep, Admission!Next
<1> QED
  BY <1>1, <1>5, <1>6, <1>7 DEF Place

\* A dead letter keeps an attempt, or says that it was refused.
LEMMA DeadLetterMoves ==
    ASSUME SpoolInv, DeadInv, NEW t \in Thread, NEW c \in Category, Buries(t, c)
    PROVE  AdmissionStep
<1>0. On(t) \in Life /\ On(t) \in Claims(t)
  BY InProgress DEF Buries, Claims
<1> PICK l \in Life : l = On(t)
  BY <1>0
<1> DEFINE s == Attempt(l)
<1>1. s \in Sub /\ LifeOf(s) = l
  BY Identities
<1>2. UNCHANGED <<chain, place>> /\ UNCHANGED edge
  BY DEF Buries, turns, born
<1>3. dead[l] = "none" /\ dead'[l] = c /\ \A m \in Life : m # l => dead'[m] = dead[m]
  BY <1>0 DEF Buries, DeadInv, SpoolInv, TypeOK, StoreTypeOK
<1>4. ASSUME NEW x \in Sub, x # s
      PROVE  FateOf(x)' = FateOf(x)
  <2>1. LifeOf(x) \in Life /\ (x = Attempt(LifeOf(x)) => LifeOf(x) # l)
    BY <1>4, Identities
  <2> QED
    BY <1>2, <1>3, <2>1 DEF FateOf
<1>5. CASE c = "refused"
  <2>1. place[s] = "none" /\ ~Committed(s)
    BY <1>5 DEF Buries, DeadInv, Untaken
  <2>2. FateOf(s) = "none" /\ FateOf(s)' = "refused"
    BY <1>1, <1>2, <1>3, <1>5, <2>1 DEF FateOf
  <2>3. Admission!Refuse(s)
    BY <1>1, <1>2, <1>4, <2>1, <2>2, FateChanges DEF Admission!Refuse, Admission!Admitted, Committed
  <2> QED
    BY <1>1, <2>3 DEF AdmissionStep, Admission!Next
<1>6. CASE c = "failed" /\ place[s] = "none"
  <2>1. FateOf(s) = "none" /\ FateOf(s)' = "kept"
    BY <1>1, <1>2, <1>3, <1>6 DEF FateOf
  <2>2. Admission!Keep(s)
    BY <1>1, <1>2, <1>4, <2>1, FateChanges DEF Admission!Keep
  <2> QED
    BY <1>1, <2>2 DEF AdmissionStep, Admission!Next
<1>7. CASE c = "failed" /\ place[s] # "none"
  <2>1. FateOf(s)' = FateOf(s)
    BY <1>1, <1>2, <1>3, <1>7 DEF FateOf
  <2>2. UNCHANGED [x \in Sub |-> FateOf(x)]
    BY <1>4, <2>1
  <2> QED
    BY <1>2, <2>2 DEF AdmissionStep, Admission!avars
<1> QED
  BY <1>5, <1>6, <1>7 DEF Category

LEMMA StepsAdmit == SpoolInv /\ SpoolInv' /\ DeadInv /\ [Next]_vars => [Admission!Next]_(Admission!avars)
<1> SUFFICES ASSUME SpoolInv, SpoolInv', DeadInv, [Next]_vars PROVE AdmissionStep
  BY DEF AdmissionStep
<1>1. CASE Rests
  <2>1. UNCHANGED <<chain, edge>> /\ UNCHANGED [s \in Sub |-> FateOf(s)]
    BY <1>1, FateStays DEF Rests, turns, born
  <2> QED
    BY <2>1 DEF AdmissionStep, Admission!avars
<1> QED
  BY <1>1, Shapes, BirthNames, TurnAdmits, EnvelopeMoves, DeadLetterMoves DEF Shape

\* The ledger keeps the promise of LedgerAdmission: redrives, two lanes, dead
\* letters, pauses, failures and crashes together never admit a submission
\* twice, before its parent, or after it was refused (owner.py, recorder.py,
\* model_reply_persistence.py, spool.py).
THEOREM LedgerIsAdmission == Spec => ImplementsAdmission
<1>1. Init => Admission!Init
  BY Identities DEF Init, StoreInit, Admission!Init, FateOf
<1>2. Init => DeadInv
  BY DEF Init, StoreInit, IdleThread, DeadInv, Claims, ReportsRefusal
<1> QED
  BY <1>1, <1>2, SpoolInvariant, DeadKeeps, StepsAdmit, PTL DEF Spec, ImplementsAdmission, Admission!Spec
=============================================================================
