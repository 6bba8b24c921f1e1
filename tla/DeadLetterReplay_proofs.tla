----------------------- MODULE DeadLetterReplay_proofs -----------------------
(***************************************************************************)
(* Proofs about DeadLetterReplay: whatever the tool does, at whatever      *)
(* moment it dies, the ledger keeps what LedgerSpool promises of it, and a *)
(* companion is true.                                                      *)
(*                                                                         *)
(* The steps of the rest of the system keep SpoolInv and DeadInv as they   *)
(* did without the tool.  The tool's one step on the files publishes the   *)
(* attempt of a life that is dead-lettered and untaken: such a life is in  *)
(* no thread's hands, so that nobody else will take it.                    *)
(***************************************************************************)
EXTENDS DeadLetterReplay, LedgerSpool_proofs

-----------------------------------------------------------------------------
(* The inductive invariant                                                 *)

\* A life that is in progress in the spool's lane, or about to be
\* dead-lettered, has no envelope under its attempt.
Unplaced ==
    \A t \in Thread : th[t].pc \in {"spool", "report"} => place[Attempt(On(t))] = "none"

OperatorTypes ==
    /\ op \in OperatorState /\ runs \in 0..MaxRuns
    /\ clocked \subseteq Sub /\ unjoined \subseteq Life /\ distant \subseteq Life
    /\ replayed \subseteq Life /\ companions \subseteq Life

\* What the guard saw is still so when the body is published.
Guarded ==
    op.pc = "publish" =>
        /\ op.now \in Life /\ dead[op.now] = "failed"
        /\ payload[op.now] # "marker" /\ Untaken(op.now)

\* The envelope of a failed life's attempt is the tool's.
CustodyIsOurs == \A l \in Life : dead[l] = "failed" /\ place[Attempt(l)] # "none" => l \in replayed

LedgerPart == SpoolInv /\ DeadInv /\ MarkerInv /\ UnfitInv /\ ToldInv /\ Unplaced
ReplayInv == LedgerPart /\ OperatorTypes /\ Guarded /\ CustodyIsOurs /\ CompanionsAreTrue

-----------------------------------------------------------------------------
(* The steps of the rest of the system                                     *)

\* A directory changes when an envelope leaves pending, when the spool's lane
\* publishes, and when the direct lane does and lets go of its life.
PlaceMoves ==
    \/ UNCHANGED place
    \/ \E s \in Sub, d \in Place : place[s] = "pending" /\ Move(s, d)
    \/ \E t \in Thread : th[t].pc = "spool" /\ Publish(Spooled(On(t)))
    \/ \E t \in Thread, r \in Result :
         th[t].pc = "owner" /\ Publish(Attempt(On(t))) /\ Return(t, r)

LEMMA Moves ==
    ASSUME SpoolInv, [Next]_vars
    PROVE  PlaceMoves
<1>1. ASSUME NEW t \in Thread, SpoolLane(t)
      PROVE  PlaceMoves
  BY <1>1 DEF SpoolLane, PlaceMoves, PublishFails, At
<1>2. ASSUME NEW t \in Thread, HelperWrite(t)
      PROVE  PlaceMoves
  BY <1>2 DEF HelperWrite, PlaceMoves, PublishFails, At, Result, files
<1>3. CASE MoveAcked \/ MoveRefused
  <2>1. drain.now \in Sub /\ place[drain.now] = "pending"
    BY <1>3 DEF MoveAcked, MoveRefused, Draining, SpoolInv, DrainInv, Busy
  <2> QED
    BY <1>3, <2>1 DEF MoveAcked, MoveRefused, PlaceMoves, Place
<1>4. ASSUME Next, ~\E t \in Thread : SpoolLane(t) \/ HelperWrite(t),
             ~(MoveAcked \/ MoveRefused)
      PROVE  UNCHANGED place
  BY <1>4 DEF Next, Drain, Recording, Hear, Answer, Speak, Part, EnsureMarker, RecorderCommit, Report,
     StartPass, BreakScan, EndScan, EndRound, ListDirectory, ReadFile, JudgeAuthority, Defer,
     TakeUp, CommitEntry, LookupRaises, WriteReceipt, WriteSidecar, SetFlag, ClearFlag, Crash,
     files, ledgerVars
<1>5. CASE UNCHANGED vars
  BY <1>5 DEF vars, ledgerVars, files, PlaceMoves
<1> QED
  BY <1>1, <1>2, <1>3, <1>4, <1>5 DEF PlaceMoves

\* The attempt of a life in no directory stays out of them, unless the life
\* is let go of.
LEMMA AttemptsStay ==
    ASSUME SpoolInv, [Next]_vars, NEW l \in Life, place[Attempt(l)] = "none",
           place'[Attempt(l)] # "none"
    PROVE  (\E t \in Thread : l \in Claims(t)) /\ \A u \in Thread : l \notin Claims(u)'
<1>1. Attempt(l) \in Sub
  BY Identities
<1>2. \A t \in Thread : th[t].pc # "idle" => On(t) \in Life /\ On(t) \in Claims(t)
  BY LedgerAssumption DEF SpoolInv, TypeOK, StoreTypeOK, ThreadInv, ThreadOK, Claims, Life
<1>3. \E t \in Thread, r \in Result :
        th[t].pc = "owner" /\ Publish(Attempt(On(t))) /\ Return(t, r)
  <2>1. ASSUME NEW s \in Sub, NEW d, place[s] = "pending", Move(s, d)
        PROVE  FALSE
    BY <1>1, <2>1 DEF Move, SpoolInv, TypeOK, StoreTypeOK
  <2>2. ASSUME NEW t \in Thread, th[t].pc = "spool", Publish(Spooled(On(t)))
        PROVE  FALSE
    <3>1. Attempt(l) # Spooled(On(t))
      BY <1>2, <2>2, Identities
    <3> QED
      BY <1>1, <2>2, <3>1 DEF Publish, SpoolInv, TypeOK, StoreTypeOK
  <2> QED
    BY <2>1, <2>2, Moves DEF PlaceMoves
<1>4. PICK t \in Thread, r \in Result :
        th[t].pc = "owner" /\ Publish(Attempt(On(t))) /\ Return(t, r)
  BY <1>3
<1>5. l = On(t)
  <2>1. On(t) \in Life
    BY <1>2, <1>4
  <2>2. Attempt(l) = Attempt(On(t))
    BY <1>1, <1>4 DEF Publish, SpoolInv, TypeOK, StoreTypeOK
  <2> QED
    BY <2>1, <2>2, Identities
<1>6. On(t) \notin Claims(t)' /\ On(t) \in Claims(t)
  BY <1>2, <1>4, ReturnClaims
<1>7. ASSUME NEW u \in Thread, u # t
      PROVE  On(t) \notin Claims(u)'
  <2>1. On(t) \notin Claims(u) /\ On(t) # lives + 1
    <3>1. On(t) \in 1..lives /\ lives \in Nat
      BY <1>4 DEF SpoolInv, TypeOK, StoreTypeOK, ThreadInv, ThreadOK
    <3> QED
      BY <1>6, <1>7, <3>1 DEF SpoolInv, ThreadInv, ClaimsApart
  <2> QED
    BY <2>1, ClaimsMove
<1> QED
  BY <1>5, <1>6, <1>7

\* The lives a thread claims have no envelope under their attempt.
LEMMA ClaimedUnplaced ==
    ASSUME SpoolInv, Unplaced, NEW t \in Thread, NEW l \in Claims(t)
    PROVE  l \in Life /\ place[Attempt(l)] = "none"
<1>1. l \in Life
  BY LedgerAssumption DEF SpoolInv, TypeOK, StoreTypeOK, ThreadInv, ThreadOK, Claims, Life
<1>2. th[t].pc \in {"idle", "spool", "ensure", "owner", "report"}
  BY DEF SpoolInv, TypeOK, ThreadState
<1> QED
  BY <1>1, <1>2 DEF Unplaced, SpoolInv, ThreadInv, ThreadOK, Claims, Free

LEMMA UnplacedStays ==
    ASSUME SpoolInv, Unplaced, [Next]_vars
    PROVE  Unplaced'
<1>1. SpoolInv'
  BY SpoolNext
<1> SUFFICES ASSUME NEW u \in Thread, th'[u].pc \in {"spool", "report"}
             PROVE  place'[Attempt(On(u)')] = "none"
  BY DEF Unplaced, Attempt, On
<1> DEFINE l == On(u)'
<1>2. l \in Claims(u)' /\ l \in Life
  BY <1>1, LedgerAssumption DEF SpoolInv, TypeOK, StoreTypeOK, ThreadInv, ThreadOK, Claims, On, Life
<1>3. l \in Claims(u) \/ l = lives + 1
  BY <1>2, ClaimsMove
<1>4. place[Attempt(l)] = "none"
  <2>1. CASE l \in Claims(u)
    BY <2>1, ClaimedUnplaced
  <2>2. CASE l = lives + 1
    <3>1. Attempt(l) \in Sub /\ LifeOf(Attempt(l)) = l /\ lives \in Nat
      BY <1>2, Identities DEF SpoolInv, TypeOK, StoreTypeOK
    <3> QED
      BY <2>2, <3>1 DEF SpoolInv, FileInv, FilesAgree
  <2> QED
    BY <1>3, <2>1, <2>2
<1> HIDE DEF l
<1>5. place'[Attempt(l)] = "none"
  BY <1>2, <1>4, AttemptsStay
<1> QED
  BY <1>5 DEF l

\* A life that was dead-lettered as failed stays so, and its attempt stays
\* in no directory; one that is newly so has none there.
LEMMA FailuresStay ==
    ASSUME LedgerPart, CustodyIsOurs, [Next]_vars, UNCHANGED replayed
    PROVE  CustodyIsOurs'
<1> SUFFICES ASSUME NEW l \in Life, dead'[l] = "failed", place'[Attempt(l)] # "none"
             PROVE  l \in replayed
  BY DEF CustodyIsOurs, Attempt
<1>1. CASE dead[l] = "failed"
  <2>1. CASE place[Attempt(l)] = "none"
    BY <1>1, <2>1, AttemptsStay DEF LedgerPart, DeadInv
  <2> QED
    BY <1>1, <2>1 DEF CustodyIsOurs
<1>2. CASE dead[l] # "failed"
  <2>1. PICK t \in Thread, c \in Category : Buries(t, c)
    BY <1>2, DeadMoves DEF LedgerPart
  <2>2. l = On(t)
    BY <1>2, <2>1 DEF Buries, LedgerPart, SpoolInv, TypeOK, StoreTypeOK
  <2>3. place[Attempt(l)] = "none" /\ UNCHANGED place
    BY <2>1, <2>2 DEF Buries, LedgerPart, Unplaced
  <2> QED
    BY <2>3
<1> QED
  BY <1>1, <1>2

LEMMA GuardHolds ==
    ASSUME LedgerPart, Guarded, [Next]_vars, UNCHANGED op
    PROVE  Guarded'
<1> SUFFICES ASSUME op.pc = "publish"
             PROVE  /\ op.now \in Life /\ dead'[op.now] = "failed"
                    /\ payload'[op.now] # "marker" /\ Untaken(op.now)'
  BY DEF Guarded, Untaken, Attempt, Committed
<1> DEFINE l == op.now
<1>1. l \in Life /\ dead[l] = "failed" /\ payload[l] # "marker" /\ Untaken(l)
  BY DEF Guarded
<1> HIDE DEF l
<1>2. \A t \in Thread : l \notin Claims(t)
  BY <1>1 DEF LedgerPart, DeadInv
<1>3. \A t \in Thread : th[t].pc # "idle" => On(t) # l
  BY <1>2 DEF Claims
<1>4. \A m \in Life : m = l => Untaken(m)'
  BY <1>1, <1>3, UntakenStays DEF LedgerPart
<1>5. dead'[l] = dead[l]
  <2>1. ASSUME NEW t \in Thread, NEW c, Buries(t, c)
        PROVE  dead'[l] = dead[l]
    BY <1>1, <1>3, <2>1 DEF Buries, LedgerPart, SpoolInv, TypeOK, StoreTypeOK
  <2> QED
    BY <2>1, DeadMoves DEF LedgerPart
<1>6. payload'[l] = payload[l]
  <2>1. l \in 1..lives /\ Spooled(l) \in Sub /\ LifeOf(Spooled(l)) = l
    BY <1>1, Identities DEF LedgerPart, DeadInv, Life, SpoolInv, TypeOK, StoreTypeOK
  <2> QED
    BY <2>1, LivesStay DEF LedgerPart
<1> QED
  BY <1>1, <1>4, <1>5, <1>6 DEF l, Untaken, Attempt, Committed

\* The rest of the system keeps the invariant.
LEMMA SystemKeeps == ReplayInv /\ Next /\ Leaves => ReplayInv'
<1> SUFFICES ASSUME ReplayInv, Next, Leaves PROVE ReplayInv'
  OBVIOUS
<1>1. LedgerPart'
  BY SpoolNext, DeadKeeps, MarkerKeeps, UnfitKeeps, ToldKeeps, UnplacedStays DEF ReplayInv, LedgerPart
<1>2. OperatorTypes'
  <2>1. clocked' \subseteq Sub /\ unjoined' \subseteq Life /\ distant' \subseteq Life
    BY DEF Leaves, NewTurns, ReplayInv, OperatorTypes
  <2> QED
    BY <2>1 DEF Leaves, published, ReplayInv, OperatorTypes
<1>3. Guarded'
  BY GuardHolds DEF Leaves, ReplayInv
<1>4. CustodyIsOurs'
  BY FailuresStay DEF Leaves, published, ReplayInv
<1>5. CompanionsAreTrue'
  <2>1. \A l \in Life : Committed(Attempt(l)) => Committed(Attempt(l))'
    BY TurnsStay, Identities DEF ReplayInv, LedgerPart, NothingLost
  <2> QED
    BY <2>1 DEF Leaves, published, ReplayInv, OperatorTypes, CompanionsAreTrue
<1> QED
  BY <1>1, <1>2, <1>3, <1>4, <1>5 DEF ReplayInv

-----------------------------------------------------------------------------
(* The tool's steps                                                        *)

\* The steps of the tool that touch nothing but its own memory and marks.
LEMMA ToolWalks ==
    ASSUME LedgerPart, UNCHANGED <<born, turns, files, dead, flags, th, result, drain, env>>,
           faults' \in 0..MaxFaults
    PROVE  LedgerPart'
<1>1. TypeOK'
  BY DEF LedgerPart, SpoolInv, TypeOK, StoreTypeOK, born, turns, files, flags, env
<1>2. UNCHANGED <<born, chain, marked, place, receipts, sidecars, dead, th, result, drain>>
  BY DEF turns, files
<1>3. FileInv'
  BY <1>2, FilesKept DEF LedgerPart, SpoolInv
<1>4. \A s \in Sub : place'[s] = place[s] /\ (Committed(s)' <=> Committed(s))
  BY <1>2 DEF Committed
<1>5. ThreadInv' /\ DrainInv'
  BY <1>2, <1>4, ThreadsKept, DrainUntouched DEF LedgerPart, SpoolInv, born
<1>6. Ready'
  BY <1>2 DEF LedgerPart, SpoolInv, Ready, Resolved, Committed, born
<1>7. DeadInv'
  BY <1>2 DEF LedgerPart, DeadInv, Untaken, ReportsRefusal, Committed, Claims, On, born, Attempt
<1>8. MarkerInv' /\ Unplaced'
  BY <1>2 DEF LedgerPart, MarkerInv, MarkerSet, OneMarker, Unplaced, On, Committed, born
<1>9. UnfitInv' /\ ToldInv'
  BY <1>2 DEF LedgerPart, UnfitInv, ReportsRefusal, ToldInv, Told, Claims, On, born, env,
     Attempt, Spooled
<1> QED
  BY <1>1, <1>3, <1>5, <1>6, <1>7, <1>8, <1>9 DEF LedgerPart, SpoolInv

\* A body is published, with or without the parent its life named.
LEMMA BodyKeeps ==
    ASSUME LedgerPart, NEW l \in Life, dead[l] = "failed", payload[l] # "marker", Untaken(l),
           Publish(Attempt(l)),
           \E e \in {edge[Attempt(l)], NoSub} : edge' = [edge EXCEPT ![Attempt(l)] = e],
           UNCHANGED <<lives, payload, turns, receipts, sidecars, dead, flags, th, result, drain, env>>,
           faults' \in 0..MaxFaults
    PROVE  LedgerPart'
<1> DEFINE a == Attempt(l)
<1>a. SpoolInv /\ TypeOK /\ StoreTypeOK
  BY DEF LedgerPart, SpoolInv, TypeOK
<1>b. a \in Sub /\ LifeOf(a) = l /\ l \in 1..lives /\ lives \in Nat
  BY <1>a, Identities DEF LedgerPart, DeadInv, Life, StoreTypeOK
<1>c. place[a] = "none" /\ ~Committed(a)
  BY DEF Untaken
<1>d. \A t \in Thread : l \notin Claims(t)
  BY DEF LedgerPart, DeadInv
<1>e. UNCHANGED <<lives, payload, chain, marked, receipts, sidecars, dead, th, result, drain>>
  BY DEF turns
<1>f. \A s \in Sub : Committed(s)' <=> Committed(s)
  BY <1>e DEF Committed
<1>g. place' = [place EXCEPT ![a] = "pending"]
  BY <1>c DEF Publish
<1>h. /\ \A s \in Sub : s # a => place'[s] = place[s] /\ edge'[s] = edge[s]
      /\ place'[a] = "pending" /\ edge'[a] \in {edge[a], NoSub}
  BY <1>a, <1>b, <1>g DEF StoreTypeOK
<1> HIDE DEF a
<1>1. TypeOK'
  <2>1. place' \in [Sub -> Place]
    BY <1>a, <1>b, <1>g DEF StoreTypeOK, Place
  <2>2. edge' \in [Sub -> Sub \cup {NoSub}]
    BY <1>a, <1>b DEF StoreTypeOK, a
  <2> QED
    BY <1>a, <2>1, <2>2 DEF TypeOK, StoreTypeOK, turns, flags, env
<1>2. FileInv'
  <2>0. FileInv
    BY <1>a DEF SpoolInv
  <2>1. FilesAgree'
    <3> SUFFICES ASSUME NEW s \in Sub
                 PROVE  /\ LifeOf(s) > lives => place'[s] = "none" /\ ~Committed(s)
                        /\ Committed(s) => payload[LifeOf(s)] \in {"good", "marker"}
                        /\ place'[s] # "none" /\ payload[LifeOf(s)] = "marker" => ~Committed(s)
                        /\ Committed(s) /\ place'[s] = "none" => s = Attempt(LifeOf(s))
      BY <1>e, <1>f DEF FilesAgree
    <3>1. CASE s = a
      BY <1>b, <1>c, <1>h, <3>1
    <3>2. CASE s # a
      BY <1>h, <2>0, <3>2 DEF FileInv, FilesAgree
    <3> QED
      BY <3>1, <3>2
  <2>2. OneTurnPerSubmission'
    BY <1>e, <2>0 DEF FileInv, OneTurnPerSubmission
  <2>3. ParentsFirst'
    <3>1. \A i \in 1..Len(chain) : chain[i] \in Sub /\ edge'[chain[i]] \in {edge[chain[i]], NoSub}
      BY <1>a, <1>h DEF StoreTypeOK
    <3> QED
      BY <1>e, <2>0, <3>1 DEF FileInv, ParentsFirst
  <2>4. EndsKept'
    BY <1>e, <1>f, <1>h, <2>0 DEF FileInv, EndsKept
  <2> QED
    BY <2>1, <2>2, <2>3, <2>4 DEF FileInv
<1>3. \A s \in Sub : Resolved(s) => Resolved(s)'
  BY <1>a, <1>f, <1>h DEF Resolved, StoreTypeOK
<1>4. ThreadInv'
  <2>1. ASSUME NEW m \in Life, m # l, Free(m)
        PROVE  Free(m)'
    <3>1. Attempt(m) \in Sub /\ Attempt(m) # a
      BY <2>1, Identities DEF a
    <3> QED
      BY <1>e, <1>f, <1>h, <1>3, <2>1, <3>1 DEF Free
  <2>2. ASSUME NEW t \in Thread
        PROVE  ThreadOK(t)'
    <3>1. ThreadOK(t) /\ Claims(t) \subseteq Life /\ l \notin Claims(t)
      BY <1>a, <1>d, LedgerAssumption DEF SpoolInv, ThreadInv, ThreadOK, Claims, StoreTypeOK, Life
    <3>2. th'[t] = th[t] /\ On(t)' = On(t)
      BY <1>e DEF On
    <3>3. th[t].pc \in {"ensure", "owner"} => Free(On(t))'
      BY <2>1, <3>1, <3>2 DEF ThreadOK, Claims
    <3>4. th[t].reply # NoLife => Free(th[t].reply)'
      BY <2>1, <3>1 DEF ThreadOK, Claims
    <3>5. th[t].pc = "spool" => place'[Spooled(On(t))] = "none"
      <4> SUFFICES ASSUME th[t].pc = "spool" PROVE place'[Spooled(On(t))] = "none"
        OBVIOUS
      <4>1. On(t) \in Life
        BY <3>1 DEF Claims
      <4>2. Spooled(On(t)) \in Sub /\ Spooled(On(t)) # a
        BY <4>1, Identities DEF a
      <4> QED
        BY <1>h, <3>1, <4>2 DEF ThreadOK
    <3> QED
      BY <1>e, <3>1, <3>2, <3>3, <3>4, <3>5 DEF ThreadOK
  <2>3. ClaimsApart'
    BY <1>a, <1>e DEF SpoolInv, ThreadInv, ClaimsApart, Claims, On
  <2>4. ToldTrue'
    BY <1>a, <1>e, <1>f, Identities DEF SpoolInv, ThreadInv, ToldTrue
  <2> QED
    BY <2>2, <2>3, <2>4 DEF ThreadInv
<1>5. DrainInv'
  <2>1. \A s \in Sub : place[s] # "none" => place'[s] = place[s]
    BY <1>c, <1>h
  <2> QED
    BY <1>a, <1>e, <1>f, <2>1, DrainUntouched DEF SpoolInv
<1>6. Ready'
  <2>1. drain.pc = "commit" => drain.now \in Sub
    BY <1>a DEF SpoolInv, DrainInv, Busy
  <2> QED
    BY <1>a, <1>e, <1>3, <2>1 DEF SpoolInv, Ready
<1>7. \A m \in Life : m # l /\ Untaken(m) => Untaken(m)'
  BY <1>f, <1>h, Identities DEF Untaken, a
<1>8. DeadInv'
  <2>1. ASSUME NEW t \in Thread, ReportsRefusal(t)'
        PROVE  Untaken(On(t))'
    <3>1. ReportsRefusal(t) /\ On(t)' = On(t)
      BY <1>e, <2>1 DEF ReportsRefusal, On
    <3>2. On(t) \in Claims(t) /\ On(t) \in Life /\ Untaken(On(t))
      BY <1>a, <3>1, LedgerAssumption DEF LedgerPart, DeadInv, ReportsRefusal, Claims, SpoolInv,
         ThreadInv, ThreadOK, StoreTypeOK, Life
    <3>3. \A m \in Life : m = On(t) => Untaken(m)'
      BY <1>d, <1>7, <3>2
    <3> QED
      BY <3>1, <3>2, <3>3 DEF Untaken, Committed, Attempt
  <2>2. \A m \in Life : dead[m] = "refused" => Untaken(m)'
    BY <1>7 DEF LedgerPart, DeadInv
  <2>3. /\ \A m \in Life : dead'[m] # "none" => m <= lives'
        /\ \A t \in Thread : \A m \in Claims(t)' : dead'[m] = "none"
    BY <1>e DEF LedgerPart, DeadInv, Claims, On
  <2> QED
    BY <1>e, <2>1, <2>2, <2>3 DEF DeadInv
<1>9. MarkerInv' /\ Unplaced'
  <2>1. MarkerInv'
    BY <1>e DEF LedgerPart, MarkerInv, MarkerSet, OneMarker, Committed
  <2>2. ASSUME NEW t \in Thread, th[t].pc \in {"spool", "report"}
        PROVE  place'[Attempt(On(t))] = "none"
    <3>1. On(t) \in Claims(t)
      BY <2>2 DEF Claims
    <3>2. On(t) \in Life /\ place[Attempt(On(t))] = "none" /\ On(t) # l
      BY <1>a, <1>d, <3>1, ClaimedUnplaced DEF LedgerPart
    <3> QED
      BY <1>h, <3>2, Identities DEF a
  <2> QED
    BY <1>e, <2>1, <2>2 DEF Unplaced, On
<1>10. UnfitInv'
  <2>1. \A s \in Sub : place'[s] = "refused" => place[s] = "refused"
    BY <1>h
  <2> QED
    BY <1>e, <2>1 DEF LedgerPart, UnfitInv, ReportsRefusal, On
<1>11. ToldInv'
  <2>1. \A s \in Sub : place[s] # "none" => place'[s] # "none"
    BY <1>h
  <2>2. \A m \in Life : Attempt(m) \in Sub /\ Spooled(m) \in Sub
    BY Identities
  <2>3. \A m \in Life : Told(m)'
    BY <1>e, <2>1, <2>2 DEF LedgerPart, ToldInv, Told
  <2> QED
    BY <1>e, <2>3 DEF LedgerPart, ToldInv, Claims, On, env
<1> QED
  BY <1>1, <1>2, <1>4, <1>5, <1>6, <1>8, <1>9, <1>10, <1>11 DEF LedgerPart, SpoolInv

\* The rest of the invariant, when a step of the tool has kept the ledger's.
LEMMA ToolKeeps ==
    ASSUME ReplayInv, UNCHANGED <<vars, records, published>>,
           op' \in OperatorState, runs' \in 0..MaxRuns, Guarded'
    PROVE  ReplayInv'
<1>1. UNCHANGED <<born, turns, files, dead, flags, faults, th, result, drain, env>>
  BY DEF vars, ledgerVars
<1>2. faults' \in 0..MaxFaults
  BY <1>1 DEF ReplayInv, LedgerPart, SpoolInv, TypeOK, StoreTypeOK
<1>3. LedgerPart'
  BY <1>1, <1>2, ToolWalks DEF ReplayInv
<1>4. UNCHANGED <<chain, place, dead, clocked, unjoined, distant, replayed, companions>>
  BY <1>1 DEF turns, files, records, published
<1>5. OperatorTypes'
  BY <1>4 DEF ReplayInv, OperatorTypes
<1>6. CustodyIsOurs' /\ CompanionsAreTrue'
  BY <1>4 DEF ReplayInv, CustodyIsOurs, CompanionsAreTrue, Committed, Attempt
<1> QED
  BY <1>3, <1>5, <1>6 DEF ReplayInv

LEMMA PublishBodyKeeps == ReplayInv /\ PublishBody => ReplayInv'
<1> SUFFICES ASSUME ReplayInv, PublishBody PROVE ReplayInv'
  OBVIOUS
<1> DEFINE l == op.now
<1>a. LedgerPart /\ TypeOK /\ StoreTypeOK
  BY DEF ReplayInv, LedgerPart, SpoolInv, TypeOK
<1>b. l \in Life /\ dead[l] = "failed" /\ payload[l] # "marker" /\ Untaken(l)
  BY DEF PublishBody, ReplayInv, Guarded
<1>c. UNCHANGED <<lives, payload, turns, receipts, sidecars, dead, flags, th, result, drain, env>>
  BY DEF PublishBody
<1>d. faults' \in 0..MaxFaults
  <2>1. NoFault \/ \E point : Fault(point)
    BY DEF PublishBody
  <2> QED
    BY <1>a, <2>1, StoreOperations
<1>e. Reconstruct(l) \/ UNCHANGED <<place, edge, replayed>>
  BY DEF PublishBody
<1>f. /\ op' \in OperatorState /\ op'.pc = "apply"
      /\ UNCHANGED <<runs, clocked, unjoined, distant, companions>>
  <2>1. op \in OperatorState
    BY DEF ReplayInv, OperatorTypes
  <2>2. \/ op' = [op EXCEPT !.pc = "apply", !.now = NoLife, !.sent = @ \cup {l}]
        \/ op' = [op EXCEPT !.pc = "apply", !.now = NoLife]
    BY DEF PublishBody
  <2>3. \A m \in Life : [op EXCEPT !.pc = "apply", !.now = NoLife, !.sent = @ \cup {m}] \in OperatorState
    BY <2>1 DEF OperatorState
  <2>4. [op EXCEPT !.pc = "apply", !.now = NoLife] \in OperatorState
    BY <2>1 DEF OperatorState
  <2>5. op' \in OperatorState /\ op'.pc = "apply"
    BY <1>b, <2>1, <2>2, <2>3, <2>4 DEF OperatorState
  <2>6. UNCHANGED <<runs, clocked, unjoined, distant, companions>>
    BY DEF PublishBody, records
  <2> QED
    BY <2>5, <2>6
<1>g. Attempt(l) \in Sub
  BY <1>b, Identities
<1> HIDE DEF l
<1>1. CASE Reconstruct(l)
  <2>1. /\ place' = [place EXCEPT ![Attempt(l)] = "pending"] /\ Publish(Attempt(l))
        /\ \E e \in {edge[Attempt(l)], NoSub} : edge' = [edge EXCEPT ![Attempt(l)] = e]
        /\ replayed' = replayed \cup {l}
    BY <1>b, <1>1 DEF Reconstruct, ReplayedEdge, Untaken, Publish
  <2>2. LedgerPart'
    BY <1>a, <1>b, <1>c, <1>d, <2>1, BodyKeeps
  <2>3. CustodyIsOurs'
    <3> SUFFICES ASSUME NEW m \in Life, dead[m] = "failed", place'[Attempt(m)] # "none", m # l
                 PROVE  m \in replayed
      BY <1>c, <2>1 DEF CustodyIsOurs, Attempt
    <3>1. Attempt(m) # Attempt(l)
      BY <1>b, Identities
    <3>2. place'[Attempt(m)] = place[Attempt(m)]
      BY <2>1, <3>1 DEF Attempt
    <3> QED
      BY <3>2 DEF ReplayInv, CustodyIsOurs
  <2>4. CompanionsAreTrue'
    BY <1>c, <1>f, <2>1 DEF ReplayInv, CompanionsAreTrue, Committed, Attempt, turns
  <2>5. OperatorTypes' /\ Guarded'
    BY <1>b, <1>f, <2>1 DEF ReplayInv, OperatorTypes, Guarded
  <2> QED
    BY <2>2, <2>3, <2>4, <2>5 DEF ReplayInv
<1>2. CASE UNCHANGED <<place, edge, replayed>>
  <2>1. LedgerPart'
    BY <1>a, <1>c, <1>d, <1>2, ToolWalks DEF born, files
  <2>2. CustodyIsOurs' /\ CompanionsAreTrue'
    BY <1>c, <1>f, <1>2 DEF ReplayInv, CustodyIsOurs, CompanionsAreTrue, Committed, Attempt, turns
  <2>3. OperatorTypes' /\ Guarded'
    BY <1>f, <1>2 DEF ReplayInv, OperatorTypes, Guarded
  <2> QED
    BY <2>1, <2>2, <2>3 DEF ReplayInv
<1> QED
  BY <1>e, <1>1, <1>2

\* A companion is published for a turn whose envelope was the tool's.
LEMMA AnnotateKeeps == ReplayInv /\ (\E l \in Life : Annotate(l)) => ReplayInv'
<1> SUFFICES ASSUME ReplayInv, NEW l \in Life, Annotate(l) PROVE ReplayInv'
  OBVIOUS
<1>a. LedgerPart /\ TypeOK /\ StoreTypeOK
  BY DEF ReplayInv, LedgerPart, SpoolInv, TypeOK
<1>1. UNCHANGED <<born, turns, files, dead, flags, th, result, drain, env, runs, clocked,
                  unjoined, distant, replayed>>
  BY DEF Annotate, records
<1>2. faults' \in 0..MaxFaults
  BY <1>a, StoreOperations DEF Annotate
<1>3. LedgerPart'
  BY <1>a, <1>1, <1>2, ToolWalks
<1>4. companions' = companions \/ (companions' = companions \cup {l} /\ BodyIsOurs(l))
  BY DEF Annotate
<1>5. BodyIsOurs(l) => l \in replayed /\ Committed(Attempt(l))
  BY DEF BodyIsOurs, ReplayInv, CustodyIsOurs
<1>6. CompanionsAreTrue' /\ CustodyIsOurs'
  BY <1>1, <1>4, <1>5 DEF ReplayInv, CompanionsAreTrue, CustodyIsOurs, Committed, Attempt, turns,
     files
<1>7. op' \in OperatorState /\ op'.pc = "apply"
  <2>1. op \in OperatorState
    BY DEF ReplayInv, OperatorTypes
  <2> QED
    BY <2>1 DEF Annotate, OperatorState
<1>8. OperatorTypes' /\ Guarded'
  BY <1>1, <1>4, <1>7 DEF ReplayInv, OperatorTypes, Guarded
<1> QED
  BY <1>3, <1>6, <1>8 DEF ReplayInv

LEMMA OperatorKeeps == ReplayInv /\ Operator => ReplayInv'
<1> SUFFICES ASSUME ReplayInv, Operator PROVE ReplayInv'
  OBVIOUS
<1>a. op \in OperatorState /\ runs \in 0..MaxRuns /\ MaxRuns \in Nat
  BY ReplayAssumption DEF ReplayInv, OperatorTypes
<1>b. IdleOperator \in OperatorState /\ IdleOperator.pc = "idle"
  BY DEF IdleOperator, OperatorState
<1>1. CASE BuildManifest
  <2>1. Bodies \subseteq Life /\ Owed \subseteq Life /\ Len(chain) \in Nat
    BY DEF Bodies, Owed, ReplayInv, LedgerPart, SpoolInv, TypeOK, StoreTypeOK
  <2>2. op' = [pc |-> "built", head |-> Len(chain), bodies |-> Bodies, notes |-> Owed, sent |-> {},
               now |-> NoLife]
    BY <1>1 DEF BuildManifest, IdleOperator
  <2>3. op' \in OperatorState /\ op'.pc = "built"
    BY <2>1, <2>2 DEF OperatorState
  <2>4. runs' \in 0..MaxRuns
    BY <1>a, <1>1 DEF BuildManifest
  <2> QED
    BY <1>1, <2>3, <2>4, ToolKeeps DEF BuildManifest, Guarded
<1>2. CASE Apply
  <2>1. op' \in OperatorState /\ op'.pc # "publish"
    BY <1>a, <1>b, <1>2 DEF Apply, OperatorState
  <2> QED
    BY <1>a, <1>2, <2>1, ToolKeeps DEF Apply, Guarded
<1>3. ASSUME NEW l \in Life, GuardBody(l)
      PROVE  ReplayInv'
  <2>1. op' \in OperatorState
    BY <1>a, <1>3 DEF GuardBody, OperatorState
  <2>2. Guarded'
    <3> SUFFICES ASSUME op'.pc = "publish"
                 PROVE  Guarded'
      BY DEF Guarded
    <3>1. Replayable(l) /\ ~Authority(Attempt(l)) /\ op'.now = l
      BY <1>a, <1>3 DEF GuardBody, OperatorState
    <3>2. UNCHANGED <<dead, payload, place, chain>>
      BY <1>3 DEF GuardBody, vars, ledgerVars, born, files, turns
    <3>3. payload[l] # "marker"
      BY <3>1, Identities DEF Authority
    <3> QED
      BY <3>1, <3>2, <3>3 DEF Guarded, Replayable, Untaken, Committed, Attempt
  <2> QED
    BY <1>a, <1>3, <2>1, <2>2, ToolKeeps DEF GuardBody
<1>4. CASE EndRun \/ OperatorDies
  BY <1>a, <1>b, <1>4, ToolKeeps DEF EndRun, OperatorDies, Guarded
<1> QED
  BY <1>1, <1>2, <1>3, <1>4, PublishBodyKeeps, AnnotateKeeps DEF Operator

-----------------------------------------------------------------------------
(* Theorems                                                                *)

LEMMA ReplayStarts == ReplayInit => ReplayInv
<1> SUFFICES ASSUME ReplayInit PROVE ReplayInv
  OBVIOUS
<1>1. Init
  BY DEF ReplayInit
<1>2. SpoolInv
  BY <1>1, SpoolInit
<1>3. /\ chain = <<>> /\ dead = [l \in Life |-> "none"]
      /\ \A t \in Thread : th[t].pc = "idle" /\ th[t].reply = NoLife
  BY <1>1 DEF Init, StoreInit, IdleThread
<1>4a. UnfitInv /\ ToldInv
  BY <1>1 DEF Init, StoreInit, IdleThread, IdleDrain, UnfitInv, ReportsRefusal, ToldInv, Told
<1>4. DeadInv /\ MarkerInv /\ Unplaced
  BY <1>3 DEF DeadInv, ReportsRefusal, Claims, MarkerInv, MarkerSet, OneMarker, Committed, Unplaced
<1>5. OperatorTypes /\ Guarded /\ CompanionsAreTrue
  BY ReplayAssumption DEF ReplayInit, OperatorTypes, Guarded, CompanionsAreTrue, IdleOperator,
     OperatorState
<1>6. CustodyIsOurs
  BY <1>3 DEF CustodyIsOurs
<1> QED
  BY <1>2, <1>4, <1>4a, <1>5, <1>6 DEF ReplayInv, LedgerPart

LEMMA ReplaySteps == ReplayInv /\ [ReplayNext]_replayVars => ReplayInv'
<1> SUFFICES ASSUME ReplayInv, [ReplayNext]_replayVars PROVE ReplayInv'
  OBVIOUS
<1>1. CASE UNCHANGED replayVars
  BY <1>1, ToolKeeps DEF replayVars, ReplayInv, OperatorTypes, Guarded, vars, ledgerVars, born,
     turns, files, Untaken, Committed, Attempt
<1> QED
  BY <1>1, SystemKeeps, OperatorKeeps DEF ReplayNext

\* The invariant behind the others: the spool's, and that what the tool is
\* about to publish nobody else will take.
THEOREM ReplayInvariant == ReplaySpec => []ReplayInv
  BY ReplayStarts, ReplaySteps, PTL DEF ReplaySpec

\* Types of the ledger's files, the threads and the tool.
THEOREM ReplayTypes == ReplaySpec => []ReplayTypeOK
<1>1. ReplayInv => ReplayTypeOK
  BY DEF ReplayInv, LedgerPart, SpoolInv, OperatorTypes, ReplayTypeOK
<1> QED
  BY <1>1, ReplayInvariant, PTL

\* With the replay of dead letters, too, a submission is one turn, a turn
\* comes after the parent it names, the ends of an envelope are documented and
\* deserved, the marker is one and callers were told the truth, whenever the
\* tool runs or dies.
THEOREM ReplayKeepsTheLedger ==
    ReplaySpec => [](/\ OneTurnPerSubmission /\ ParentsFirst /\ EndsAreDocumented
                     /\ OneMarker /\ ToldIsKept)
<1>1. ReplayInv => /\ OneTurnPerSubmission /\ ParentsFirst /\ EndsAreDocumented
                   /\ OneMarker /\ ToldIsKept
  BY EndsFollow, TellingFollows DEF ReplayInv, LedgerPart, SpoolInv, FileInv, MarkerInv
<1> QED
  BY <1>1, ReplayInvariant, PTL

\* A companion is published only for a body that the tool published itself
\* and whose turn is there, whatever was committed behind its back.
THEOREM CompanionsTellTheTruth == ReplaySpec => []CompanionsAreTrue
<1>1. ReplayInv => CompanionsAreTrue
  BY DEF ReplayInv
<1> QED
  BY <1>1, ReplayInvariant, PTL

-----------------------------------------------------------------------------
(* The tool and LedgerAdmission                                            *)

\* A body is published from a submission that its dead letter keeps.
LEMMA BodyAdmits ==
    ASSUME ReplayInv, PublishBody
    PROVE  Orphaned \/ UNCHANGED Admission!avars
<1>1. PICK l \in Life : l = op.now /\ dead[l] = "failed" /\ Untaken(l) /\ Attempt(l) \in Sub
  BY Identities DEF PublishBody, ReplayInv, Guarded
<1>2. UNCHANGED <<chain, dead, unjoined>>
  BY DEF PublishBody, turns, records
<1>3. Reconstruct(l) \/ UNCHANGED <<place, edge>>
  BY <1>1 DEF PublishBody
<1>4. CASE UNCHANGED <<place, edge>>
  <2>1. UNCHANGED [s \in Sub |-> FateOf(s)]
    BY <1>2, <1>4, FateStays
  <2> QED
    BY <1>2, <1>4, <2>1 DEF Admission!avars
<1>5. CASE Reconstruct(l)
  <2> DEFINE a == Attempt(l)
  <2>1. /\ place[a] = "none" /\ ~Committed(a) /\ place' = [place EXCEPT ![a] = "pending"]
        /\ edge' = [edge EXCEPT ![a] = ReplayedEdge(l)]
    BY <1>1, <1>5 DEF Reconstruct, Untaken, Publish
  <2>2. LifeOf(a) = l
    BY <1>1, Identities
  <2>3. /\ place \in [Sub -> Place] /\ edge \in [Sub -> Sub \cup {NoSub}]
    BY DEF ReplayInv, LedgerPart, SpoolInv, TypeOK, StoreTypeOK
  <2>4. place'[a] = "pending" /\ \A s \in Sub : s # a => place'[s] = place[s]
    BY <1>1, <2>1, <2>3
  <2>0. Attempt(LifeOf(a)) = a /\ dead[LifeOf(a)] = "failed" /\ dead'[LifeOf(a)] = "failed"
    BY <1>1, <1>2, <2>2
  <2>5. FateOf(a) = "kept" /\ FateOf(a)' = "kept"
    <3>1. FateOf(a) = "kept"
      BY <2>0, <2>1 DEF FateOf
    <3>2. FateOf(a)' = "kept"
      BY <2>0, <2>4 DEF FateOf
    <3> QED
      BY <3>1, <3>2
  <2>6. \A s \in Sub : FateOf(s)' = FateOf(s)
    BY <1>2, <2>4, <2>5 DEF FateOf
  <2>7. UNCHANGED [s \in Sub |-> FateOf(s)]
    BY <2>6
  <2>8. CASE l \in unjoined
    BY <1>2, <2>1, <2>5, <2>7, <2>8 DEF Orphaned, ReplayedEdge, a
  <2>9. CASE l \notin unjoined
    <3>1. edge' = edge
      BY <1>1, <2>1, <2>3, <2>9 DEF ReplayedEdge, a
    <3> QED
      BY <1>2, <2>7, <3>1 DEF Admission!avars
  <2> QED
    BY <2>8, <2>9
<1> QED
  BY <1>3, <1>4, <1>5

LEMMA ReplayStepsAdmit ==
    ReplayInv /\ ReplayInv' /\ [ReplayNext]_replayVars
    => [Admission!Next \/ Orphaned]_(Admission!avars)
<1> SUFFICES ASSUME ReplayInv, ReplayInv', [ReplayNext]_replayVars
             PROVE  Admission!Next \/ Orphaned \/ UNCHANGED Admission!avars
  OBVIOUS
<1>1. CASE Next
  BY <1>1, StepsAdmit DEF ReplayInv, LedgerPart
<1>2. CASE PublishBody
  BY <1>2, BodyAdmits
<1>3. CASE UNCHANGED <<edge, chain, place, dead>>
  <2>1. UNCHANGED [s \in Sub |-> FateOf(s)]
    BY <1>3, FateStays
  <2> QED
    BY <1>3, <2>1 DEF Admission!avars
<1>4. ASSUME \/ BuildManifest \/ Apply \/ EndRun \/ OperatorDies \/ UNCHANGED replayVars
             \/ \E l \in Life : GuardBody(l) \/ Annotate(l)
      PROVE  UNCHANGED <<edge, chain, place, dead>>
  BY <1>4 DEF BuildManifest, Apply, EndRun, OperatorDies, GuardBody, Annotate, replayVars, vars,
     ledgerVars, born, turns, files
<1> QED
  BY <1>1, <1>2, <1>3, <1>4 DEF ReplayNext, Operator

\* With the tool at work the ledger keeps the promise of LedgerAdmission but
\* for the parent of a body whose dead letter keeps it outside the kwargs: no
\* submission is admitted twice, before its parent, or after it was refused,
\* whatever is replayed and whenever the tool dies (dead_letter_replay.py).
THEOREM ReplayIsAdmission == ReplaySpec => ReplayAdmits
<1>1. ReplayInit => Admission!Init
  BY Identities DEF ReplayInit, Init, StoreInit, Admission!Init, FateOf
<1> QED
  BY <1>1, ReplayInvariant, ReplayStepsAdmit, PTL DEF ReplaySpec, ReplayAdmits

\* As long as no dead letter has lost sight of its parent, the promise is kept
\* whole: the divergence of replay_unparented is the only one there is.
THEOREM JoinedReplayIsAdmission == ReplaySpec /\ [](unjoined = {}) => ImplementsAdmission
<1>1. ReplayInit => Admission!Init
  BY Identities DEF ReplayInit, Init, StoreInit, Admission!Init, FateOf
<1>2. unjoined = {} /\ [Admission!Next \/ Orphaned]_(Admission!avars) => [Admission!Next]_(Admission!avars)
  BY DEF Orphaned
<1> QED
  BY <1>1, <1>2, ReplayInvariant, ReplayStepsAdmit, PTL
     DEF ReplaySpec, ImplementsAdmission, Admission!Spec
=============================================================================
