------------------------- MODULE ModelCalls_proofs --------------------------
(***************************************************************************)
(* Proofs about ModelCalls, for any callers, priorities, numbers of calls  *)
(* and failure threshold: the gateway lets one call at a time into the     *)
(* model and never hands out a cut reply as a whole one; the breaker       *)
(* around the judge keeps its probe lock and its count of failures right.  *)
(*                                                                         *)
(* A thread is in the gateway or at the judge, so each half has an         *)
(* invariant of its own, and the other's steps leave it alone.             *)
(***************************************************************************)
EXTENDS ModelCalls, TLAPS

-----------------------------------------------------------------------------
(* The gateway's invariant                                                 *)

\* Who is between reserving and releasing is the record in the slot.
OwnersHoldTheSlot == \A t \in Caller : pc[t] \in Owning => inFlight = t

\* A stream is closed from outside only after the flag was set, and the owner
\* that has stopped reading stands before an ended or a cut stream: so the flag
\* tells them apart.
CutsAreFlagged ==
    \A t \in Caller :
        /\ closing[t] \/ stream[t] = "cut" => cancelled[t]
        /\ pc[t] = "finish" => stream[t] \in {"ended", "cut"}

\* A whole reply is the last call's, which has ended.
WholeAtTheEnd ==
    \A t \in Caller : reply[t] = "whole" => pc[t] \in {"release", "idle"} /\ stream[t] = "ended"

GatewayInv == GatewayTypeOK /\ OwnersHoldTheSlot /\ CutsAreFlagged /\ WholeAtTheEnd

LEMMA GatewayStarts == GatewayInit => GatewayInv
  BY DEF GatewayInit, GatewayInv, GatewayTypeOK, OwnersHoldTheSlot, CutsAreFlagged, WholeAtTheEnd,
         Point, Owning, NoTarget

LEMMA GatewayStepTyped ==
    ASSUME GatewayTypeOK, NEW t \in Caller, GatewayStep(t)
    PROVE  GatewayTypeOK'
<1>0. NoTarget \in [of : Caller \cup {NoCaller}, call : Nat]
  BY DEF NoTarget
<1>1. CASE Submit(t) \/ Reserve(t) \/ Join(t)
  <2>1. CASE Submit(t)
    BY <2>1 DEF Submit, Step, GatewayTypeOK, Point, Owning
  <2>2. CASE Reserve(t)
    BY <2>2 DEF Reserve, Step, GatewayTypeOK, Point, Owning
  <2>3. CASE Join(t)
    BY <1>0, <2>3 DEF Join, Step, GatewayTypeOK, Point, Owning
  <2> QED
    BY <1>1, <2>1, <2>2, <2>3
<1>2. ASSUME NEW u \in Caller, Preempt(t, u) PROVE GatewayTypeOK'
  BY <1>2 DEF Preempt, GatewayTypeOK, Point, Owning
<1>3. ASSUME NEW u \in Caller, CancelTarget(t, u) PROVE GatewayTypeOK'
  <2>1. CASE Hits(t, u)
    BY <1>3, <2>1 DEF CancelTarget, CancelCall, Step, GatewayTypeOK, Point, Owning
  <2>2. CASE ~Hits(t, u)
    BY <1>0, <1>3, <2>2 DEF CancelTarget, Step, GatewayTypeOK, Point, Owning
  <2> QED
    BY <2>1, <2>2
<1>4. CASE OwnerStep(t)
  BY <1>4 DEF OwnerStep, Start, Register, SelfCancel, CancelCall, StreamCut, Finish, Release,
              Step, GatewayTypeOK, Point, Owning
<1>5. CASE StreamEnds(t) \/ StreamBreaks(t) \/ NextChunk(t) \/ CloseStream(t)
  BY <1>5 DEF StreamEnds, StreamBreaks, NextChunk, CloseStream, Step, GatewayTypeOK, Point, Owning
<1> QED
  BY <1>1, <1>2, <1>3, <1>4, <1>5 DEF GatewayStep

LEMMA GatewayKeeps ==
    ASSUME GatewayInv, NEW t \in Caller, GatewayStep(t)
    PROVE  GatewayInv'
<1>0. GatewayTypeOK /\ GatewayTypeOK'
  BY GatewayStepTyped DEF GatewayInv
<1>1. CASE Submit(t) \/ Reserve(t) \/ Join(t)
  <2>1. OwnersHoldTheSlot'
    BY <1>0, <1>1, GatewayAssumption
       DEF Submit, Reserve, Join, Step, GatewayInv, GatewayTypeOK, OwnersHoldTheSlot, Owning
  <2>2. CutsAreFlagged'
    BY <1>0, <1>1 DEF Submit, Reserve, Join, Step, GatewayInv, GatewayTypeOK, CutsAreFlagged
  <2>3. WholeAtTheEnd'
    BY <1>0, <1>1 DEF Submit, Reserve, Join, Step, GatewayInv, GatewayTypeOK, WholeAtTheEnd
  <2> QED
    BY <1>0, <2>1, <2>2, <2>3 DEF GatewayInv
<1>2. ASSUME NEW u \in Caller, Preempt(t, u) \/ CancelTarget(t, u) PROVE GatewayInv'
  <2>1. OwnersHoldTheSlot'
    BY <1>0, <1>2
       DEF Preempt, CancelTarget, Step, GatewayInv, GatewayTypeOK, OwnersHoldTheSlot, Owning
  <2>2. CutsAreFlagged'
    BY <1>0, <1>2
       DEF Preempt, CancelTarget, CancelCall, Step, GatewayInv, GatewayTypeOK, CutsAreFlagged
  <2>3. WholeAtTheEnd'
    BY <1>0, <1>2 DEF Preempt, CancelTarget, Step, GatewayInv, GatewayTypeOK, WholeAtTheEnd
  <2> QED
    BY <1>0, <2>1, <2>2, <2>3 DEF GatewayInv
<1>3. CASE OwnerStep(t)
  <2>1. OwnersHoldTheSlot'
    BY <1>0, <1>3
       DEF OwnerStep, Start, Register, SelfCancel, StreamCut, Finish, Release, Step,
           GatewayInv, GatewayTypeOK, OwnersHoldTheSlot, Owning
  <2>2. CutsAreFlagged'
    BY <1>0, <1>3
       DEF OwnerStep, Start, Register, SelfCancel, CancelCall, StreamCut, Finish, Release, Step,
           GatewayInv, GatewayTypeOK, CutsAreFlagged
  <2>3. WholeAtTheEnd'
    <3>1. CASE Finish(t)
      BY <1>0, <3>1 DEF Finish, Step, GatewayInv, GatewayTypeOK, CutsAreFlagged, WholeAtTheEnd
    <3>2. CASE ~Finish(t)
      BY <1>0, <1>3, <3>2
         DEF OwnerStep, Start, Register, SelfCancel, StreamCut, Release, Step,
             GatewayInv, GatewayTypeOK, WholeAtTheEnd
    <3> QED
      BY <3>1, <3>2
  <2> QED
    BY <1>0, <2>1, <2>2, <2>3 DEF GatewayInv
<1>4. CASE StreamEnds(t) \/ StreamBreaks(t) \/ NextChunk(t) \/ CloseStream(t)
  <2>1. OwnersHoldTheSlot'
    BY <1>0, <1>4
       DEF StreamEnds, StreamBreaks, NextChunk, CloseStream, Step,
           GatewayInv, GatewayTypeOK, OwnersHoldTheSlot, Owning
  <2>2. CutsAreFlagged'
    BY <1>0, <1>4
       DEF StreamEnds, StreamBreaks, NextChunk, CloseStream, Step,
           GatewayInv, GatewayTypeOK, CutsAreFlagged
  <2>3. WholeAtTheEnd'
    BY <1>0, <1>4
       DEF StreamEnds, StreamBreaks, NextChunk, CloseStream, Step,
           GatewayInv, GatewayTypeOK, WholeAtTheEnd
  <2> QED
    BY <1>0, <2>1, <2>2, <2>3 DEF GatewayInv
<1> QED
  BY <1>1, <1>2, <1>3, <1>4 DEF GatewayStep

-----------------------------------------------------------------------------
(* The breaker's invariant                                                 *)

BreakerInv == BreakerTypeOK /\ ProbeLockIsTheProbes /\ ClosedIsBelowThreshold

LEMMA NoFailures == 0 \in 0..Threshold
  BY BreakerAssumption

LEMMA BreakerStarts == BreakerInit => BreakerInv
<1> SUFFICES ASSUME BreakerInit PROVE BreakerInv
  OBVIOUS
<1>1. BreakerTypeOK
  BY NoFailures DEF BreakerInit, BreakerTypeOK
<1>2. ProbeLockIsTheProbes
  BY DEF BreakerInit, ProbeLockIsTheProbes
<1>3. ClosedIsBelowThreshold
  BY BreakerAssumption DEF BreakerInit, ClosedIsBelowThreshold
<1> QED
  BY <1>1, <1>2, <1>3 DEF BreakerInv

LEMMA BreakerStepTyped ==
    ASSUME BreakerTypeOK, NEW t \in Auditor, JudgeStep(t)
    PROVE  BreakerTypeOK'
<1>1. CASE Admit(t)
  BY <1>1 DEF Admit, Computed, BreakerTypeOK
<1>2. ASSUME NEW result \in {"verdict", "malformed", "failure"}, CallEnds(t, result)
      PROVE  BreakerTypeOK'
  BY <1>2 DEF CallEnds, BreakerTypeOK
<1>3. CASE RecordProbeSuccess(t) \/ RecordSuccess(t)
  <2>1. CASE RecordProbeSuccess(t)
    BY <2>1, NoFailures DEF RecordProbeSuccess, Recorded, BreakerTypeOK
  <2>2. CASE RecordSuccess(t)
    BY <2>2 DEF RecordSuccess, Recorded, BreakerTypeOK
  <2> QED
    BY <1>3, <2>1, <2>2
<1>4. CASE RecordFailure(t)
  <2>1. PICK kept \in 0..failures :
          failures' = IF kept + 1 > Threshold THEN Threshold ELSE kept + 1
    BY <1>4 DEF RecordFailure
  <2>2. failures' \in 0..Threshold
    BY <2>1, BreakerAssumption DEF BreakerTypeOK
  <2>3. breaker' \in {"closed", "open", "half_open"} /\ cooled' \in BOOLEAN
    BY <1>4 DEF RecordFailure, BreakerTypeOK
  <2>4. probing' \in BOOLEAN
    BY <1>4 DEF RecordFailure
  <2> QED
    BY <1>4, <2>2, <2>3, <2>4 DEF RecordFailure, Recorded, BreakerTypeOK
<1> QED
  BY <1>1, <1>2, <1>3, <1>4 DEF JudgeStep

LEMMA BreakerKeeps ==
    ASSUME BreakerInv, NEW t \in Auditor, JudgeStep(t)
    PROVE  BreakerInv'
<1>0. BreakerTypeOK /\ BreakerTypeOK'
  BY BreakerStepTyped DEF BreakerInv
<1>1. ProbeLockIsTheProbes'
  <2>1. CASE Admit(t)
    BY <1>0, <2>1 DEF Admit, BreakerInv, BreakerTypeOK, ProbeLockIsTheProbes
  <2>2. ASSUME NEW result \in {"verdict", "malformed", "failure"}, CallEnds(t, result)
        PROVE  ProbeLockIsTheProbes'
    BY <2>2 DEF CallEnds, BreakerInv, ProbeLockIsTheProbes
  <2>3. CASE RecordProbeSuccess(t)
    BY <1>0, <2>3
       DEF RecordProbeSuccess, Recorded, BreakerInv, BreakerTypeOK, ProbeLockIsTheProbes
  <2>4. CASE RecordSuccess(t)
    BY <1>0, <2>4
       DEF RecordSuccess, Recorded, BreakerInv, BreakerTypeOK, ProbeLockIsTheProbes
  <2>5. CASE RecordFailure(t)
    BY <1>0, <2>5
       DEF RecordFailure, Recorded, BreakerInv, BreakerTypeOK, ProbeLockIsTheProbes
  <2> QED
    BY <2>1, <2>2, <2>3, <2>4, <2>5 DEF JudgeStep
<1>2. ClosedIsBelowThreshold'
  <2>1. CASE Admit(t)
    BY <1>0, <2>1 DEF Admit, Computed, BreakerInv, ClosedIsBelowThreshold
  <2>2. ASSUME NEW result \in {"verdict", "malformed", "failure"}, CallEnds(t, result)
        PROVE  ClosedIsBelowThreshold'
    BY <2>2 DEF CallEnds, BreakerInv, ClosedIsBelowThreshold
  <2>3. CASE RecordProbeSuccess(t) \/ RecordSuccess(t)
    BY <2>3, BreakerAssumption
       DEF RecordProbeSuccess, RecordSuccess, BreakerInv, ClosedIsBelowThreshold
  <2>4. CASE RecordFailure(t)
    BY <1>0, <2>4, BreakerAssumption
       DEF RecordFailure, BreakerInv, BreakerTypeOK, ClosedIsBelowThreshold
  <2> QED
    BY <2>1, <2>2, <2>3, <2>4 DEF JudgeStep
<1> QED
  BY <1>0, <1>1, <1>2 DEF BreakerInv

LEMMA ClockKeeps ==
    ASSUME BreakerInv, CoolDown \/ Outage
    PROVE  BreakerInv'
<1>1. BreakerTypeOK'
  BY DEF CoolDown, Outage, BreakerInv, BreakerTypeOK
<1>2. ProbeLockIsTheProbes'
  BY DEF CoolDown, Outage, BreakerInv, ProbeLockIsTheProbes
<1>3. ClosedIsBelowThreshold'
  BY DEF CoolDown, Outage, BreakerInv, ClosedIsBelowThreshold
<1> QED
  BY <1>1, <1>2, <1>3 DEF BreakerInv

-----------------------------------------------------------------------------
(* Both halves together                                                    *)

Inv == GatewayInv /\ BreakerInv

LEMMA InvInit == Init => Inv
  BY GatewayStarts, BreakerStarts DEF Init, Inv

LEMMA GatewayRests ==
    ASSUME GatewayInv, UNCHANGED gatewayVars
    PROVE  GatewayInv'
  BY DEF gatewayVars, GatewayInv, GatewayTypeOK, OwnersHoldTheSlot, CutsAreFlagged, WholeAtTheEnd

LEMMA BreakerRests ==
    ASSUME BreakerInv, UNCHANGED breakerVars
    PROVE  BreakerInv'
  BY DEF breakerVars, BreakerInv, BreakerTypeOK, ProbeLockIsTheProbes, ClosedIsBelowThreshold

LEMMA InvStep == Inv /\ [Next]_vars => Inv'
<1> SUFFICES ASSUME Inv, [Next]_vars PROVE Inv'
  OBVIOUS
<1>1. ASSUME NEW t \in Caller, Brain(t) PROVE Inv'
  BY <1>1, GatewayKeeps, BreakerRests DEF Brain, Inv
<1>2. ASSUME NEW t \in Auditor, Judge(t) PROVE Inv'
  BY <1>2, BreakerKeeps, GatewayRests DEF Judge, Inv
<1>3. CASE Clock
  BY <1>3, ClockKeeps, GatewayRests DEF Clock, Inv
<1>4. CASE UNCHANGED vars
  BY <1>4, GatewayRests, BreakerRests DEF vars, Inv
<1> QED
  BY <1>1, <1>2, <1>3, <1>4 DEF Next

LEMMA Invariant == Spec => []Inv
  BY InvInit, InvStep, PTL DEF Spec

-----------------------------------------------------------------------------
(* Theorems                                                                *)

\* The slot, the calls, the breaker and the calls to the judge keep their types.
THEOREM CallTypes == Spec => []TypeOK
<1>1. Inv => TypeOK
  BY DEF Inv, GatewayInv, BreakerInv, TypeOK
<1> QED
  BY <1>1, Invariant, PTL

\* However many preemptors ask, give up or come late with the handle of a call
\* that has ended, the model serves one call at a time.
THEOREM OneAtATime == Spec => []OneCallInFlight
<1>1. Inv => OneCallInFlight
  BY DEF Inv, GatewayInv, OwnersHoldTheSlot, OneCallInFlight
<1> QED
  BY <1>1, Invariant, PTL

\* A reply cut short by a preemptor's close is never returned as the reply,
\* although the closed socket ends the reading as the end of the reply does.
THEOREM NoCutReply == Spec => []RepliesAreWhole
<1>1. Inv => RepliesAreWhole
  BY DEF Inv, GatewayInv, WholeAtTheEnd, RepliesAreWhole
<1> QED
  BY <1>1, Invariant, PTL

\* The probe lock is neither leaked nor shared, in whatever order late outcomes
\* arrive: a half-open breaker can always be probed again.
THEOREM ProbeLock == Spec => []ProbeLockIsTheProbes
<1>1. Inv => ProbeLockIsTheProbes
  BY DEF Inv, BreakerInv
<1> QED
  BY <1>1, Invariant, PTL

\* A breaker that is closed has fewer failures behind it than open it.
THEOREM ClosedBreaker == Spec => []ClosedIsBelowThreshold
<1>1. Inv => ClosedIsBelowThreshold
  BY DEF Inv, BreakerInv
<1> QED
  BY <1>1, Invariant, PTL
=============================================================================
