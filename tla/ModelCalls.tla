----------------------------- MODULE ModelCalls -----------------------------
(***************************************************************************)
(* The model calls of the daemon's threads: a thread that speaks or thinks *)
(* goes through the gateway to the local model, and has what came of it    *)
(* audited by the grounding judge on its dedicated server, behind the      *)
(* circuit breaker.  A thread is in one of the two at a time.              *)
(***************************************************************************)
EXTENDS BrainGateway, CircuitBreaker

ASSUME AuditorsAreCallers == Auditor \subseteq Caller

vars == <<gatewayVars, breakerVars>>

Init == GatewayInit /\ BreakerInit

Brain(t) ==
    /\ t \in Auditor => admission[t] = "none"
    /\ GatewayStep(t)
    /\ UNCHANGED breakerVars

Judge(t) ==
    /\ pc[t] = "idle"
    /\ JudgeStep(t)
    /\ UNCHANGED gatewayVars

Clock == (CoolDown \/ Outage) /\ UNCHANGED gatewayVars

Next ==
    \/ \E t \in Caller : Brain(t)
    \/ \E t \in Auditor : Judge(t)
    \/ Clock

Spec == Init /\ [][Next]_vars

\* A thread that owns the slot, one that has a call to cancel and one that closes
\* a socket run on; a thread audits again and again, its calls have timeouts, and
\* the clock goes on.  Nothing is assumed of the model, nor of those who poll for
\* the slot.
Fairness ==
    /\ \A t \in Caller : /\ WF_vars(OwnerStep(t) /\ UNCHANGED breakerVars)
                         /\ WF_vars((\E u \in Caller : CancelTarget(t, u)) /\ UNCHANGED breakerVars)
                         /\ WF_vars(CloseStream(t) /\ UNCHANGED breakerVars)
    /\ \A t \in Auditor : WF_vars(Judge(t))
    /\ WF_vars(CoolDown /\ UNCHANGED gatewayVars)

FairSpec == Spec /\ Fairness
-----------------------------------------------------------------------------

\* Types of the gateway's and the breaker's state.
TypeOK == GatewayTypeOK /\ BreakerTypeOK

\* Once the server is back for good and one thread goes on auditing, the breaker
\* closes and stays closed, whatever failures were still on their way.
BreakerHeals ==
    (<>[]up /\ \E t \in Auditor : []<>(pc[t] = "idle")) => <>[](breaker = "closed")
=============================================================================
