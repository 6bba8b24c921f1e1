--------------------------- MODULE CircuitBreaker ---------------------------
(***************************************************************************)
(* The circuit breaker (core/health/circuit_breaker.py) around the calls   *)
(* of the dedicated grounding judge (core/cognition/grounding_judge.py).   *)
(* Admission and the recording of an outcome are each one step under the   *)
(* breaker's lock; the call itself runs outside it, so outcomes arrive     *)
(* late, in any order, and in a state other than the one that let them in. *)
(*                                                                         *)
(* Failures age out of the window when the next one is recorded; beyond    *)
(* the threshold their number makes no difference and is not kept.         *)
(***************************************************************************)
EXTENDS Naturals

CONSTANTS
    Auditor,     \* threads that call the judge
    Threshold    \* failure_threshold

ASSUME BreakerAssumption == Threshold \in Nat \ {0}

VARIABLES
    breaker,    \* the stored state
    cooled,     \* cooldown_s have passed since it was last opened
    failures,   \* failures in the window
    probing,    \* the probe lock is held
    admission,  \* how each thread's call was admitted
    answer,     \* what came of the call
    up          \* the judge's server answers

breakerVars == <<breaker, cooled, failures, probing, admission, answer, up>>

BreakerInit ==
    /\ breaker = "closed" /\ cooled = FALSE /\ failures = 0 /\ probing = FALSE
    /\ admission = [t \in Auditor |-> "none"]
    /\ answer = [t \in Auditor |-> "none"]
    /\ up = TRUE

\* _compute_state_locked.
Computed == IF breaker = "open" /\ cooled THEN "half_open" ELSE breaker

\* _admit: a closed breaker admits everyone, a half-open one a single probe.
\* Others raise CircuitOpen, which reads as an unavailable judge.
Admit(t) ==
    /\ admission[t] = "none"
    /\ breaker' = Computed
    /\ \/ Computed = "closed" /\ admission' = [admission EXCEPT ![t] = "closed"] /\ UNCHANGED probing
       \/ /\ Computed = "half_open" /\ ~probing
          /\ admission' = [admission EXCEPT ![t] = "probe"] /\ probing' = TRUE
       \/ /\ Computed = "open" \/ (Computed = "half_open" /\ probing)
          /\ UNCHANGED <<admission, probing>>
    /\ UNCHANGED <<cooled, failures, answer, up>>

\* The call ends: with a verdict, with a malformed body, which is not counted,
\* or with a transport failure when the server is down.
CallEnds(t, result) ==
    /\ admission[t] # "none" /\ answer[t] = "none"
    /\ result = "failure" <=> ~up
    /\ answer' = [answer EXCEPT ![t] = result]
    /\ UNCHANGED <<breaker, cooled, failures, probing, admission, up>>

Recorded(t) ==
    /\ admission' = [admission EXCEPT ![t] = "none"]
    /\ answer' = [answer EXCEPT ![t] = "none"]

\* A mutant of RecordProbeSuccess: a malformed body changes nothing.
RecordProbeVerdict(t) ==
    /\ admission[t] = "probe" /\ answer[t] \in {"verdict", "malformed"}
    /\ IF answer[t] = "verdict" THEN breaker' = "closed" /\ failures' = 0 /\ probing' = FALSE
       ELSE UNCHANGED <<breaker, failures, probing>>
    /\ Recorded(t)
    /\ UNCHANGED <<cooled, up>>

\* A mutant of RecordProbeSuccess: the history of failures is kept.
RecordProbeKeepingHistory(t) ==
    /\ admission[t] = "probe" /\ answer[t] \in {"verdict", "malformed"}
    /\ breaker' = "closed" /\ probing' = FALSE
    /\ Recorded(t)
    /\ UNCHANGED <<cooled, failures, up>>

\* _record_success of a probe, and of one whose answer was malformed.
RecordProbeSuccess(t) ==
    /\ admission[t] = "probe" /\ answer[t] \in {"verdict", "malformed"}
    /\ breaker' = "closed" /\ failures' = 0 /\ probing' = FALSE
    /\ Recorded(t)
    /\ UNCHANGED <<cooled, up>>

\* A call admitted while closed changes nothing when it answers.
RecordSuccess(t) ==
    /\ admission[t] = "closed" /\ answer[t] \in {"verdict", "malformed"}
    /\ Recorded(t)
    /\ UNCHANGED <<breaker, cooled, failures, probing, up>>

\* _record_failure: a failed probe opens the breaker again, another failure
\* when the window holds enough; both start the cooldown anew, whatever the
\* state was.
RecordFailure(t) ==
    /\ admission[t] # "none" /\ answer[t] = "failure"
    /\ \E kept \in 0..failures :
         LET n == IF kept + 1 > Threshold THEN Threshold ELSE kept + 1
         IN /\ failures' = n
            /\ IF admission[t] = "probe" \/ n >= Threshold
               THEN breaker' = "open" /\ cooled' = FALSE
               ELSE UNCHANGED <<breaker, cooled>>
    /\ probing' = (probing /\ admission[t] # "probe")
    /\ Recorded(t)
    /\ UNCHANGED up

\* The clock passes the cooldown; the server goes down or comes back.
CoolDown ==
    /\ breaker = "open" /\ ~cooled
    /\ cooled' = TRUE
    /\ UNCHANGED <<breaker, failures, probing, admission, answer, up>>

Outage ==
    /\ up' = ~up
    /\ UNCHANGED <<breaker, cooled, failures, probing, admission, answer>>

JudgeStep(t) ==
    \/ Admit(t)
    \/ \E result \in {"verdict", "malformed", "failure"} : CallEnds(t, result)
    \/ RecordProbeSuccess(t) \/ RecordSuccess(t) \/ RecordFailure(t)

-----------------------------------------------------------------------------
(* Correctness                                                             *)

\* Types of the breaker's state and of the calls under way.
BreakerTypeOK ==
    /\ breaker \in {"closed", "open", "half_open"}
    /\ cooled \in BOOLEAN /\ probing \in BOOLEAN /\ up \in BOOLEAN
    /\ failures \in 0..Threshold
    /\ admission \in [Auditor -> {"none", "closed", "probe"}]
    /\ answer \in [Auditor -> {"none", "verdict", "malformed", "failure"}]

\* The probe lock is held exactly while one call is the probe: it is neither
\* leaked by an outcome nor released under a probe by a late one.
ProbeLockIsTheProbes ==
    /\ probing <=> \E t \in Auditor : admission[t] = "probe"
    /\ \A t, u \in Auditor : admission[t] = "probe" /\ admission[u] = "probe" => t = u

\* A closed breaker is not already due to open: late failures, failed probes
\* and recovered ones leave fewer failures than the threshold behind it.
ClosedIsBelowThreshold == breaker = "closed" => failures < Threshold

=============================================================================
