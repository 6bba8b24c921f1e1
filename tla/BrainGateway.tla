---------------------------- MODULE BrainGateway ----------------------------
(***************************************************************************)
(* The gateway to the one local model (core/routing/brain_gateway.py and   *)
(* cancellable_brain_call.py): every buffered chat passes through a single *)
(* slot.  A caller of higher priority does not wait for a lower one: it    *)
(* asks for the cancellation of the call in flight and closes its stream   *)
(* from outside, again and again until the slot is free.  A closed socket  *)
(* ends the owner's reading like the end of the reply does, so what tells  *)
(* a cut reply from a whole one is the cancelled flag alone.               *)
(*                                                                         *)
(* A caller is a thread in submit.  Its calls are numbered: a preemptor    *)
(* that was slow holds the handle of a call that has ended since.          *)
(***************************************************************************)
EXTENDS Naturals

CONSTANTS
    Caller,
    NoCaller,
    Priority,   \* of each caller's purpose: foreground, background, neutral
    MaxCalls    \* bound on the calls of one caller

ASSUME GatewayAssumption ==
    /\ NoCaller \notin Caller
    /\ Priority \in [Caller -> Nat]
    /\ MaxCalls \in Nat

VARIABLES
    inFlight,   \* whose record is in the slot
    pc,         \* each caller's control point
    call,       \* how many calls it has made
    target,     \* the call it is about to cancel
    requested,  \* cancel_requested of its record
    handle,     \* its record's call is set
    cancelled,  \* the call's cancelled event
    closing,    \* a thread is closing its stream
    stream,     \* the raw stream, seen from outside
    reply       \* what its last submit came to

gatewayVars == <<inFlight, pc, call, target, requested, handle, cancelled, closing, stream, reply>>

\* The points between reserving the slot and releasing it.
Owning == {"start", "register", "selfcancel", "collect", "finish", "release"}
Point == {"idle", "reserve", "cancel", "join"} \cup Owning

NoTarget == [of |-> NoCaller, call |-> 0]

GatewayInit ==
    /\ inFlight = NoCaller
    /\ pc = [t \in Caller |-> "idle"]
    /\ call = [t \in Caller |-> 0]
    /\ target = [t \in Caller |-> NoTarget]
    /\ requested = [t \in Caller |-> FALSE]
    /\ handle = [t \in Caller |-> FALSE]
    /\ cancelled = [t \in Caller |-> FALSE]
    /\ closing = [t \in Caller |-> FALSE]
    /\ stream = [t \in Caller |-> "none"]
    /\ reply = [t \in Caller |-> "none"]

Step(t, from, to) == pc[t] = from /\ pc' = [pc EXCEPT ![t] = to]

\* call.cancel(): flag first, then a thread of its own closes the stream.
CancelCall(t) ==
    /\ cancelled' = [cancelled EXCEPT ![t] = TRUE]
    /\ closing' = [closing EXCEPT ![t] = TRUE]

-----------------------------------------------------------------------------
(* _reserve_slot                                                           *)

Submit(t) ==
    /\ Step(t, "idle", "reserve")
    /\ call[t] < MaxCalls
    /\ call' = [call EXCEPT ![t] = @ + 1]
    /\ reply' = [reply EXCEPT ![t] = "none"]
    /\ UNCHANGED <<inFlight, target, requested, handle, cancelled, closing, stream>>

\* A mutant of Reserve: whoever has asked the call in flight to go takes the slot.
ReserveOnRequest(t) ==
    /\ Step(t, "reserve", "start")
    /\ \/ inFlight = NoCaller
       \/ inFlight # NoCaller /\ Priority[t] > Priority[inFlight] /\ requested[inFlight]
    /\ inFlight' = t
    /\ requested' = [requested EXCEPT ![t] = FALSE]
    /\ handle' = [handle EXCEPT ![t] = FALSE]
    /\ cancelled' = [cancelled EXCEPT ![t] = FALSE]
    /\ closing' = [closing EXCEPT ![t] = FALSE]
    /\ stream' = [stream EXCEPT ![t] = "none"]
    /\ UNCHANGED <<call, target, reply>>

\* The slot is free: a new record, whose call does not exist yet.
Reserve(t) ==
    /\ Step(t, "reserve", "start")
    /\ inFlight = NoCaller
    /\ inFlight' = t
    /\ requested' = [requested EXCEPT ![t] = FALSE]
    /\ handle' = [handle EXCEPT ![t] = FALSE]
    /\ cancelled' = [cancelled EXCEPT ![t] = FALSE]
    /\ closing' = [closing EXCEPT ![t] = FALSE]
    /\ stream' = [stream EXCEPT ![t] = "none"]
    /\ UNCHANGED <<call, target, reply>>

\* A lower priority is in the slot: it is asked to go, and its call, if there
\* is one already, is taken to be cancelled outside the lock.  Otherwise the
\* caller polls again.
Preempt(t, u) ==
    /\ pc[t] = "reserve" /\ inFlight = u /\ Priority[t] > Priority[u]
    /\ requested' = [requested EXCEPT ![u] = TRUE]
    /\ IF handle[u]
       THEN /\ pc' = [pc EXCEPT ![t] = "cancel"]
            /\ target' = [target EXCEPT ![t] = [of |-> u, call |-> call[u]]]
       ELSE UNCHANGED <<pc, target>>
    /\ UNCHANGED <<inFlight, call, handle, cancelled, closing, stream, reply>>

\* The handle is still that of the call whose stream its owner reads.
Hits(t, u) == target[t] = [of |-> u, call |-> call[u]] /\ pc[u] \in {"collect", "finish"}

CancelTarget(t, u) ==
    /\ target[t].of = u
    /\ IF Hits(t, u)
       THEN Step(t, "cancel", "join") /\ CancelCall(u) /\ UNCHANGED target
       ELSE /\ Step(t, "cancel", "reserve")
            /\ target' = [target EXCEPT ![t] = NoTarget]
            /\ UNCHANGED <<cancelled, closing>>
    /\ UNCHANGED <<inFlight, call, requested, handle, stream, reply>>

\* The closer is waited for, but not longer than preempt_timeout_s.
Join(t) ==
    /\ Step(t, "join", "reserve")
    /\ target' = [target EXCEPT ![t] = NoTarget]
    /\ UNCHANGED <<inFlight, call, requested, handle, cancelled, closing, stream, reply>>

-----------------------------------------------------------------------------
(* submit: the owner of the slot                                           *)

\* run_streaming_fn raises, or yields a call.
Start(t) ==
    /\ \/ Step(t, "start", "register") /\ stream' = [stream EXCEPT ![t] = "open"] /\ UNCHANGED reply
       \/ Step(t, "start", "release") /\ reply' = [reply EXCEPT ![t] = "error"] /\ UNCHANGED stream
    /\ UNCHANGED <<inFlight, call, target, requested, handle, cancelled, closing>>

\* A mutant of Register: a request that came before the handle is overlooked.
RegisterUnchecked(t) ==
    /\ Step(t, "register", "collect")
    /\ handle' = [handle EXCEPT ![t] = TRUE]
    /\ UNCHANGED <<inFlight, call, target, requested, cancelled, closing, stream, reply>>

\* The handle is set and the request read under the lock.
Register(t) ==
    /\ Step(t, "register", IF requested[t] THEN "selfcancel" ELSE "collect")
    /\ handle' = [handle EXCEPT ![t] = TRUE]
    /\ UNCHANGED <<inFlight, call, target, requested, cancelled, closing, stream, reply>>

SelfCancel(t) ==
    /\ Step(t, "selfcancel", "collect")
    /\ CancelCall(t)
    /\ UNCHANGED <<inFlight, call, target, requested, handle, stream, reply>>

\* The reply is complete.
StreamEnds(t) ==
    /\ Step(t, "collect", "finish") /\ stream[t] = "open"
    /\ stream' = [stream EXCEPT ![t] = "ended"]
    /\ UNCHANGED <<inFlight, call, target, requested, handle, cancelled, closing, reply>>

\* The backend fails: an error, or a preemption when the call was cancelled.
StreamBreaks(t) ==
    /\ Step(t, "collect", "release")
    /\ reply' = [reply EXCEPT ![t] = IF cancelled[t] THEN "preempted" ELSE "error"]
    /\ UNCHANGED <<inFlight, call, target, requested, handle, cancelled, closing, stream>>

\* The next chunk of a cancelled call raises BrainPreempted.
NextChunk(t) ==
    /\ Step(t, "collect", "release") /\ stream[t] = "open" /\ cancelled[t]
    /\ reply' = [reply EXCEPT ![t] = "preempted"]
    /\ UNCHANGED <<inFlight, call, target, requested, handle, cancelled, closing, stream>>

\* A closed socket ends the iteration, without an error.
StreamCut(t) ==
    /\ Step(t, "collect", "finish") /\ stream[t] = "cut"
    /\ UNCHANGED <<inFlight, call, target, requested, handle, cancelled, closing, stream, reply>>

\* A mutant of Finish: what was collected is the reply.
FinishUnchecked(t) ==
    /\ Step(t, "finish", "release")
    /\ reply' = [reply EXCEPT ![t] = "whole"]
    /\ UNCHANGED <<inFlight, call, target, requested, handle, cancelled, closing, stream>>

\* After the last chunk: the cancelled flag once more.
Finish(t) ==
    /\ Step(t, "finish", "release")
    /\ reply' = [reply EXCEPT ![t] = IF cancelled[t] THEN "preempted" ELSE "whole"]
    /\ UNCHANGED <<inFlight, call, target, requested, handle, cancelled, closing, stream>>

\* _release_slot, in the finally: the slot only if it is still the record's.
Release(t) ==
    /\ Step(t, "release", "idle")
    /\ inFlight' = IF inFlight = t THEN NoCaller ELSE inFlight
    /\ UNCHANGED <<call, target, requested, handle, cancelled, closing, stream, reply>>

\* The closing thread shuts the socket down.
CloseStream(t) ==
    /\ closing[t]
    /\ closing' = [closing EXCEPT ![t] = FALSE]
    /\ stream' = [stream EXCEPT ![t] = IF @ = "open" THEN "cut" ELSE @]
    /\ UNCHANGED <<inFlight, pc, call, target, requested, handle, cancelled, reply>>

-----------------------------------------------------------------------------

\* The owner's own steps, whatever the backend does.
OwnerStep(t) ==
    Start(t) \/ Register(t) \/ SelfCancel(t) \/ StreamCut(t) \/ Finish(t) \/ Release(t)

GatewayStep(t) ==
    \/ Submit(t) \/ Reserve(t) \/ Join(t)
    \/ \E u \in Caller : Preempt(t, u) \/ CancelTarget(t, u)
    \/ OwnerStep(t)
    \/ StreamEnds(t) \/ StreamBreaks(t) \/ NextChunk(t) \/ CloseStream(t)

-----------------------------------------------------------------------------
(* Correctness                                                             *)

\* Types of the slot, the calls and the callers' control points.
GatewayTypeOK ==
    /\ inFlight \in Caller \cup {NoCaller}
    /\ pc \in [Caller -> Point]
    /\ call \in [Caller -> Nat]
    /\ target \in [Caller -> [of : Caller \cup {NoCaller}, call : Nat]]
    /\ requested \in [Caller -> BOOLEAN]
    /\ handle \in [Caller -> BOOLEAN]
    /\ cancelled \in [Caller -> BOOLEAN]
    /\ closing \in [Caller -> BOOLEAN]
    /\ stream \in [Caller -> {"none", "open", "cut", "ended"}]
    /\ reply \in [Caller -> {"none", "whole", "preempted", "error"}]

\* However preemptors come and go, at most one caller at a time is between
\* reserving the slot and releasing it.
OneCallInFlight ==
    \A t, u \in Caller : pc[t] \in Owning /\ pc[u] \in Owning => t = u

\* What submit returns is the model's whole reply, never what a preemptor's
\* close left of it.
RepliesAreWhole == \A t \in Caller : reply[t] = "whole" => stream[t] = "ended"

\* A call that was asked to go leaves the slot, even if the request came before
\* the call existed, and the model would talk on for ever.
PreemptedCallsLeave ==
    \A t \in Caller : (inFlight = t /\ requested[t]) ~> (inFlight # t)
=============================================================================
