------------------------ MODULE ConsentSpine_proofs ------------------------
(***************************************************************************)
(* Proofs about ConsentSpine, for any number of turns, surfacings, cards,  *)
(* threads and crashes: what consent does to the cards is what the decision*)
(* pipeline may do, so all that is proved of CardPipeline holds with       *)
(* consent beside it; an answer is put into effect at most once; and a     *)
(* receipt of success is true.                                             *)
(*                                                                         *)
(* That an answer takes effect once is not inductive: it rests on there    *)
(* being one turn at a time between the echo and its mark, and on a row    *)
(* never being asked again once it was echoed.  That a receipt is true     *)
(* rests on what the pipeline's handler can say of the card when it ends   *)
(* the request (AuditInv), and on that staying true while the answer, the  *)
(* reread and the receipt follow, each some steps of others later.         *)
(***************************************************************************)
EXTENDS ConsentSpine, CardPipeline_proofs, FiniteSetTheorems

-----------------------------------------------------------------------------
(* The inductive invariant                                                 *)

\* The rows asked so far are the first ones, so that the latest is their number.
RowsInOrder ==
    \E n \in 0..MaxSurfacings :
        \A s \in Surfacing : surf[s].state # "none" <=> s <= n

\* The decision a surfacing was echoed with is put into effect.
InEffect(s) ==
    IF said[s] = "approve" THEN runs[surf[s].card] = 1 \/ satisfied[surf[s].card]
    ELSE status[surf[s].card] = "denied"

\* Nothing came yet of asking s.
Untouched(s) == attempts[s] = 0 /\ http[s] = "none" /\ receipt[s] = "none"

\* What a row says: it asks about a card, nothing came of it before it was
\* echoed, its request is for its own card, and a success is one.
RowOK(s) ==
    /\ surf[s].state # "none" => surf[s].card \in Card
    /\ surf[s].state \in {"none", "active"} => Untouched(s)
    /\ attempts[s] <= 1
    /\ http[s] \in {"sent", "serving"} => said[s] = "approve"
    /\ http[s] = "serving" => th[Cockpit].pc # "idle" /\ th[Cockpit].card = surf[s].card
    /\ http[s] = "yes" => said[s] = "approve" /\ InEffect(s)
    /\ receipt[s] = "resolved" => InEffect(s)

InTail(u) == turn[u].pc \in Tail

\* What a turn that resolves a surfacing says: it has echoed it, has not acted
\* on it before it is to, and success is one.
TurnOK(u) ==
    /\ Of(u) \in Surfacing /\ surf[Of(u)].state = "resolving"
    /\ Is(u, "rails") \/ Is(u, "act") => Untouched(Of(u))
    /\ Is(u, "reread") /\ turn[u].ok => InEffect(Of(u))

\* A turn has a result in hand only after it acted.
ResultsLate == \A u \in Turn : turn[u].ok => Is(u, "reread") \/ Is(u, "mark")

TurnsOK == ResultsLate /\ \A u \in Turn : InTail(u) => TurnOK(u)

\* The event loop is not given up between the echo and the mark.
OneTurnResolves == \A u, v \in Turn : InTail(u) /\ InTail(v) => u = v

RowsOK == RowsInOrder /\ \A s \in Surfacing : RowOK(s)

ConsentRules == RowsOK /\ TurnsOK /\ OneTurnResolves

ConsentInv == AuditInv /\ ConsentTypeOK /\ ConsentRules

-----------------------------------------------------------------------------
(* Rows                                                                    *)

\* The latest row is the number of rows.
LEMMA LatestRow ==
    ASSUME ConsentTypeOK, RowsInOrder
    PROVE  /\ Latest \in 0..MaxSurfacings
           /\ \A s \in Surfacing : surf[s].state # "none" <=> s <= Latest
<1>1. PICK n \in 0..MaxSurfacings : \A s \in Surfacing : surf[s].state # "none" <=> s <= n
  BY DEF RowsInOrder
<1>2. {s \in Surfacing : surf[s].state # "none"} = 1..n
  BY <1>1, ConsentAssumption DEF Surfacing
<1>3. n \in Int /\ 1 \in Int /\ (IF 1 > n THEN 0 ELSE n - 1 + 1) = n
  BY <1>1, ConsentAssumption
<1>4. Latest = n
  BY <1>2, <1>3, FS_Interval DEF Latest
<1> QED
  BY <1>1, <1>4

\* The types of the consent database alone.
ConsentDbTypes ==
    /\ surf \in [Surfacing -> [card : Card \cup {NoCard},
                  state : {"none", "active", "expired", "resolving", "resolved"}]]
    /\ late \in [Surfacing -> BOOLEAN]
    /\ flow \in {"IDLE", "PRIMED", "CARD_SURFACED", "RESOLVING", "RESOLVED"}
    /\ due \in BOOLEAN
    /\ said \in [Surfacing -> {"none", "approve", "deny"}]
    /\ attempts \in [Surfacing -> Nat]
    /\ http \in [Surfacing -> {"none", "sent", "serving", "yes", "no"}]
    /\ receipt \in [Surfacing -> {"none", "resolved", "unconfirmed", "refused"}]
    /\ turn \in [Turn -> TurnState]

\* What is in effect stays so, whatever the pipeline does.
LEMMA EffectLasts ==
    ASSUME ConsentTypeOK, Persist, NEW s \in Surfacing, surf[s].card \in Card, InEffect(s),
           surf'[s].card = surf[s].card, said'[s] = said[s]
    PROVE  InEffect(s)'
  BY DEF InEffect, Persist

\* The HTTP server keeps to the card it serves for s, or does not serve s.
ServerKept(s) ==
    http'[s] = "serving" =>
        /\ http[s] = "serving"
        /\ th'[Cockpit].pc # "idle" /\ th'[Cockpit].card = th[Cockpit].card

\* A row whose columns stay, or that settles, is as good as before.
LEMMA RowKept ==
    ASSUME ConsentTypeOK, Persist, NEW s \in Surfacing, RowOK(s),
           surf'[s].card = surf[s].card, said'[s] = said[s], attempts'[s] = attempts[s],
           http'[s] = http[s], receipt'[s] = receipt[s],
           surf[s].state = "none" => surf'[s].state = "none",
           surf'[s].state \in {"none", "active"} => surf[s].state \in {"none", "active"},
           ServerKept(s)
    PROVE  RowOK(s)'
<1>1. surf[s].state # "none" => surf[s].card \in Card /\ surf'[s].card \in Card
  BY DEF RowOK
<1>2. surf[s].state = "none" => http[s] = "none" /\ receipt[s] = "none"
  BY DEF RowOK, Untouched
<1>3. http[s] = "yes" \/ receipt[s] = "resolved" => InEffect(s)'
  BY <1>1, <1>2, EffectLasts DEF RowOK
<1>4. attempts[s] \in Nat
  BY DEF ConsentTypeOK
<1> QED
  BY <1>1, <1>3, <1>4 DEF RowOK, Untouched, ServerKept

\* A turn that waits while its row is left alone is as good as before.
LEMMA TurnKept ==
    ASSUME ConsentTypeOK, Persist, NEW u \in Turn, TurnOK(u), turn'[u] = turn[u],
           \A s \in Surfacing : RowOK(s),
           \A s \in Surfacing :
              /\ surf[s].state = "resolving" => surf'[s] = surf[s]
              /\ said'[s] = said[s] /\ attempts'[s] = attempts[s] /\ receipt'[s] = receipt[s]
              /\ http[s] = "none" => http'[s] = "none"
    PROVE  TurnOK(u)'
<1>1. Of(u) \in Surfacing /\ surf[Of(u)].state = "resolving" /\ Of(u)' = Of(u)
  BY DEF TurnOK, Of
<1>2. surf[Of(u)].card \in Card
  BY <1>1 DEF RowOK
<1>3. InEffect(Of(u)) => InEffect(Of(u))'
  <2>1. PICK s \in Surfacing : s = Of(u)
    BY <1>1
  <2>2. InEffect(s) => InEffect(s)'
    BY <1>1, <1>2, <2>1, EffectLasts
  <2> QED
    BY <1>1, <2>1, <2>2 DEF InEffect
<1> QED
  BY <1>1, <1>3 DEF TurnOK, Is, Untouched, Of

-----------------------------------------------------------------------------
(* What consent does to the pipeline                                       *)

\* Consent's steps are the pipeline's, or leave it alone: an echoed approval is
\* a client of the approve endpoint, an echoed denial one of the store's deny.
LEMMA PipelineStep ==
    ASSUME ConsentInv, [ConsentNext]_allVars
    PROVE  [Next]_vars
<1>1. ASSUME NEW u \in Turn, Snapshot(u) \/ Handling(u)
      PROVE  UNCHANGED vars
  BY <1>1 DEF Snapshot, Handling, Echo, Surface, Prime, Unresolved, BrainFails
<1>2. ASSUME NEW u \in Turn, Resolving(u)
      PROVE  [Next]_vars
  <2>1. ASSUME ConsentDeny(u)
        PROVE  [Next]_vars
    <3>1. InTail(u) /\ TurnOK(u)
      BY <2>1 DEF ConsentDeny, ConsentInv, ConsentRules, TurnsOK, InTail, Tail, Is
    <3>2. surf[Of(u)].card \in Card
      BY <3>1 DEF ConsentInv, ConsentRules, RowsOK, RowOK, TurnOK
    <3>3. CASE Deny(surf[Of(u)].card)
      BY <2>1, <3>2, <3>3, ConsentAssumption DEF ConsentDeny, WebDeny, Next
    <3>4. CASE Refused(surf[Of(u)].card, "deny")
      BY <2>1, <3>4 DEF ConsentDeny, Refused, vars
    <3> QED
      BY <2>1, <3>3, <3>4 DEF ConsentDeny
  <2> QED
    BY <1>2, <2>1 DEF Resolving, Rails, Request, Answer, Timeout, Reread, Mark
<1>3. ASSUME NEW s \in Surfacing, Serve(s)
      PROVE  [Next]_vars
  <2>1. surf[s].card \in Card
    BY <1>3 DEF Serve, ConsentInv, ConsentRules, RowsOK, RowOK, Untouched
  <2>2. CASE status[surf[s].card] \in Awaiting /\ ~RequiresS7(surf[s].card)
    <3>1. CockpitApprove(surf[s].card)
      BY <1>3, <2>2, ConsentAssumption DEF Serve, CockpitApprove
    <3> QED
      BY <2>1, <3>1 DEF Next
  <2>3. CASE ~(status[surf[s].card] \in Awaiting /\ ~RequiresS7(surf[s].card))
    BY <1>3, <2>3 DEF Serve, vars
  <2> QED
    BY <2>2, <2>3
<1>4. ASSUME ServeOn
      PROVE  Next
  BY <1>4 DEF ServeOn, Next
<1>5. ASSUME Elsewhere
      PROVE  Next
  <2>1. BoundChat \in Chats /\ FALSE \in BOOLEAN
    BY ConsentAssumption DEF Chats
  <2>2. CASE \E t \in Thread, k \in Kind : Propose(t, k, BoundChat, FALSE)
    BY <2>1, <2>2 DEF Next
  <2>3. CASE \E t \in Thread : Present(t)
    BY <2>3 DEF Next
  <2>4. CASE \E c \in Card : CockpitApprove(c) \/ WebDeny(c)
    BY <2>4 DEF Next
  <2> QED
    BY <1>5, <2>2, <2>3, <2>4 DEF Elsewhere
<1>6. Lapse => UNCHANGED vars
  BY DEF Lapse
<1>7. ConsentCrash => Next
  BY DEF ConsentCrash, Next
<1>8. UNCHANGED allVars => UNCHANGED vars
  BY DEF allVars
<1> QED
  BY <1>1, <1>2, <1>3, <1>4, <1>5, <1>6, <1>7, <1>8 DEF ConsentNext

\* The pipeline's invariant is kept, and what is said of a card stays true.
LEMMA PipelineKeeps ==
    ASSUME ConsentInv, [ConsentNext]_allVars
    PROVE  AuditInv' /\ Persist /\ TypeOK'
<1>1. [Next]_vars /\ AuditInv
  BY PipelineStep DEF ConsentInv
<1>2. AuditInv'
  BY <1>1, AuditStep
<1>3. ASSUME Next PROVE Persist
  BY <1>1, <1>2, <1>3, Persists DEF AuditInv
<1>4. ASSUME UNCHANGED vars PROVE Persist
  BY <1>4 DEF vars, cardVars, columns, stores, Persist
<1> QED
  BY <1>1, <1>2, <1>3, <1>4 DEF AuditInv, RunInv, Base

-----------------------------------------------------------------------------
(* Types                                                                   *)

\* The pieces of a turn's record that its steps write.
LEMMA TurnTypes ==
    ASSUME ConsentTypeOK, NEW u \in Turn
    PROVE  /\ turn[u] \in TurnState /\ NoTurn \in TurnState
           /\ EndTurn(u) => turn' \in [Turn -> TurnState]
           /\ \A point \in {"idle", "brain"} \cup Tail :
                Proceed(u, point) => turn' \in [Turn -> TurnState]
           /\ \A ok \in BOOLEAN :
                turn' = [turn EXCEPT ![u].pc = "reread", ![u].ok = ok]
                => turn' \in [Turn -> TurnState]
<1>1. turn \in [Turn -> TurnState] /\ turn[u] \in TurnState
  BY DEF ConsentTypeOK
<1>2. NoTurn \in TurnState
  BY DEF NoTurn, TurnState
<1>3. \A point \in {"idle", "brain"} \cup Tail : [turn[u] EXCEPT !.pc = point] \in TurnState
  BY <1>1 DEF TurnState
<1>4. \A ok \in BOOLEAN : [turn[u] EXCEPT !.pc = "reread", !.ok = ok] \in TurnState
  BY <1>1 DEF TurnState, Tail
<1>5. ASSUME NEW ok \in BOOLEAN, turn' = [turn EXCEPT ![u].pc = "reread", ![u].ok = ok]
      PROVE  turn' \in [Turn -> TurnState]
  <2>1. turn' = [turn EXCEPT ![u] = [turn[u] EXCEPT !.pc = "reread", !.ok = ok]]
    BY <1>1, <1>5
  <2> QED
    BY <1>1, <1>4, <2>1
<1> QED
  BY <1>1, <1>2, <1>3, <1>5 DEF EndTurn, Proceed

\* Sweeping the rows, settling one and asking a new one.
LEMMA RowTypes ==
    ASSUME ConsentTypeOK, RowsInOrder
    PROVE  /\ Swept \in [Surfacing -> [card : Card \cup {NoCard},
                  state : {"none", "active", "expired", "resolving", "resolved"}]]
           /\ SweptFlow \in {"IDLE", "PRIMED", "CARD_SURFACED", "RESOLVING", "RESOLVED"}
<1>1. \A s \in Surfacing : surf[s] \in [card : Card \cup {NoCard},
                  state : {"none", "active", "expired", "resolving", "resolved"}]
  BY DEF ConsentTypeOK
<1>2. \A s \in Surfacing : [surf[s] EXCEPT !.state = "expired"] \in [card : Card \cup {NoCard},
                  state : {"none", "active", "expired", "resolving", "resolved"}]
  BY <1>1
<1> QED
  BY <1>1, <1>2 DEF Swept, SweptFlow, ConsentTypeOK

\* The steps of a turn before it resolves keep the types.
LEMMA HandlingTypes ==
    ASSUME ConsentTypeOK, RowsInOrder, NEW u \in Turn, Snapshot(u) \/ Handling(u)
    PROVE  ConsentDbTypes'
<1>1. /\ turn \in [Turn -> TurnState] /\ Latest \in 0..MaxSurfacings /\ MaxSurfacings \in Nat
      /\ Latest # NoSurfacing => Latest \in Surfacing
  BY LatestRow, ConsentAssumption DEF ConsentTypeOK, Surfacing, NoSurfacing
<1>2. CASE Snapshot(u)
  <2> DEFINE r == [NoTurn EXCEPT !.pc = "brain", !.snap = OpenCards(BoundChat),
                                 !.gate = FlowState # "IDLE" \/ OpenCards(BoundChat) # {}]
  <2>1. OpenCards(BoundChat) \in SUBSET Card
    BY DEF OpenCards
  <2>2. (FlowState # "IDLE" \/ OpenCards(BoundChat) # {}) \in BOOLEAN
    OBVIOUS
  <2>3. r \in TurnState
    BY <2>1, <2>2 DEF NoTurn, TurnState
  <2>4. turn' = [turn EXCEPT ![u] = r]
    BY <1>2 DEF Snapshot
  <2> HIDE DEF r
  <2> QED
    BY <1>1, <1>2, <2>3, <2>4 DEF Snapshot, ConsentDbTypes, ConsentTypeOK, consent
<1>3. CASE BrainFails(u)
  <2>1. turn' \in [Turn -> TurnState]
    BY <1>3, TurnTypes DEF BrainFails
  <2>2. flow' \in {"IDLE", flow} /\ due' \in BOOLEAN
    BY <1>3 DEF BrainFails, RefuseFlow, ConsentTypeOK
  <2> QED
    BY <1>3, <2>1, <2>2 DEF BrainFails, ConsentDbTypes, ConsentTypeOK
<1>4. ASSUME NEW intent \in {"approve", "deny"}, Echo(u, intent)
      PROVE  ConsentDbTypes'
  <2> DEFINE r == [turn[u] EXCEPT !.pc = "rails", !.surf = Latest]
  <2>1. Latest \in Surfacing
    BY <1>1, <1>4 DEF Echo, Asking
  <2>2. turn' = [turn EXCEPT ![u] = r]
    BY <1>1, <1>4 DEF Echo
  <2>3. r \in TurnState
    BY <1>1, <2>1 DEF TurnState, Tail
  <2> HIDE DEF r
  <2>4. turn' \in [Turn -> TurnState]
    BY <1>1, <2>2, <2>3
  <2>5. surf' = [surf EXCEPT ![Latest].state = "resolving"]
    BY <1>4 DEF Echo
  <2>6. surf' \in [Surfacing -> [card : Card \cup {NoCard},
                  state : {"none", "active", "expired", "resolving", "resolved"}]]
    BY <2>5 DEF ConsentTypeOK
  <2> QED
    BY <1>4, <2>1, <2>4, <2>6 DEF Echo, ConsentDbTypes, ConsentTypeOK
<1>5. ASSUME NEW matching \in SUBSET turn[u].snap, Surface(u, matching)
      PROVE  ConsentDbTypes'
  <2>1. turn[u].snap \in SUBSET Card
    BY <1>1 DEF TurnState
  <2>2. PICK c \in Card : SurfaceCard(c)
    BY <1>5, <2>1 DEF Surface, Selected
  <2>3. Latest + 1 \in Surfacing
    BY <1>1, <2>2 DEF SurfaceCard, Surfacing
  <2>4. \A s \in Surfacing : surf[s] \in [card : Card \cup {NoCard},
                  state : {"none", "active", "expired", "resolving", "resolved"}]
    BY DEF ConsentTypeOK
  <2>5. surf' \in [Surfacing -> [card : Card \cup {NoCard},
                  state : {"none", "active", "expired", "resolving", "resolved"}]]
    BY <2>2, <2>4 DEF SurfaceCard
  <2>6. turn' \in [Turn -> TurnState]
    BY <1>5, TurnTypes DEF Surface
  <2>7. late' \in [Surfacing -> BOOLEAN] /\ flow' = "CARD_SURFACED" /\ due' = FALSE
    BY <2>2 DEF SurfaceCard, ConsentTypeOK
  <2> QED
    BY <1>5, <2>5, <2>6, <2>7 DEF Surface, ConsentDbTypes, ConsentTypeOK
<1>6. CASE Prime(u) \/ Unresolved(u)
  <2>1. turn' \in [Turn -> TurnState]
    BY <1>6, TurnTypes DEF Prime, Unresolved
  <2>2. due' \in BOOLEAN
    BY <1>6 DEF Prime, Unresolved, ConsentTypeOK
  <2> QED
    BY <1>6, <2>1, <2>2, RowTypes DEF Prime, Unresolved, ConsentDbTypes, ConsentTypeOK
<1> QED
  BY <1>2, <1>3, <1>4, <1>5, <1>6 DEF Handling

\* So do those of a turn that resolves.
LEMMA ResolvingTypes ==
    ASSUME ConsentTypeOK, NEW u \in Turn, Resolving(u), Of(u) \in Surfacing
    PROVE  ConsentDbTypes'
<1>1. turn \in [Turn -> TurnState] /\ turn[u] \in TurnState
  BY DEF ConsentTypeOK
<1>2. CASE Rails(u)
  <2>1. turn' \in [Turn -> TurnState]
    BY <1>2, TurnTypes DEF Rails, Tail
  <2> QED
    BY <1>2, <2>1 DEF Rails, ConsentDbTypes, ConsentTypeOK, consent
<1>3. CASE Request(u)
  <2>1. turn' \in [Turn -> TurnState]
    BY <1>3, TurnTypes DEF Request, Tail
  <2> QED
    BY <1>3, <2>1 DEF Request, ConsentDbTypes, ConsentTypeOK, consent
<1>4. CASE ConsentDeny(u)
  <2>1. turn[u].ok \in BOOLEAN
    BY <1>1 DEF TurnState
  <2>2. \/ turn' = [turn EXCEPT ![u].pc = "reread", ![u].ok = TRUE]
        \/ turn' = [turn EXCEPT ![u].pc = "reread"]
    BY <1>4 DEF ConsentDeny
  <2>3. turn' \in [Turn -> TurnState]
    BY <2>2, TurnTypes DEF Proceed, Tail
  <2> QED
    BY <1>4, <2>3 DEF ConsentDeny, ConsentDbTypes, ConsentTypeOK, consent
<1>5. CASE Answer(u)
  <2>1. (http[Of(u)] = "yes") \in BOOLEAN
    OBVIOUS
  <2>2. turn' \in [Turn -> TurnState]
    BY <1>5, <2>1, TurnTypes DEF Answer
  <2> QED
    BY <1>5, <2>2 DEF Answer, ConsentDbTypes, ConsentTypeOK, consent
<1>6. CASE Timeout(u)
  <2>1. turn' \in [Turn -> TurnState]
    BY <1>6, TurnTypes DEF Timeout, Tail
  <2> QED
    BY <1>6, <2>1 DEF Timeout, ConsentDbTypes, ConsentTypeOK, consent
<1>7. CASE Reread(u)
  <2>1. turn' \in [Turn -> TurnState]
    BY <1>7, TurnTypes DEF Reread, Tail
  <2>2. \A ok, st : Verdict(ok, st) \in {"none", "resolved", "unconfirmed", "refused"}
    BY DEF Verdict
  <2> QED
    BY <1>7, <2>1, <2>2 DEF Reread, ConsentDbTypes, ConsentTypeOK, consent
<1>8. CASE Mark(u)
  <2>1. turn' \in [Turn -> TurnState]
    BY <1>8, TurnTypes DEF Mark
  <2>2. \A s \in Surfacing : surf[s] \in [card : Card \cup {NoCard},
                  state : {"none", "active", "expired", "resolving", "resolved"}]
    BY DEF ConsentTypeOK
  <2>3. CASE receipt[Of(u)] = "resolved"
    BY <1>8, <2>1, <2>2, <2>3 DEF Mark, ConsentDbTypes, ConsentTypeOK
  <2>4. CASE receipt[Of(u)] # "resolved"
    BY <1>8, <2>1, <2>4 DEF Mark, RefuseFlow, ConsentDbTypes, ConsentTypeOK
  <2> QED
    BY <2>3, <2>4
<1> QED
  BY <1>2, <1>3, <1>4, <1>5, <1>6, <1>7, <1>8 DEF Resolving

\* And those of the HTTP server and of the surroundings.
LEMMA OtherTypes ==
    ASSUME ConsentTypeOK,
           (\E s \in Surfacing : Serve(s)) \/ ServeOn \/ Elsewhere \/ Lapse \/ ConsentCrash
           \/ UNCHANGED allVars
    PROVE  ConsentDbTypes'
<1>1. CASE \E s \in Surfacing : Serve(s)
  BY <1>1 DEF Serve, ConsentDbTypes, ConsentTypeOK, consent
<1>2. CASE ServeOn
  BY <1>2 DEF ServeOn, ConsentDbTypes, ConsentTypeOK, consent
<1>3. CASE Elsewhere \/ UNCHANGED allVars
  BY <1>3 DEF Elsewhere, allVars, cvars, ConsentDbTypes, ConsentTypeOK, consent
<1>4. CASE Lapse
  <2>1. due' \in BOOLEAN /\ late' \in [Surfacing -> BOOLEAN]
    BY <1>4 DEF Lapse, ConsentTypeOK
  <2> QED
    BY <1>4, <2>1 DEF Lapse, ConsentDbTypes, ConsentTypeOK
<1>5. CASE ConsentCrash
  <2>1. turn' \in [Turn -> TurnState]
    BY <1>5 DEF ConsentCrash, NoTurn, TurnState
  <2> QED
    BY <1>5, <2>1 DEF ConsentCrash, ConsentDbTypes, ConsentTypeOK, consent
<1> QED
  BY <1>1, <1>2, <1>3, <1>4, <1>5

LEMMA TypesKept ==
    ASSUME ConsentInv, [ConsentNext]_allVars
    PROVE  ConsentTypeOK'
<1>1. ConsentTypeOK /\ RowsInOrder
  BY DEF ConsentInv, ConsentRules, RowsOK
<1>2. ASSUME NEW u \in Turn, Resolving(u)
      PROVE  ConsentDbTypes'
  <2>1. InTail(u)
    BY <1>2 DEF Resolving, Rails, Request, ConsentDeny, Answer, Timeout, Reread, Mark, InTail,
       Tail, Is
  <2>2. Of(u) \in Surfacing
    BY <2>1 DEF ConsentInv, ConsentRules, TurnsOK, TurnOK
  <2> QED
    BY <1>1, <1>2, <2>2, ResolvingTypes
<1>3. ConsentDbTypes'
  BY <1>1, <1>2, HandlingTypes, OtherTypes DEF ConsentNext
<1> QED
  BY <1>3, PipelineKeeps DEF ConsentDbTypes, ConsentTypeOK

-----------------------------------------------------------------------------
(* The rules                                                               *)

\* The columns of what comes of asking stay as they are.
Waiting == UNCHANGED <<said, attempts, http, receipt>>

\* Turns with nothing to resolve leave the rules of turns empty.
LEMMA NobodyResolves ==
    ASSUME ConsentTypeOK, LoopFree, ResultsLate, NEW u \in Turn, turn'[u].pc \notin Tail,
           ~turn'[u].ok, \A v \in Turn \ {u} : turn'[v] = turn[v]
    PROVE  TurnsOK' /\ OneTurnResolves'
<1>1. \A v \in Turn : ~InTail(v)'
  BY DEF LoopFree, InTail
<1>2. ResultsLate'
  BY DEF ResultsLate, Is
<1> QED
  BY <1>1, <1>2 DEF TurnsOK, OneTurnResolves

\* Before a turn resolves nothing, and after it, rows are swept or asked.
LEMMA HandlingRules ==
    ASSUME ConsentInv, Persist, NEW u \in Turn, Snapshot(u) \/ Handling(u)
    PROVE  ConsentRules'
<1>a. /\ ConsentTypeOK /\ RowsInOrder /\ (\A s \in Surfacing : RowOK(s)) /\ LoopFree
      /\ ResultsLate
      /\ turn \in [Turn -> TurnState] /\ surf \in [Surfacing -> [card : Card \cup {NoCard},
                  state : {"none", "active", "expired", "resolving", "resolved"}]]
  BY DEF ConsentInv, ConsentRules, RowsOK, TurnsOK, ConsentTypeOK, Snapshot, Handling, Echo,
     Surface, Prime, Unresolved, BrainFails, HandlesTurn
<1>b. UNCHANGED vars
  BY DEF Snapshot, Handling, Echo, Surface, Prime, Unresolved, BrainFails
<1>c. th' = th
  BY <1>b DEF vars
<1>d. NoTurn.pc = "idle" /\ ~NoTurn.ok /\ "idle" \notin Tail /\ "brain" \notin Tail
  BY DEF NoTurn, Tail
<1>1. ASSUME Waiting, surf' \in {surf, Swept}
      PROVE  RowsOK'
  <2>1. \A s \in Surfacing : \/ surf'[s] = surf[s]
                             \/ /\ surf[s].state = "active" /\ surf'[s].state = "expired"
                                /\ surf'[s].card = surf[s].card
    BY <1>a, <1>1 DEF Swept, Stale
  <2>2. ASSUME NEW s \in Surfacing
        PROVE  RowOK(s)'
    <3>1. ServerKept(s)
      BY <1>1, <1>a, <1>c DEF ServerKept, Waiting, RowOK
    <3>2. said'[s] = said[s] /\ attempts'[s] = attempts[s] /\ http'[s] = http[s]
          /\ receipt'[s] = receipt[s]
      BY <1>1 DEF Waiting
    <3> QED
      BY <1>a, <2>1, <3>1, <3>2, RowKept
  <2>3. RowsInOrder'
    <3>1. PICK n \in 0..MaxSurfacings : \A s \in Surfacing : surf[s].state # "none" <=> s <= n
      BY <1>a DEF RowsInOrder
    <3>2. \A s \in Surfacing : surf'[s].state # "none" <=> s <= n
      BY <2>1, <3>1
    <3> QED
      BY <3>1, <3>2 DEF RowsInOrder
  <2> QED
    BY <2>2, <2>3 DEF RowsOK
<1>2. CASE Snapshot(u)
  <2>1. turn'[u].pc \notin Tail /\ ~turn'[u].ok /\ \A v \in Turn \ {u} : turn'[v] = turn[v]
    BY <1>2, <1>a DEF Snapshot, NoTurn, Tail
  <2>2. RowsOK'
    BY <1>2, <1>1 DEF Snapshot, consent, Waiting
  <2> QED
    BY <1>a, <2>1, <2>2, NobodyResolves DEF ConsentRules
<1>3. CASE BrainFails(u) \/ Prime(u) \/ Unresolved(u)
  <2>1. EndTurn(u)
    BY <1>3 DEF BrainFails, Prime, Unresolved
  <2>2. turn'[u].pc \notin Tail /\ ~turn'[u].ok /\ \A v \in Turn \ {u} : turn'[v] = turn[v]
    BY <1>a, <1>d, <2>1 DEF EndTurn
  <2>3. RowsOK'
    BY <1>3, <1>1 DEF BrainFails, Prime, Unresolved, Waiting
  <2> QED
    BY <1>a, <2>2, <2>3, NobodyResolves DEF ConsentRules
<1>4. ASSUME NEW matching \in SUBSET turn[u].snap, Surface(u, matching)
      PROVE  ConsentRules'
  <2>1. turn'[u].pc \notin Tail /\ ~turn'[u].ok /\ \A v \in Turn \ {u} : turn'[v] = turn[v]
    BY <1>a, <1>d, <1>4 DEF Surface, EndTurn
  <2>2. turn[u].snap \in SUBSET Card
    BY <1>a DEF TurnState
  <2>3. PICK c \in Card : SurfaceCard(c)
    BY <1>4, <2>2 DEF Surface, Selected
  <2>4. /\ Latest \in 0..MaxSurfacings /\ Latest + 1 \in Surfacing
        /\ \A s \in Surfacing : surf[s].state # "none" <=> s <= Latest
    BY <1>a, <2>3, LatestRow, ConsentAssumption DEF SurfaceCard, Surfacing
  <2>5. /\ surf'[Latest + 1] = [card |-> c, state |-> "active"]
        /\ \A s \in Surfacing \ {Latest + 1} :
             \/ surf'[s] = surf[s]
             \/ /\ surf[s].state = "active" /\ surf'[s].state = "expired"
                /\ surf'[s].card = surf[s].card
    BY <1>a, <2>3, <2>4 DEF SurfaceCard
  <2>6. Waiting
    BY <1>4 DEF Surface, Waiting
  <2>7. ASSUME NEW s \in Surfacing
        PROVE  RowOK(s)'
    <3>1. said'[s] = said[s] /\ attempts'[s] = attempts[s] /\ http'[s] = http[s]
          /\ receipt'[s] = receipt[s]
      BY <2>6 DEF Waiting
    <3>2. ServerKept(s)
      BY <3>1, <1>a, <1>c DEF ServerKept, RowOK
    <3>3. CASE s = Latest + 1
      <4>1. surf[s].state = "none"
        BY <2>4, <3>3, ConsentAssumption DEF Surfacing
      <4>2. Untouched(s)
        BY <1>a, <4>1 DEF RowOK
      <4>3. surf'[s].card \in Card
        BY <2>5, <3>3
      <4> QED
        BY <3>1, <4>2, <4>3 DEF RowOK, Untouched
    <3>4. CASE s # Latest + 1
      BY <1>a, <2>5, <3>1, <3>2, <3>4, RowKept
    <3> QED
      BY <3>3, <3>4
  <2>8. RowsInOrder'
    <3>1. Latest + 1 \in 0..MaxSurfacings
      BY <2>4, ConsentAssumption DEF Surfacing
    <3>2. \A s \in Surfacing : surf'[s].state # "none" <=> s <= Latest + 1
      <4>1. \A s \in Surfacing \ {Latest + 1} : surf'[s].state # "none" <=> s <= Latest
        BY <2>4, <2>5
      <4> QED
        BY <2>4, <2>5, <4>1, ConsentAssumption DEF Surfacing
    <3> QED
      BY <3>1, <3>2 DEF RowsInOrder
  <2> QED
    BY <1>a, <2>1, <2>7, <2>8, NobodyResolves DEF ConsentRules, RowsOK
<1>5. ASSUME NEW intent \in {"approve", "deny"}, Echo(u, intent)
      PROVE  ConsentRules'
  <2>1. Latest \in Surfacing /\ surf[Latest].state = "active"
    BY <1>a, <1>5, LatestRow, ConsentAssumption DEF Echo, Asking, Surfacing, NoSurfacing
  <2> DEFINE l == Latest
  <2>2. /\ surf'[l].state = "resolving" /\ surf'[l].card = surf[l].card
        /\ \A s \in Surfacing \ {l} : surf'[s] = surf[s] /\ said'[s] = said[s]
        /\ UNCHANGED <<attempts, http, receipt>>
    BY <1>a, <1>5, <2>1 DEF Echo, ConsentTypeOK
  <2>3. /\ turn'[u].pc = "rails" /\ turn'[u].surf = l /\ ~turn'[u].ok
        /\ \A v \in Turn \ {u} : turn'[v] = turn[v]
    BY <1>a, <1>5 DEF Echo, HandlesTurn, ResultsLate, Is, TurnState
  <2> HIDE DEF l
  <2>0. l \in Surfacing /\ surf[l].state = "active"
    BY <2>1 DEF l
  <2>4. ASSUME NEW s \in Surfacing
        PROVE  RowOK(s)'
    <3>1. attempts'[s] = attempts[s] /\ http'[s] = http[s] /\ receipt'[s] = receipt[s]
      BY <2>2
    <3>2. ServerKept(s)
      BY <3>1, <1>a, <1>c DEF ServerKept, RowOK
    <3>3. CASE s = l
      <4>1. Untouched(s) /\ surf[s].card \in Card
        BY <1>a, <2>0, <3>3 DEF RowOK
      <4> QED
        BY <2>2, <3>1, <3>3, <4>1 DEF RowOK, Untouched
    <3>4. CASE s # l
      BY <1>a, <2>2, <3>1, <3>2, <3>4, RowKept
    <3> QED
      BY <3>3, <3>4
  <2>5. RowsInOrder'
    <3>1. PICK n \in 0..MaxSurfacings : \A s \in Surfacing : surf[s].state # "none" <=> s <= n
      BY <1>a DEF RowsInOrder
    <3>2. \A s \in Surfacing : surf'[s].state # "none" <=> s <= n
      BY <2>0, <2>2, <3>1
    <3> QED
      BY <3>1, <3>2 DEF RowsInOrder
  <2>6. \A v \in Turn \ {u} : ~InTail(v)'
    BY <1>a, <2>3 DEF LoopFree, InTail
  <2>7. TurnOK(u)'
    <3>1. Untouched(l)
      BY <1>a, <2>0 DEF RowOK
    <3> QED
      BY <2>0, <2>2, <2>3, <3>1 DEF TurnOK, Untouched, Is, Of
  <2>8. ResultsLate'
    BY <1>a, <2>3 DEF ResultsLate, Is
  <2> QED
    BY <2>4, <2>5, <2>6, <2>7, <2>8 DEF ConsentRules, RowsOK, TurnsOK, OneTurnResolves
<1> QED
  BY <1>2, <1>3, <1>4, <1>5 DEF Handling

\* A turn that resolves acts for the row it echoed, and lets the others be.
LEMMA ResolvingRules ==
    ASSUME ConsentInv, Persist, TypeOK', NEW u \in Turn, Resolving(u)
    PROVE  ConsentRules'
<1>a. /\ ConsentTypeOK /\ RowsInOrder /\ (\A s \in Surfacing : RowOK(s)) /\ ResultsLate
      /\ turn \in [Turn -> TurnState] /\ surf \in [Surfacing -> [card : Card \cup {NoCard},
                  state : {"none", "active", "expired", "resolving", "resolved"}]]
      /\ attempts \in [Surfacing -> Nat]
      /\ http \in [Surfacing -> {"none", "sent", "serving", "yes", "no"}]
      /\ receipt \in [Surfacing -> {"none", "resolved", "unconfirmed", "refused"}]
  BY DEF ConsentInv, ConsentRules, RowsOK, TurnsOK, ConsentTypeOK
<1>b. InTail(u)
  BY DEF Resolving, Rails, Request, ConsentDeny, Answer, Timeout, Reread, Mark, InTail, Tail, Is
<1>c. TurnOK(u) /\ \A v \in Turn \ {u} : ~InTail(v)
  BY <1>b DEF ConsentInv, ConsentRules, TurnsOK, OneTurnResolves
<1>d. PICK o \in Surfacing : o = Of(u)
  BY <1>c DEF TurnOK
<1>e. surf[o].state = "resolving" /\ RowOK(o) /\ surf[o].card \in Card
  BY <1>a, <1>c, <1>d DEF TurnOK, RowOK
<1>f. th' = th /\ said' = said
  BY DEF Resolving, Rails, Request, ConsentDeny, Answer, Timeout, Reread, Mark, vars
<1>g. \A s \in Surfacing : \/ surf'[s] = surf[s]
                           \/ /\ surf[s].state = "resolving" /\ surf'[s].state = "resolved"
                              /\ surf'[s].card = surf[s].card
  BY <1>a DEF Resolving, Rails, Request, ConsentDeny, Answer, Timeout, Reread, Mark, consent
<1>h. InEffect(o) => InEffect(o)'
  BY <1>a, <1>e, <1>f, <1>g, EffectLasts
<1>i. /\ \A v \in Turn \ {u} : turn'[v] = turn[v]
      /\ ~Is(u, "mark") => turn'[u].surf = o /\ surf' = surf
  BY <1>a, <1>d DEF Resolving, Rails, Request, ConsentDeny, Answer, Timeout, Reread, Mark,
                    Proceed, EndTurn, TurnState, Of, Is, consent
<1>j. \A s \in Surfacing \ {o} :
         attempts'[s] = attempts[s] /\ http'[s] = http[s] /\ receipt'[s] = receipt[s]
  BY <1>a, <1>d DEF Resolving, Rails, Request, ConsentDeny, Answer, Timeout, Reread, Mark
<1>1. RowsInOrder'
  <2>1. PICK n \in 0..MaxSurfacings : \A s \in Surfacing : surf[s].state # "none" <=> s <= n
    BY <1>a DEF RowsInOrder
  <2>2. \A s \in Surfacing : surf'[s].state # "none" <=> s <= n
    BY <1>g, <2>1
  <2> QED
    BY <2>1, <2>2 DEF RowsInOrder
<1>2. ASSUME NEW s \in Surfacing, attempts'[s] = attempts[s], http'[s] = http[s],
             receipt'[s] = receipt[s]
      PROVE  RowOK(s)'
  <2>1. ServerKept(s)
    BY <1>2, <1>a, <1>f DEF ServerKept, RowOK
  <2> QED
    BY <1>2, <1>a, <1>f, <1>g, <2>1, RowKept
<1>3. ASSUME RowOK(o)', turn'[u].ok => turn'[u].pc \in {"reread", "mark"},
             turn'[u].pc \in Tail =>
                /\ turn'[u].surf = o /\ surf'[o].state = "resolving"
                /\ turn'[u].pc \in {"rails", "act"} => Untouched(o)'
                /\ turn'[u].pc = "reread" /\ turn'[u].ok => InEffect(o)'
      PROVE  ConsentRules'
  <2>1. \A s \in Surfacing : RowOK(s)'
    BY <1>2, <1>3, <1>j
  <2>2. ResultsLate'
    BY <1>a, <1>3, <1>i DEF ResultsLate, Is
  <2>3. \A v \in Turn \ {u} : ~InTail(v)'
    BY <1>c, <1>i DEF InTail
  <2>4. InTail(u)' => TurnOK(u)'
    <3>1. CASE turn'[u].pc \in Tail
      <4>1. Of(u)' = o
        BY <1>3, <3>1 DEF Of
      <4> QED
        BY <1>3, <3>1, <4>1 DEF TurnOK, Is, Untouched, InEffect
    <3> QED
      BY <3>1 DEF InTail
  <2> QED
    BY <1>1, <2>1, <2>2, <2>3, <2>4 DEF ConsentRules, RowsOK, TurnsOK, OneTurnResolves
<1>4. ~Is(u, "reread") /\ ~Is(u, "mark") => ~turn[u].ok
  BY <1>a DEF ResultsLate, Is
<1>5. Is(u, "rails") \/ Is(u, "act") => Untouched(o)
  BY <1>c, <1>d DEF TurnOK
<1>6. CASE Rails(u)
  <2>1. turn'[u].pc \in {"act", "mark"} /\ ~turn'[u].ok
    BY <1>6, <1>4, <1>a DEF Rails, Proceed, Is, TurnState
  <2>2. attempts' = attempts /\ http' = http /\ (turn'[u].pc = "act" => receipt' = receipt)
        /\ receipt'[o] \in {receipt[o], "refused"}
    <3>1. attempts' = attempts /\ http' = http
      BY <1>6 DEF Rails
    <3>2. CASE Proceed(u, "act") /\ UNCHANGED receipt
      BY <3>1, <3>2
    <3>3. CASE Proceed(u, "mark") /\ receipt' = [receipt EXCEPT ![Of(u)] = "refused"]
      <4>1. turn'[u].pc = "mark" /\ receipt'[o] = "refused"
        BY <1>a, <1>d, <3>3 DEF Proceed, TurnState
      <4> QED
        BY <3>1, <4>1
    <3> QED
      BY <1>6, <3>2, <3>3 DEF Rails
  <2>3. Untouched(o) /\ surf' = surf /\ turn'[u].surf = o
    BY <1>6, <1>5, <1>i DEF Rails, Is
  <2>4. RowOK(o)'
    BY <1>e, <1>f, <1>h, <2>2, <2>3 DEF RowOK, Untouched
  <2> QED
    BY <1>e, <1>3, <2>1, <2>2, <2>3, <2>4 DEF Untouched
<1>7. CASE Request(u)
  <2>1. turn'[u].pc = "wait" /\ ~turn'[u].ok
    BY <1>7, <1>4, <1>a DEF Request, Proceed, Is, TurnState
  <2>2. Untouched(o) /\ surf' = surf /\ turn'[u].surf = o /\ said[o] = "approve"
    BY <1>7, <1>5, <1>d, <1>i DEF Request, Is
  <2>3. attempts'[o] = 1 /\ http'[o] = "sent" /\ receipt' = receipt
    BY <1>7, <1>a, <1>d, <2>2 DEF Request, Untouched
  <2>4. RowOK(o)'
    BY <1>e, <1>f, <2>2, <2>3 DEF RowOK, Untouched
  <2> QED
    BY <1>e, <1>3, <2>1, <2>2, <2>4
<1>8. CASE ConsentDeny(u)
  <2>1. Is(u, "act") /\ said[o] = "deny" /\ surf' = surf /\ http' = http /\ receipt' = receipt
    BY <1>8, <1>d DEF ConsentDeny, consent
  <2>2. Untouched(o) /\ turn'[u].surf = o /\ attempts'[o] = 1
    BY <1>8, <1>5, <1>a, <1>d, <1>i, <2>1 DEF ConsentDeny, Untouched, consent, Mark, Is
  <2>3. ~turn[u].ok
    BY <1>4, <2>1 DEF Is
  <2>4. turn'[u].pc = "reread" /\ (turn'[u].ok => Deny(surf[o].card))
    BY <1>8, <1>a, <1>d, <2>3 DEF ConsentDeny, TurnState
  <2>5. Deny(surf[o].card) => InEffect(o)'
    <3>1. status \in [Card -> CardStatus \cup {"absent"}]
      BY <1>a DEF ConsentTypeOK, TypeOK, StoreTypeOK
    <3> QED
      BY <1>e, <1>f, <2>1, <3>1 DEF Deny, Transition, InEffect
  <2>6. RowOK(o)'
    BY <1>e, <1>f, <2>1, <2>2 DEF RowOK, Untouched
  <2> QED
    BY <1>e, <1>3, <2>1, <2>2, <2>4, <2>5, <2>6
<1>9. CASE Answer(u)
  <2>1. /\ turn'[u].pc = "reread" /\ (turn'[u].ok => http[o] = "yes") /\ surf' = surf
        /\ turn'[u].surf = o /\ attempts' = attempts /\ http' = http /\ receipt' = receipt
    BY <1>9, <1>a, <1>d DEF Answer, consent, TurnState, Of
  <2>2. RowOK(o)'
    BY <1>2, <2>1
  <2>3. turn'[u].ok => InEffect(o)'
    BY <1>e, <1>h, <2>1 DEF RowOK
  <2> QED
    BY <1>e, <1>3, <2>1, <2>2, <2>3
<1>10. CASE Timeout(u)
  <2>1. /\ turn'[u].pc = "reread" /\ ~turn'[u].ok /\ surf' = surf
        /\ turn'[u].surf = o /\ attempts' = attempts /\ http' = http /\ receipt' = receipt
    BY <1>10, <1>4, <1>a, <1>d DEF Timeout, Proceed, consent, TurnState, Of, Is
  <2>2. RowOK(o)'
    BY <1>2, <2>1
  <2> QED
    BY <1>e, <1>3, <2>1, <2>2
<1>11. CASE Reread(u)
  <2>1. /\ turn'[u].pc = "mark" /\ surf' = surf
        /\ turn'[u].surf = o /\ attempts' = attempts /\ http' = http
        /\ (receipt'[o] = "resolved" => turn[u].ok)
    BY <1>11, <1>a, <1>d DEF Reread, Proceed, consent, TurnState, Of, Verdict
  <2>2. receipt'[o] = "resolved" => InEffect(o)'
    BY <1>11, <1>c, <1>d, <1>h, <2>1 DEF TurnOK, Reread
  <2>3. RowOK(o)'
    BY <1>e, <1>f, <1>h, <2>1, <2>2 DEF RowOK
  <2> QED
    BY <1>e, <1>3, <2>1, <2>3
<1>12. CASE Mark(u)
  <2>1. NoTurn.pc = "idle" /\ ~NoTurn.ok /\ "idle" \notin Tail
    BY DEF NoTurn, Tail
  <2>2. turn'[u] = NoTurn
    BY <1>12, <1>a DEF Mark, EndTurn
  <2>3. RowOK(o)'
    BY <1>12, <1>2 DEF Mark
  <2> QED
    BY <1>3, <2>1, <2>2, <2>3
<1> QED
  BY <1>6, <1>7, <1>8, <1>9, <1>10, <1>11, <1>12 DEF Resolving

\* A handler keeps to its card until it ends.
LEMMA KeepsCard ==
    ASSUME TypeOK, NEW p \in Proc, Approving(p)
    PROVE  /\ th[p].pc # "idle"
           /\ th'[p].pc = "idle" \/ th'[p].card = th[p].card
           /\ \A q \in Proc \ {p} : th'[q] = th[q]
<1>1. th \in [Proc -> ThreadState] /\ Idle.pc = "idle"
  BY DEF TypeOK, Idle
<1>2. \A point : Goto(p, point) => /\ th'[p].card = th[p].card
                                   /\ \A q \in Proc \ {p} : th'[q] = th[q]
  BY <1>1 DEF Goto, ThreadState
<1>3. Leave(p) => th'[p].pc = "idle" /\ \A q \in Proc \ {p} : th'[q] = th[q]
  BY <1>1 DEF Leave
<1>4. \A point, flag : th' = [th EXCEPT ![p].pc = point, ![p].flag = flag]
                       => th'[p].card = th[p].card /\ \A q \in Proc \ {p} : th'[q] = th[q]
  BY <1>1 DEF ThreadState
<1>5. th[p].pc # "idle"
  BY DEF Approving, Judge, ApproveCard, BlockCard, ConfirmWant, WillCheck, WillDeny, StartRun,
         Execute, CloseCard, RecordOutcome, At
<1>6. CASE Judge(p) \/ ConfirmWant(p) \/ Execute(p)
  BY <1>2, <1>4, <1>5, <1>6 DEF Judge, ConfirmWant, Execute
<1>7. CASE ApproveCard(p) \/ BlockCard(p) \/ WillCheck(p) \/ WillDeny(p) \/ StartRun(p)
           \/ CloseCard(p) \/ RecordOutcome(p)
  BY <1>2, <1>3, <1>5, <1>7
     DEF ApproveCard, BlockCard, WillCheck, WillDeny, StartRun, CloseCard, RecordOutcome
<1> QED
  BY <1>6, <1>7 DEF Approving

\* Steps that touch neither what was asked nor the turns.
Aside == UNCHANGED <<surf, said, attempts, receipt, turn>>

\* Such steps keep the rules, if what becomes of the requests is right.
LEMMA AsideKeeps ==
    ASSUME ConsentInv, Persist, Aside,
           \A s \in Surfacing :
              \/ http'[s] = http[s] /\ ServerKept(s)
              \/ http[s] \in {"sent", "serving"} /\ http'[s] = "no"
              \/ http[s] = "sent" /\ http'[s] = "serving"
                 /\ th'[Cockpit].pc # "idle" /\ th'[Cockpit].card = surf[s].card
              \/ http[s] = "serving" /\ http'[s] = "yes" /\ InEffect(s)'
    PROVE  ConsentRules'
<1>a. /\ ConsentTypeOK /\ RowsInOrder /\ (\A s \in Surfacing : RowOK(s)) /\ ResultsLate
      /\ OneTurnResolves /\ TurnsOK
  BY DEF ConsentInv, ConsentRules, RowsOK, TurnsOK
<1>b. surf' = surf /\ said' = said /\ attempts' = attempts /\ receipt' = receipt /\ turn' = turn
  BY DEF Aside
<1>1. ASSUME NEW s \in Surfacing
      PROVE  RowOK(s)'
  <2>1. CASE http'[s] = http[s] /\ ServerKept(s)
    BY <1>a, <1>b, <2>1, RowKept
  <2>2. CASE http'[s] # http[s]
    <3>1. http[s] \in {"sent", "serving"} /\ said[s] = "approve" /\ RowOK(s)
      BY <1>a, <2>2 DEF RowOK
    <3>2. surf[s].state \notin {"none", "active"} /\ surf[s].card \in Card
      BY <1>a, <3>1 DEF RowOK, Untouched
    <3>3. InEffect(s) => InEffect(s)'
      BY <1>a, <1>b, <3>2, EffectLasts
    <3> QED
      BY <1>b, <2>2, <3>1, <3>2, <3>3 DEF RowOK
  <2> QED
    BY <2>1, <2>2
<1>2. ASSUME NEW v \in Turn, InTail(v)'
      PROVE  TurnOK(v)'
  <2>1. TurnOK(v)
    BY <1>a, <1>b, <1>2 DEF TurnsOK, InTail
  <2> QED
    BY <1>a, <1>b, <2>1, TurnKept
<1>3. RowsInOrder' /\ ResultsLate' /\ OneTurnResolves'
  BY <1>a, <1>b DEF RowsInOrder, ResultsLate, OneTurnResolves, InTail, Is
<1> QED
  BY <1>1, <1>2, <1>3 DEF ConsentRules, RowsOK, TurnsOK

\* The HTTP server and the surroundings keep the rules; a crash ends the turns.
LEMMA OtherRules ==
    ASSUME ConsentInv, Persist,
           (\E s \in Surfacing : Serve(s)) \/ ServeOn \/ Elsewhere \/ Lapse \/ ConsentCrash
           \/ UNCHANGED allVars
    PROVE  ConsentRules'
<1>a. /\ TypeOK /\ (\A s \in Surfacing : RowOK(s)) /\ ProcsTold /\ Base
      /\ th \in [Proc -> ThreadState] /\ Cockpit \in Proc
      /\ http \in [Surfacing -> {"none", "sent", "serving", "yes", "no"}]
  BY DEF ConsentInv, ConsentRules, RowsOK, ConsentTypeOK, AuditInv, RunInv, Base, TypeOK, Proc
<1>b. \A s \in Surfacing : http[s] = "serving" => /\ said[s] = "approve"
                                                  /\ th[Cockpit].pc # "idle"
                                                  /\ th[Cockpit].card = surf[s].card
  BY <1>a DEF RowOK
<1>1. ASSUME NEW s \in Surfacing, Serve(s)
      PROVE  ConsentRules'
  <2>1. Aside /\ http[s] = "sent" /\ th[Cockpit].pc = "idle"
    BY <1>1 DEF Serve, Aside, consent, At
  <2>2. \A r \in Surfacing : http[r] # "serving"
    BY <1>b, <2>1
  <2>3. \A r \in Surfacing \ {s} : http'[r] = http[r] /\ ServerKept(r)
    BY <1>1, <1>a, <2>2 DEF Serve, ServerKept
  <2>4. CASE Take(Cockpit, "judge", surf[s].card) /\ http' = [http EXCEPT ![s] = "serving"]
    <3>1. [Idle EXCEPT !.pc = "judge", !.card = surf[s].card].pc = "judge"
          /\ [Idle EXCEPT !.pc = "judge", !.card = surf[s].card].card = surf[s].card
      BY DEF Idle
    <3>2. http'[s] = "serving" /\ th'[Cockpit].pc = "judge" /\ th'[Cockpit].card = surf[s].card
      BY <1>a, <2>4, <3>1 DEF Take
    <3> QED
      BY <2>1, <2>3, <3>2, AsideKeeps
  <2>5. CASE http' = [http EXCEPT ![s] = "no"]
    <3>1. http'[s] = "no"
      BY <1>a, <2>5
    <3> QED
      BY <2>1, <2>3, <3>1, AsideKeeps
  <2> QED
    BY <1>1, <2>4, <2>5 DEF Serve
<1>2. CASE ServeOn
  <2>1. Aside
    BY <1>2 DEF ServeOn, Aside, consent
  <2>2. th'[Cockpit].pc = "idle" \/ th'[Cockpit].card = th[Cockpit].card
    BY <1>a, <1>2, KeepsCard DEF ServeOn
  <2>3. ASSUME NEW s \in Surfacing, http[s] = "serving", Executed
        PROVE  InEffect(s)'
    <3>1. th[Cockpit].card = surf[s].card /\ said[s] = "approve" /\ surf[s].card \in Card
      BY <1>a, <1>b, <2>3 DEF RowOK, Untouched
    <3>2. runs[surf[s].card] = 1 \/ satisfied[surf[s].card]
      BY <1>a, <2>3, <3>1 DEF Executed, At, ProcsTold, Told
    <3>3. InEffect(s)
      BY <3>1, <3>2 DEF InEffect
    <3> QED
      BY <2>1, <3>1, <3>3, EffectLasts DEF ConsentInv, Aside
  <2>4. ASSUME NEW s \in Surfacing
        PROVE  \/ http'[s] = http[s] /\ ServerKept(s)
               \/ http[s] \in {"sent", "serving"} /\ http'[s] = "no"
               \/ http[s] = "serving" /\ http'[s] = "yes" /\ InEffect(s)'
    BY <1>2, <2>2, <2>3 DEF ServeOn, ServerKept
  <2> QED
    BY <2>1, <2>4, AsideKeeps
<1>3. CASE Elsewhere
  <2>1. Aside /\ http' = http
    BY <1>3 DEF Elsewhere, cvars, consent, Aside
  <2>2. th[Cockpit].pc # "idle" => th'[Cockpit] = th[Cockpit]
    <3>1. CASE \E t \in Thread, k \in Kind : Propose(t, k, BoundChat, FALSE)
      BY <1>a, <3>1, PipelineAssumption DEF Propose, Take
    <3>2. CASE \E t \in Thread : Present(t)
      BY <1>a, <3>2, PipelineAssumption DEF Present, Presented, Goto, Leave
    <3>3. CASE \E c \in Card : CockpitApprove(c) \/ WebDeny(c)
      BY <3>3 DEF CockpitApprove, WebDeny, At
    <3> QED
      BY <1>3, <3>1, <3>2, <3>3 DEF Elsewhere
  <2>3. \A s \in Surfacing : http'[s] = http[s] /\ ServerKept(s)
    BY <1>b, <2>1, <2>2 DEF ServerKept
  <2> QED
    BY <2>1, <2>3, AsideKeeps
<1>4. CASE Lapse \/ UNCHANGED allVars
  <2>1. Aside /\ http' = http /\ th' = th
    BY <1>4 DEF Lapse, allVars, vars, cvars, consent, Aside
  <2>2. \A s \in Surfacing : http'[s] = http[s] /\ ServerKept(s)
    BY <1>b, <2>1 DEF ServerKept
  <2> QED
    BY <2>1, <2>2, AsideKeeps
<1>5. CASE ConsentCrash
  <2>1. /\ surf' = surf /\ said' = said /\ attempts' = attempts /\ receipt' = receipt
        /\ \A u \in Turn : turn'[u].pc = "idle" /\ ~turn'[u].ok
    BY <1>5 DEF ConsentCrash, NoTurn, consent
  <2>2. \A s \in Surfacing : \/ http'[s] = http[s] /\ http[s] \notin {"sent", "serving"}
                             \/ http[s] \in {"sent", "serving"} /\ http'[s] = "no"
    BY <1>a, <1>5 DEF ConsentCrash
  <2>3. ASSUME NEW s \in Surfacing
        PROVE  RowOK(s)'
    <3>1. CASE http'[s] = http[s] /\ http[s] \notin {"sent", "serving"}
      BY <1>a, <2>1, <3>1, RowKept DEF ServerKept, ConsentInv
    <3>2. CASE http[s] \in {"sent", "serving"} /\ http'[s] = "no"
      <4>1. RowOK(s) /\ surf[s].state \notin {"none", "active"} /\ surf[s].card \in Card
        BY <1>a, <3>2 DEF RowOK, Untouched
      <4>2. InEffect(s) => InEffect(s)'
        BY <2>1, <4>1, EffectLasts DEF ConsentInv
      <4> QED
        BY <2>1, <3>2, <4>1, <4>2 DEF RowOK
    <3> QED
      BY <2>2, <3>1, <3>2
  <2>4. TurnsOK' /\ OneTurnResolves'
    <3>1. \A v \in Turn : ~InTail(v)'
      BY <2>1 DEF InTail, Tail
    <3>2. ResultsLate'
      BY <2>1 DEF ResultsLate
    <3> QED
      BY <3>1, <3>2 DEF TurnsOK, OneTurnResolves
  <2>5. RowsInOrder'
    BY <2>1 DEF ConsentInv, ConsentRules, RowsOK, RowsInOrder
  <2> QED
    BY <2>3, <2>4, <2>5 DEF ConsentRules, RowsOK
<1> QED
  BY <1>1, <1>2, <1>3, <1>4, <1>5

-----------------------------------------------------------------------------
(* The invariant holds                                                     *)

LEMMA ConsentInvInit == ConsentInit => ConsentInv
<1> SUFFICES ASSUME ConsentInit PROVE ConsentInv
  OBVIOUS
<1>1. Init /\ AuditInv
  BY AuditInit DEF ConsentInit
<1>2. NoTurn \in TurnState /\ NoTurn.pc = "idle" /\ ~NoTurn.ok
  BY DEF NoTurn, TurnState
<1>3. ConsentTypeOK
  BY <1>1, <1>2 DEF ConsentInit, ConsentTypeOK, AuditInv, RunInv, Base
<1>4. RowsInOrder
  <2>1. 0 \in 0..MaxSurfacings /\ \A s \in Surfacing : surf[s].state # "none" <=> s <= 0
    BY ConsentAssumption DEF ConsentInit, Surfacing
  <2> QED
    BY <2>1 DEF RowsInOrder
<1>5. \A s \in Surfacing : RowOK(s)
  BY DEF ConsentInit, RowOK, Untouched
<1>6. TurnsOK /\ OneTurnResolves
  BY <1>2 DEF ConsentInit, TurnsOK, ResultsLate, OneTurnResolves, InTail, Tail
<1> QED
  BY <1>1, <1>3, <1>4, <1>5, <1>6 DEF ConsentInv, ConsentRules, RowsOK

LEMMA ConsentInvStep == ConsentInv /\ [ConsentNext]_allVars => ConsentInv'
<1> SUFFICES ASSUME ConsentInv, [ConsentNext]_allVars PROVE ConsentInv'
  OBVIOUS
<1>1. AuditInv' /\ Persist /\ TypeOK' /\ ConsentTypeOK'
  BY PipelineKeeps, TypesKept
<1>2. ConsentRules'
  BY <1>1, HandlingRules, ResolvingRules, OtherRules DEF ConsentNext
<1> QED
  BY <1>1, <1>2 DEF ConsentInv

LEMMA ConsentInvHolds == ConsentSpec => []ConsentInv
  BY ConsentInvInit, ConsentInvStep, PTL DEF ConsentSpec

-----------------------------------------------------------------------------
(* What is proved                                                          *)

\* Whatever the owner says in a bound chat, the cards behave as the decision
\* pipeline has them behave: consent adds a client, not a way around.
THEOREM ConsentIsThePipeline == ConsentSpec => Spec
<1>1. ConsentInit => Init
  BY DEF ConsentInit
<1>2. ConsentInv /\ [ConsentNext]_allVars => [Next]_vars
  BY PipelineStep
<1> QED
  BY <1>1, <1>2, ConsentInvHolds, PTL DEF ConsentSpec, Spec

\* So everything that is proved of the pipeline holds with consent beside it:
\* an approval said in a chat and one pressed in the cockpit never run a card
\* twice, nor against a denial, and the audit log stays true.
THEOREM ConsentKeepsTheCards ==
    ConsentSpec => /\ [](/\ OneAwaitingPerChat /\ RunsAtMostOnce /\ RefusedNeverRuns
                         /\ AuditTellsTheTruth /\ DoneIsTrue /\ OnlyACrashStrands)
                   /\ TerminalIsFinal /\ ImplementsOneShot
  BY ConsentIsThePipeline, OneCardPerChat, AtMostOneRun, RefusedCardsNeverRun, AuditIsTrue,
     DoneCardsAreDone, OnlyCrashesStrand, TerminalStays, CardsAreOneShot, PTL

\* The consent database, the requests and the turns have their types.
THEOREM ConsentTypes == ConsentSpec => []ConsentTypeOK
<1>1. ConsentInv => ConsentTypeOK
  BY DEF ConsentInv
<1> QED
  BY <1>1, ConsentInvHolds, PTL

\* However often the owner repeats himself and the server is slow, what he said
\* to one question is put into effect at most once.
THEOREM AnswersTakeEffectOnce == ConsentSpec => []OneAttemptPerSurfacing
<1>1. ConsentInv => OneAttemptPerSurfacing
  BY DEF ConsentInv, ConsentRules, RowsOK, RowOK, OneAttemptPerSurfacing
<1> QED
  BY <1>1, ConsentInvHolds, PTL

\* When the owner is told that his answer was carried out, it was.
THEOREM ReceiptsAreTrue == ConsentSpec => []ReceiptTellsTheTruth
<1>1. ConsentInv => ReceiptTellsTheTruth
  BY DEF ConsentInv, ConsentRules, RowsOK, RowOK, InEffect, ReceiptTellsTheTruth
<1> QED
  BY <1>1, ConsentInvHolds, PTL

\* What a step may make of rows that are settled or being resolved.
SettledStay ==
    \A s \in Surfacing :
        /\ surf[s].state \in {"expired", "resolved"} => surf'[s] = surf[s]
        /\ surf[s].state = "resolving" => surf'[s].state \in {"resolving", "resolved"}

LEMMA SettledStays == ConsentInv /\ [ConsentNext]_allVars => SettledStay
<1> SUFFICES ASSUME ConsentInv, [ConsentNext]_allVars PROVE SettledStay
  OBVIOUS
<1>a. /\ ConsentTypeOK /\ RowsInOrder
      /\ surf \in [Surfacing -> [card : Card \cup {NoCard},
                  state : {"none", "active", "expired", "resolving", "resolved"}]]
  BY DEF ConsentInv, ConsentRules, RowsOK, ConsentTypeOK
<1>1. ASSUME surf' = surf PROVE SettledStay
  BY <1>1 DEF SettledStay
<1>2. ASSUME surf' = Swept PROVE SettledStay
  BY <1>a, <1>2 DEF Swept, Stale, SettledStay
<1>3. ASSUME NEW u \in Turn, NEW intent \in {"approve", "deny"}, Echo(u, intent)
      PROVE  SettledStay
  BY <1>a, <1>3 DEF Echo, Asking, SettledStay
<1>4. ASSUME NEW u \in Turn, NEW matching \in SUBSET turn[u].snap, Surface(u, matching)
      PROVE  SettledStay
  <2>1. PICK c : SurfaceCard(c)
    BY <1>4 DEF Surface
  <2>2. \A s \in Surfacing : s = Latest + 1 => surf[s].state = "none"
    BY <1>a, LatestRow, ConsentAssumption DEF Surfacing
  <2> QED
    BY <1>a, <2>1, <2>2 DEF SurfaceCard, SettledStay
<1>5. ASSUME NEW u \in Turn, Mark(u)
      PROVE  SettledStay
  BY <1>a, <1>5 DEF Mark, SettledStay
<1>6. ASSUME NEW u \in Turn, Snapshot(u) \/ Prime(u) \/ Unresolved(u) \/ BrainFails(u)
      PROVE  surf' \in {surf, Swept}
  BY <1>6 DEF Snapshot, Prime, Unresolved, BrainFails, consent
<1>7. ASSUME NEW u \in Turn, Resolving(u), ~Mark(u)
      PROVE  surf' = surf
  BY <1>7 DEF Resolving, Rails, Request, ConsentDeny, Answer, Timeout, Reread, consent
<1>8. (\E s \in Surfacing : Serve(s)) \/ ServeOn \/ Elsewhere \/ Lapse \/ ConsentCrash
      \/ UNCHANGED allVars => surf' = surf
  BY DEF Serve, ServeOn, Elsewhere, Lapse, ConsentCrash, allVars, cvars, consent
<1> QED
  BY <1>1, <1>2, <1>3, <1>4, <1>5, <1>6, <1>7, <1>8 DEF ConsentNext, Handling

\* A question that was settled stays settled, and an echoed one is not reopened.
THEOREM SettledStaySettled == ConsentSpec => SettledSurfacingsStay
<1>1. ConsentInv /\ [ConsentNext]_allVars
      => [\A s \in Surfacing :
            /\ surf[s].state \in {"expired", "resolved"} => surf'[s] = surf[s]
            /\ surf[s].state = "resolving" => surf'[s].state \in {"resolving", "resolved"}]_allVars
  BY SettledStays DEF SettledStay
<1> QED
  BY <1>1, ConsentInvHolds, PTL DEF ConsentSpec, SettledSurfacingsStay

-----------------------------------------------------------------------------
(* Answers have a turn that writes their receipt                           *)

\* While the loop is free nobody waits for a receipt, but for a crash.
LEMMA NobodyWaits ==
    ASSUME EchoesAreInHand, LoopFree, crashes = 0, NEW s \in Surfacing, surf[s].state = "resolving"
    PROVE  receipt[s] # "none"
  BY DEF EchoesAreInHand, LoopFree

LEMMA HandlingInHand ==
    ASSUME ConsentInv, EchoesAreInHand, NEW u \in Turn, Handling(u)
    PROVE  EchoesAreInHand'
<1>a. /\ turn \in [Turn -> TurnState] /\ surf \in [Surfacing -> [card : Card \cup {NoCard},
                  state : {"none", "active", "expired", "resolving", "resolved"}]]
  BY DEF ConsentInv, ConsentTypeOK
<1>1. LoopFree /\ receipt' = receipt /\ crashes' = crashes
  BY DEF Handling, Echo, Surface, Prime, Unresolved, BrainFails, HandlesTurn, vars
<1>2. CASE \E intent \in {"approve", "deny"} : Echo(u, intent)
  <2> DEFINE l == Latest
  <2>1. /\ \A s \in Surfacing : s # l => surf'[s] = surf[s]
        /\ Of(u)' = l /\ turn'[u].pc = "rails"
    BY <1>a, <1>2 DEF Echo, TurnState, Of
  <2> HIDE DEF l
  <2>2. ASSUME crashes' = 0, NEW s \in Surfacing, surf'[s].state = "resolving", receipt'[s] = "none"
        PROVE  \E v \in Turn : Of(v)' = s /\ turn'[v].pc \in Tail \ {"mark"}
    <3>1. s = l
      BY <1>1, <2>1, <2>2, NobodyWaits
    <3> QED
      BY <2>1, <3>1 DEF Tail
  <2> QED
    BY <2>2 DEF EchoesAreInHand
<1>3. CASE ~\E intent \in {"approve", "deny"} : Echo(u, intent)
  <2>1. \A s \in Surfacing : surf'[s].state = "resolving" => surf[s].state = "resolving"
    BY <1>a, <1>3 DEF Handling, Surface, SurfaceCard, Prime, Unresolved, BrainFails, Swept
  <2> QED
    BY <1>1, <2>1, NobodyWaits DEF EchoesAreInHand
<1> QED
  BY <1>2, <1>3

LEMMA ResolvingInHand ==
    ASSUME ConsentInv, EchoesAreInHand, NEW u \in Turn, Resolving(u)
    PROVE  EchoesAreInHand'
<1>a. /\ turn \in [Turn -> TurnState] /\ OneTurnResolves
      /\ surf \in [Surfacing -> [card : Card \cup {NoCard},
                  state : {"none", "active", "expired", "resolving", "resolved"}]]
      /\ receipt \in [Surfacing -> {"none", "resolved", "unconfirmed", "refused"}]
  BY DEF ConsentInv, ConsentRules, ConsentTypeOK
<1>b. InTail(u) /\ TurnOK(u)
  BY DEF Resolving, Rails, Request, ConsentDeny, Answer, Timeout, Reread, Mark, InTail, Tail, Is,
         ConsentInv, ConsentRules, TurnsOK
<1>c. crashes' = crashes
  BY DEF Resolving, Rails, Request, ConsentDeny, Answer, Timeout, Reread, Mark, vars
<1> SUFFICES ASSUME crashes' = 0, NEW s \in Surfacing, surf'[s].state = "resolving",
                    receipt'[s] = "none"
             PROVE  \E v \in Turn : Of(v)' = s /\ turn'[v].pc \in Tail \ {"mark"}
  BY DEF EchoesAreInHand
<1>1. surf[s].state = "resolving" /\ receipt[s] = "none"
  BY <1>a DEF Resolving, Rails, Request, ConsentDeny, Answer, Timeout, Reread, Mark, Verdict, consent
<1>2. Of(u) = s /\ turn[u].pc # "mark"
  BY <1>a, <1>b, <1>c, <1>1 DEF EchoesAreInHand, OneTurnResolves, InTail
<1>3. Of(u)' = s /\ turn'[u].pc \in {"act", "wait", "reread"}
  BY <1>a, <1>2 DEF Resolving, Rails, Request, ConsentDeny, Answer, Timeout, Reread, Mark, Proceed,
                    Verdict, TurnState, Of, Is
<1> QED
  BY <1>3 DEF Tail

LEMMA InHandStep == ConsentInv /\ EchoesAreInHand /\ [ConsentNext]_allVars => EchoesAreInHand'
<1> SUFFICES ASSUME ConsentInv, EchoesAreInHand, [ConsentNext]_allVars PROVE EchoesAreInHand'
  OBVIOUS
<1>0. Base /\ crashes \in Nat
  BY DEF ConsentInv, AuditInv, RunInv, Base, TypeOK
<1>1. ASSUME NEW u \in Turn, Snapshot(u) PROVE EchoesAreInHand'
  <2>1. LoopFree /\ surf' = surf /\ receipt' = receipt /\ crashes' = crashes
    BY <1>1 DEF Snapshot, consent, vars
  <2> QED
    BY <2>1, NobodyWaits DEF EchoesAreInHand
<1>2. CASE (\E s \in Surfacing : Serve(s)) \/ ServeOn \/ Elsewhere \/ Lapse \/ UNCHANGED allVars
  <2>1. Aside
    BY <1>2 DEF Serve, ServeOn, Elsewhere, Lapse, allVars, cvars, consent, Aside
  <2>2. crashes' = crashes
    BY <1>2 DEF Serve, ServeOn, Elsewhere, Lapse, allVars, vars, Approving, Judge, ApproveCard,
                BlockCard, ConfirmWant, WillCheck, WillDeny, StartRun, Execute, CloseCard,
                RecordOutcome, Propose, Present, CockpitApprove, WebDeny
  <2> QED
    BY <2>1, <2>2 DEF Aside, EchoesAreInHand, Of
<1>3. CASE ConsentCrash
  BY <1>0, <1>3 DEF ConsentCrash, Crash, EchoesAreInHand
<1> QED
  BY <1>1, <1>2, <1>3, HandlingInHand, ResolvingInHand DEF ConsentNext

\* An answer waits for its receipt in the hands of the turn that echoed it, so
\* only a crash leaves one without (core/consent/resolution.py).
THEOREM EchoesStayInHand == ConsentSpec => []EchoesAreInHand
<1>1. ConsentInit => EchoesAreInHand
  BY DEF ConsentInit, EchoesAreInHand
<1> QED
  BY <1>1, ConsentInvHolds, InHandStep, PTL DEF ConsentSpec
=============================================================================
