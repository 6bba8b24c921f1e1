------------------------ MODULE FrontierGrant_proofs ------------------------
(***************************************************************************)
(* Proofs about FrontierGrant, for any number of cards, consumers,         *)
(* purposes and crashes: the types, that a grant pays for one call and for *)
(* the purpose it was approved for, and that it implements OneShotApproval.*)
(*                                                                         *)
(* What makes the calls single is not inductive: that a consumer in front  *)
(* of the call is the only one rests on its card having left "approved",   *)
(* and that it calls for the approved purpose on a check two steps before. *)
(***************************************************************************)
EXTENDS FrontierGrant, PendingCards_proofs

-----------------------------------------------------------------------------
(* The inductive invariant                                                 *)

\* The card in hand exists, and a consumer past the checks has a grant for what
\* it wants.
Grounded(r) ==
    /\ r.pc # "idle" => r.card \in 1..created
    /\ r.pc \in {"spend", "call"} => granted[r.card] /\ purposeOf[r.card] = r.want

ConsumersGrounded == \A p \in Consumer : Grounded(th[p])

ReplyGrounded == reply.pc # "idle" => reply.card \in 1..created

\* What the owner granted is approved, or has been.
GrantedCards == \A c \in Card : granted[c] => status[c] \in {"approved"} \cup Spent

\* Only spent cards were called under, and for what they were granted for.
CallsSpent ==
    \A c \in Card : calls[c] # 0 => /\ calls[c] = 1 /\ granted[c]
                                    /\ callFor[c] = purposeOf[c] /\ status[c] \in Spent

\* A consumer in front of the call is the first and the only one; a consumer
\* that settles has called.
CallOwned ==
    /\ \A p \in Consumer : At(p, "call") => calls[On(p)] = 0 /\ status[On(p)] \in Spent
    /\ \A p, q \in Consumer : At(p, "call") /\ At(q, "call") /\ On(p) = On(q) => p = q
    /\ \A p \in Consumer : At(p, "settle") => calls[On(p)] # 0

GrantInv ==
    /\ TypeOK /\ CardsInOrder /\ ConsumersGrounded /\ ReplyGrounded
    /\ GrantedCards /\ CallsSpent /\ CallOwned

-----------------------------------------------------------------------------
(* Lemmas                                                                  *)

\* Types of what is not in the store.
CallsTyped ==
    /\ purposeOf \in [Card -> Purpose \cup {NoPurpose}]
    /\ overdue \in [Card -> BOOLEAN]
    /\ granted \in [Card -> BOOLEAN]
    /\ reply \in ReplyState
    /\ th \in [Consumer -> ConsumerState]
    /\ calls \in [Card -> Nat]
    /\ callFor \in [Card -> Purpose \cup {NoPurpose}]
    /\ crashes \in Nat

LEMMA TypesApart == TypeOK <=> StoreTypeOK /\ CallsTyped
  BY DEF TypeOK, CallsTyped

\* A card in hand is a card.
LEMMA InRange ==
    ASSUME StoreTypeOK, NEW c \in 1..created
    PROVE  c \in Card
  BY CardsAssumption DEF StoreTypeOK, Card

LEMMA GrantInit == Init => GrantInv
<1> SUFFICES ASSUME Init PROVE GrantInv
  OBVIOUS
<1>1. TypeOK
  <2>1. StoreTypeOK
    BY StoreInitTyped DEF Init
  <2>2. CallsTyped
    BY DEF Init, CallsTyped, ReplyState, NoReply, ConsumerState, ConsumerPoint, Idle
  <2> QED
    BY <2>1, <2>2, TypesApart
<1>2. CardsInOrder
  BY CardsAssumption DEF Init, StoreInit, CardsInOrder, Card
<1>3. \A p \in Consumer : th[p].pc = "idle"
  BY DEF Init, Idle
<1>4. ConsumersGrounded /\ ReplyGrounded
  BY <1>3 DEF ConsumersGrounded, ReplyGrounded, Grounded, Init, NoReply
<1>5. GrantedCards /\ CallsSpent /\ CallOwned
  BY <1>3 DEF Init, GrantedCards, CallsSpent, CallOwned, At
<1> QED
  BY <1>1, <1>2, <1>4, <1>5 DEF GrantInv

\* Types are kept by every step.
LEMMA TypeStep ==
    ASSUME GrantInv, [Next]_vars
    PROVE  TypeOK'
<1>1. StoreTypeOK /\ CallsTyped
  BY TypesApart DEF GrantInv
<1>2. CASE UNCHANGED vars
  <2>1. Kept
    BY <1>1, <1>2, TransactionMoves DEF vars
  <2> QED
    BY <1>1, <1>2, <2>1 DEF vars, gvars, Kept, TypeOK, CallsTyped
<1>3. ASSUME NEW want \in Purpose, RequestAuthorization(want) PROVE TypeOK'
  <2>0. NoChat \in Chat \cup {NoChat}
    OBVIOUS
  <2>1. created + 1 \in Card /\ "plain" \in Kind
    BY <1>3, GrantAssumption DEF RequestAuthorization, CreateCard
  <2>2. StoreTypeOK'
    BY <1>1, <1>3, <2>0, <2>1, TransactionMoves DEF RequestAuthorization
  <2> QED
    BY <1>1, <1>3, <2>1, <2>2 DEF RequestAuthorization, TypeOK, CallsTyped
<1>4. ASSUME NEW c \in Card, DirectApprove(c) \/ PipelineReply(c) \/ WebDeny(c)
                             \/ ExpireAbandoned(c) \/ Overdue(c)
      PROVE  TypeOK'
  <2>1. CASE DirectApprove(c)
    <3>1. Kept
      BY <1>1, <2>1, TransactionMoves DEF DirectApprove, ApproveBy
    <3> QED
      BY <1>1, <2>1, <3>1 DEF DirectApprove, ApproveBy, Kept, TypeOK, CallsTyped
  <2>2. CASE PipelineReply(c)
    <3>1. Kept
      BY <1>1, <2>2, TransactionMoves DEF PipelineReply
    <3> QED
      BY <1>1, <2>2, <3>1 DEF PipelineReply, Kept, TypeOK, CallsTyped, ReplyState
  <2>3. CASE WebDeny(c)
    <3>1. Kept
      BY <1>1, <2>3, TransactionMoves DEF WebDeny
    <3> QED
      BY <1>1, <2>3, <3>1 DEF WebDeny, gvars, Kept, TypeOK, CallsTyped
  <2>4. CASE ExpireAbandoned(c)
    <3>1. Kept
      BY <1>1, <2>4, TransactionMoves DEF ExpireAbandoned
    <3> QED
      BY <1>1, <2>4, <3>1 DEF ExpireAbandoned, gvars, Kept, TypeOK, CallsTyped
  <2>5. CASE Overdue(c)
    <3>1. Kept
      BY <1>1, <2>5, TransactionMoves DEF Overdue
    <3> QED
      BY <1>1, <2>5, <3>1 DEF Overdue, Kept, TypeOK, CallsTyped
  <2> QED
    BY <1>4, <2>1, <2>2, <2>3, <2>4, <2>5
<1>5. CASE PipelineApprove
  <2>1. reply.card \in Card
    BY <1>1, <1>5, InRange DEF PipelineApprove, GrantInv, ReplyGrounded
  <2>2. Kept
    <3> DEFINE fresh == (Compared("pipeline") = Hashed)
    <3>1. Approve(reply.card, fresh) \/ Refused(reply.card, "approve")
      BY <1>5 DEF PipelineApprove, ApproveBy
    <3>2. fresh \in BOOLEAN
      OBVIOUS
    <3> HIDE DEF fresh
    <3> QED
      BY <1>1, <2>1, <3>1, <3>2, TransactionMoves
  <2>3. granted' \in [Card -> BOOLEAN]
    <3>1. CASE ApproveBy("pipeline", reply.card)
      BY <1>1, <3>1 DEF ApproveBy, CallsTyped
    <3>2. CASE UNCHANGED granted
      BY <1>1, <3>2 DEF CallsTyped
    <3> QED
      BY <1>5, <3>1, <3>2 DEF PipelineApprove
  <2>4. reply' \in ReplyState
    <3>1. CASE reply' = NoReply
      BY <3>1 DEF ReplyState, NoReply
    <3>2. CASE reply' = [reply EXCEPT !.pc = "block"]
      BY <1>1, <3>2 DEF CallsTyped, ReplyState
    <3> QED
      BY <1>5, <3>1, <3>2 DEF PipelineApprove
  <2> QED
    BY <1>1, <1>5, <2>2, <2>3, <2>4 DEF PipelineApprove, Kept, TypeOK, CallsTyped
<1>6. CASE PipelineBlock
  <2>1. reply.card \in Card
    BY <1>1, <1>6, InRange DEF PipelineBlock, GrantInv, ReplyGrounded
  <2>2. Kept
    BY <1>1, <1>6, <2>1, TransactionMoves DEF PipelineBlock
  <2> QED
    BY <1>1, <1>6, <2>2 DEF PipelineBlock, Kept, TypeOK, CallsTyped, ReplyState, NoReply
<1>7. ASSUME NEW p \in Consumer, NEW c \in Card, NEW want \in Purpose, Consume(p, c, want)
      PROVE  TypeOK'
  <2>1. Kept
    BY <1>1, <1>7, TransactionMoves DEF Consume
  <2> QED
    BY <1>1, <1>7, <2>1 DEF Consume, Kept, TypeOK, CallsTyped, ConsumerState, ConsumerPoint
<1>8. ASSUME NEW p \in Consumer, Consulting(p) \/ Crash(p)
      PROVE  TypeOK'
  <2>0. th[p] \in ConsumerState /\ Idle \in ConsumerState
    BY <1>1 DEF CallsTyped, ConsumerState, ConsumerPoint, Idle
  <2>1. th[p].pc # "idle" => On(p) \in Card
    BY <1>1, InRange DEF On, GrantInv, ConsumersGrounded, Grounded
  <2>2. CASE CheckGrant(p)
    <3>1. Kept
      BY <1>1, <2>2, TransactionMoves DEF CheckGrant
    <3> QED
      BY <1>1, <2>0, <2>2, <3>1 DEF CheckGrant, Goto, Leave, Kept, TypeOK, CallsTyped,
                              ConsumerState, ConsumerPoint
  <2>3. CASE Spend(p)
    <3>1. Kept
      BY <1>1, <2>1, <2>3, TransactionMoves DEF Spend, At
    <3>2. Goto(p, "call") \/ Leave(p)
      BY <2>3 DEF Spend
    <3> QED
      BY <1>1, <2>0, <2>3, <3>1, <3>2 DEF Spend, Goto, Leave, Kept, TypeOK, CallsTyped,
                              ConsumerState, ConsumerPoint
  <2>4. CASE Call(p)
    <3>1. Kept
      BY <1>1, <2>4, TransactionMoves DEF Call
    <3>0. On(p) \in Card /\ th[p].want \in Purpose \cup {NoPurpose}
      BY <2>0, <2>1, <2>4 DEF Call, At, ConsumerState
    <3>2. calls' \in [Card -> Nat] /\ callFor' \in [Card -> Purpose \cup {NoPurpose}]
      <4>1. calls' \in [Card -> Nat]
        BY <1>1, <2>4, <3>0 DEF Call, CallsTyped
      <4>2. callFor' \in [Card -> Purpose \cup {NoPurpose}]
        BY <1>1, <2>4, <3>0 DEF Call, CallsTyped
      <4> QED
        BY <4>1, <4>2
    <3>3. th' \in [Consumer -> ConsumerState]
      <4>1. PICK ok \in BOOLEAN : th' = [th EXCEPT ![p].pc = "settle", ![p].ok = ok]
        BY <2>4 DEF Call
      <4>2. [th[p] EXCEPT !.pc = "settle", !.ok = ok] \in ConsumerState
        BY <2>0, <4>1 DEF ConsumerState, ConsumerPoint
      <4>3. th' = [th EXCEPT ![p] = [th[p] EXCEPT !.pc = "settle", !.ok = ok]]
        BY <1>1, <4>1 DEF CallsTyped
      <4> QED
        BY <1>1, <4>2, <4>3 DEF CallsTyped
    <3> QED
      BY <1>1, <2>4, <3>1, <3>2, <3>3 DEF Call, Kept, TypeOK, CallsTyped
  <2>5. CASE Settle(p)
    <3>1. th[p].ok \in BOOLEAN /\ On(p) \in Card
      BY <2>0, <2>1, <2>5 DEF Settle, At, ConsumerState
    <3>2. Kept
      BY <1>1, <2>5, <3>1, TransactionMoves DEF Settle
    <3> QED
      BY <1>1, <2>0, <2>5, <3>2 DEF Settle, Leave, Kept, TypeOK, CallsTyped
  <2>6. CASE Crash(p)
    <3>1. Kept
      BY <1>1, <2>6, TransactionMoves DEF Crash
    <3> QED
      BY <1>1, <2>0, <2>6, <3>1 DEF Crash, Leave, Kept, TypeOK, CallsTyped
  <2> QED
    BY <1>8, <2>2, <2>3, <2>4, <2>5, <2>6 DEF Consulting
<1> QED
  BY <1>2, <1>3, <1>4, <1>5, <1>6, <1>7, <1>8 DEF Next

-----------------------------------------------------------------------------
(* What a step does to the cards                                           *)

\* Cards do not vanish and are not unspent; an approved card can only be
\* spent, blocked or closed; the envelope stays, and so does what the owner granted.
Later ==
    /\ created' \in Nat /\ created' >= created
    /\ CardsInOrder'
    /\ \A c \in Card : /\ status[c] \in Spent => status'[c] \in Spent
                       /\ granted[c] => granted'[c]
                       /\ c <= created => purposeOf'[c] = purposeOf[c]
    /\ GrantedCards'

\* Approval through a door: whatever it grants is approved.
LEMMA ApprovalGrants ==
    ASSUME StoreTypeOK, CallsTyped, GrantedCards, NEW door, NEW c \in Card, ApproveBy(door, c)
    PROVE  /\ Kept
           /\ granted' \in [Card -> BOOLEAN]
           /\ \A d \in Card : d # c => granted'[d] = granted[d] /\ status'[d] = status[d]
           /\ ~granted[c] /\ status[c] \in Awaiting
           /\ granted'[c] => status'[c] = "approved"
           /\ status'[c] \in {"approved", "expired"}
<1> DEFINE fresh == (Compared(door) = Hashed)
<1>1. fresh \in BOOLEAN
  OBVIOUS
<1>2. Approve(c, fresh) /\ granted' = [granted EXCEPT ![c] = fresh]
  BY DEF ApproveBy
<1> HIDE DEF fresh
<1>3. Kept
  BY <1>1, <1>2, TransactionMoves
<1>4. status[c] \in Awaiting /\ status' = [status EXCEPT ![c] = IF fresh THEN "approved" ELSE "expired"]
  BY <1>2 DEF Approve, Transition, Allowed
<1>5. ~granted[c]
  BY <1>4 DEF GrantedCards, Awaiting, Spent
<1>6. granted' \in [Card -> BOOLEAN]
  BY <1>1, <1>2 DEF CallsTyped
<1>7. granted'[c] = fresh /\ \A d \in Card : d # c => granted'[d] = granted[d]
  BY <1>2 DEF CallsTyped
<1>8. /\ status'[c] = IF fresh THEN "approved" ELSE "expired"
      /\ \A d \in Card : d # c => status'[d] = status[d]
  BY <1>4 DEF StoreTypeOK
<1> QED
  BY <1>3, <1>4, <1>5, <1>6, <1>7, <1>8

\* Every step moves the cards forward only.
LEMMA LaterStep ==
    ASSUME GrantInv, [Next]_vars
    PROVE  Later
<1>1. StoreTypeOK /\ CallsTyped /\ CardsInOrder /\ GrantedCards
  BY TypesApart DEF GrantInv
<1>2. ASSUME StoreMove, UNCHANGED <<granted, purposeOf>> PROVE Later
  BY <1>1, <1>2, OrderKept DEF CardsAge, Later, GrantedCards
<1>3. ASSUME NEW door, NEW c \in Card, ApproveBy(door, c), UNCHANGED purposeOf PROVE Later
  <2>1. StoreMove
    BY <1>1, <1>3, ApprovalGrants DEF Kept
  <2> QED
    BY <1>1, <1>3, <2>1, OrderKept, ApprovalGrants DEF CardsAge, Later, GrantedCards
<1>4. CASE UNCHANGED vars
  <2>1. StoreMove
    BY <1>1, <1>4, TransactionMoves DEF vars, Kept
  <2> QED
    BY <1>2, <1>4, <2>1 DEF vars, gvars
<1>5. ASSUME NEW want \in Purpose, RequestAuthorization(want) PROVE Later
  <2>0. NoChat \in Chat \cup {NoChat} /\ "plain" \in Kind
    BY GrantAssumption
  <2>1. StoreMove
    BY <1>1, <1>5, <2>0, TransactionMoves DEF RequestAuthorization
  <2>2. purposeOf' = [purposeOf EXCEPT ![created + 1] = want] /\ granted' = granted
    BY <1>5 DEF RequestAuthorization
  <2>3. \A c \in Card : c <= created => c # created + 1
    BY <1>1, CardsAssumption DEF StoreTypeOK, Card
  <2>4. \A c \in Card : c <= created => purposeOf'[c] = purposeOf[c]
    BY <1>1, <2>2, <2>3 DEF CallsTyped
  <2> QED
    BY <1>1, <2>1, <2>2, <2>4, OrderKept DEF CardsAge, Later, GrantedCards
<1>6. ASSUME NEW c \in Card, DirectApprove(c) PROVE Later
  BY <1>3, <1>6 DEF DirectApprove
<1>7. ASSUME NEW c \in Card, PipelineReply(c) \/ WebDeny(c) \/ ExpireAbandoned(c) \/ Overdue(c)
      PROVE  Later
  <2>1. Kept
    BY <1>1, <1>7, TransactionMoves DEF PipelineReply, WebDeny, ExpireAbandoned, Overdue
  <2> QED
    BY <1>2, <1>7, <2>1
       DEF Kept, PipelineReply, WebDeny, ExpireAbandoned, Overdue, gvars
<1>8. CASE PipelineApprove \/ PipelineBlock
  <2>1. reply.card \in Card
    BY <1>1, <1>8, InRange DEF PipelineApprove, PipelineBlock, GrantInv, ReplyGrounded
  <2>2. CASE PipelineApprove /\ ApproveBy("pipeline", reply.card)
    BY <1>3, <2>1, <2>2 DEF PipelineApprove
  <2>3. CASE PipelineApprove /\ Refused(reply.card, "approve") /\ UNCHANGED granted
    <3>1. Kept
      BY <1>1, <2>1, <2>3, TransactionMoves
    <3> QED
      BY <1>2, <2>3, <3>1 DEF Kept, PipelineApprove
  <2>4. CASE PipelineBlock
    <3>1. Kept
      BY <1>1, <2>1, <2>4, TransactionMoves DEF PipelineBlock
    <3> QED
      BY <1>2, <2>4, <3>1 DEF Kept, PipelineBlock
  <2> QED
    BY <1>8, <2>2, <2>3, <2>4 DEF PipelineApprove
<1>9. ASSUME NEW p \in Consumer,
             (\E c \in Card, want \in Purpose : Consume(p, c, want)) \/ Consulting(p) \/ Crash(p)
      PROVE  Later
  <2>1. th[p].pc # "idle" => On(p) \in Card
    BY <1>1, InRange DEF On, GrantInv, ConsumersGrounded, Grounded
  <2>2. th[p].ok \in BOOLEAN
    BY <1>1 DEF CallsTyped, ConsumerState
  <2>3. Kept
    <3>1. CASE Spend(p)
      BY <1>1, <2>1, <3>1, TransactionMoves DEF Spend, At
    <3>2. CASE Settle(p)
      BY <1>1, <2>1, <2>2, <3>2, TransactionMoves DEF Settle, At
    <3>3. CASE UNCHANGED cardVars
      BY <1>1, <3>3, TransactionMoves
    <3> QED
      BY <1>9, <3>1, <3>2, <3>3 DEF Consume, Consulting, CheckGrant, Call, Crash
  <2>4. UNCHANGED <<granted, purposeOf>>
    BY <1>9 DEF Consume, Consulting, CheckGrant, Spend, Call, Settle, Crash
  <2> QED
    BY <1>2, <2>3, <2>4 DEF Kept
<1> QED
  BY <1>4, <1>5, <1>6, <1>7, <1>8, <1>9 DEF Next

-----------------------------------------------------------------------------
(* The invariant is inductive                                              *)

\* A consumer's local state that was grounded is grounded later.
LEMMA StaysGrounded ==
    ASSUME StoreTypeOK, Later, NEW r, Grounded(r)
    PROVE  /\ r.pc # "idle" => r.card \in 1..created'
           /\ r.pc \in {"spend", "call"} => granted'[r.card] /\ purposeOf'[r.card] = r.want
<1>1. created \in Nat /\ created' \in Nat /\ created' >= created
  BY CardsAssumption DEF Later, StoreTypeOK
<1>2. r.pc # "idle" => r.card \in Card /\ r.card \in 1..created /\ r.card \in 1..created'
  BY <1>1, InRange DEF Grounded
<1> QED
  BY <1>2 DEF Grounded, Later

\* A card that was called under exists.
LEMMA CalledExist ==
    ASSUME StoreTypeOK, CardsInOrder, CallsSpent, NEW c \in Card, calls[c] # 0
    PROVE  c <= created
<1>1. status[c] # "absent"
  BY DEF CallsSpent, Spent
<1>2. c \in Nat /\ created \in Nat
  BY CardsAssumption DEF StoreTypeOK, Card
<1> QED
  BY <1>1, <1>2 DEF CardsInOrder

\* Steps that leave the consumers and their calls alone.
LEMMA CallsUntouched ==
    ASSUME GrantInv, Later, UNCHANGED <<th, calls, callFor>>
    PROVE  ConsumersGrounded' /\ CallsSpent' /\ CallOwned'
<1>1. StoreTypeOK /\ CallsTyped
  BY TypesApart DEF GrantInv
<1>2. \A p \in Consumer : th[p].pc # "idle" => On(p) \in Card
  BY <1>1, InRange DEF On, GrantInv, ConsumersGrounded, Grounded
<1>3. ConsumersGrounded'
  <2>1. \A p \in Consumer : Grounded(th[p])'
    BY <1>1, StaysGrounded DEF GrantInv, ConsumersGrounded, Grounded
  <2> QED
    BY <2>1 DEF ConsumersGrounded, Grounded
<1>4. \A c \in Card : calls[c] # 0 => c <= created
  BY <1>1, CalledExist DEF GrantInv
<1>5. CallsSpent'
  BY <1>4 DEF GrantInv, CallsSpent, Later
<1>6. CallOwned'
  BY <1>2 DEF GrantInv, CallOwned, Later, At, On
<1> QED
  BY <1>3, <1>5, <1>6

\* Steps of one consumer p that calls nothing: it begins, leaves, passes the
\* checks or settles.
LEMMA QuietConsumer ==
    ASSUME GrantInv, Later, NEW p \in Consumer, UNCHANGED <<calls, callFor>>,
           NEW r \in ConsumerState, th' = [th EXCEPT ![p] = r],
           r.pc \notin {"call", "settle"}, r.pc # "idle" => r.card \in 1..created',
           r.pc = "spend" => granted'[r.card] /\ purposeOf'[r.card] = r.want
    PROVE  ConsumersGrounded' /\ CallsSpent' /\ CallOwned'
<1>1. StoreTypeOK /\ CallsTyped
  BY TypesApart DEF GrantInv
<1>2. \A q \in Consumer : th[q].pc # "idle" => On(q) \in Card
  BY <1>1, InRange DEF On, GrantInv, ConsumersGrounded, Grounded
<1>3. th'[p] = r /\ \A q \in Consumer : q # p => th'[q] = th[q]
  BY <1>1 DEF CallsTyped
<1>4. ConsumersGrounded'
  <2>1. \A q \in Consumer : Grounded(th[q])'
    <3> SUFFICES ASSUME NEW q \in Consumer PROVE Grounded(th[q])'
      OBVIOUS
    <3>1. CASE q = p
      BY <1>3, <3>1 DEF Grounded
    <3>2. CASE q # p
      <4>1. Grounded(th[q]) /\ th'[q] = th[q]
        BY <1>3, <3>2 DEF GrantInv, ConsumersGrounded
      <4> QED
        BY <1>1, <4>1, StaysGrounded DEF Grounded
    <3> QED
      BY <3>1, <3>2
  <2> QED
    BY <2>1 DEF ConsumersGrounded, Grounded
<1>5. \A c \in Card : calls[c] # 0 => c <= created
  BY <1>1, CalledExist DEF GrantInv
<1>6. CallsSpent'
  BY <1>5 DEF GrantInv, CallsSpent, Later
<1>7. CallOwned'
  BY <1>2, <1>3 DEF GrantInv, CallOwned, Later, At, On
<1> QED
  BY <1>4, <1>6, <1>7

\* Every step keeps the invariant.
LEMMA GrantStep ==
    ASSUME GrantInv, [Next]_vars
    PROVE  GrantInv'
<1>1. StoreTypeOK /\ CallsTyped /\ TypeOK' /\ Later
  BY TypesApart, TypeStep, LaterStep DEF GrantInv
<1>2. CardsInOrder' /\ GrantedCards'
  BY <1>1 DEF Later
<1>3. Idle \in ConsumerState /\ Idle.pc = "idle"
  BY DEF ConsumerState, ConsumerPoint, Idle
<1>4. ReplyGrounded'
  <2>1. created \in Nat /\ created' \in Nat /\ created' >= created
    BY <1>1, CardsAssumption DEF Later, StoreTypeOK
  <2>2. \/ reply' = reply
        \/ reply'.pc = "idle"
        \/ reply'.card = reply.card /\ reply.pc # "idle"
        \/ \E c \in Card : reply' = [pc |-> "approve", card |-> c] /\ status[c] \in Awaiting
    <3>1. CASE PipelineApprove \/ PipelineBlock
      BY <1>1, <3>1 DEF PipelineApprove, PipelineBlock, NoReply, CallsTyped, ReplyState
    <3>2. CASE \E c \in Card : PipelineReply(c)
      BY <3>2 DEF PipelineReply
    <3>3. ASSUME NEW c \in Card, DirectApprove(c) \/ WebDeny(c) \/ ExpireAbandoned(c) \/ Overdue(c)
          PROVE  reply' = reply
      BY <3>3 DEF DirectApprove, WebDeny, ExpireAbandoned, Overdue, gvars
    <3>4. ASSUME NEW p \in Consumer,
                 (\E c \in Card, want \in Purpose : Consume(p, c, want)) \/ Consulting(p) \/ Crash(p)
          PROVE  reply' = reply
      BY <3>4 DEF Consume, Consulting, CheckGrant, Spend, Call, Settle, Crash
    <3>5. CASE UNCHANGED vars \/ \E want \in Purpose : RequestAuthorization(want)
      BY <3>5 DEF vars, gvars, RequestAuthorization
    <3> QED
      BY <3>1, <3>2, <3>3, <3>4, <3>5 DEF Next
  <2>3. \A c \in Card : status[c] \in Awaiting => c \in 1..created
    BY <2>1, CardsAssumption DEF GrantInv, CardsInOrder, Awaiting, Card
  <2> QED
    BY <2>1, <2>2, <2>3 DEF GrantInv, ReplyGrounded
<1>5. ASSUME ConsumersGrounded', CallsSpent', CallOwned' PROVE GrantInv'
  BY <1>1, <1>2, <1>4, <1>5 DEF GrantInv
<1>6. CASE UNCHANGED <<th, calls, callFor>>
  BY <1>1, <1>5, <1>6, CallsUntouched
<1>7. ASSUME NEW p \in Consumer, NEW c \in Card, NEW want \in Purpose, Consume(p, c, want)
      PROVE  GrantInv'
  <2> DEFINE r == [pc |-> "get", card |-> c, want |-> want, late |-> overdue[c], ok |-> FALSE]
  <2>1. r \in ConsumerState
    BY <1>1 DEF CallsTyped, ConsumerState, ConsumerPoint
  <2>2. c \in 1..created'
    <3>1. created \in Nat /\ created' \in Nat /\ created' >= created
      BY <1>1, CardsAssumption DEF Later, StoreTypeOK
    <3> QED
      BY <1>7, <3>1, CardsAssumption DEF Consume, Exists, GrantInv, CardsInOrder, Card
  <2>3. th' = [th EXCEPT ![p] = r] /\ UNCHANGED <<calls, callFor>>
    BY <1>7 DEF Consume
  <2>4. r.pc = "get" /\ r.card = c
    OBVIOUS
  <2> HIDE DEF r
  <2> QED
    BY <1>1, <1>5, <2>1, <2>2, <2>3, <2>4, QuietConsumer
<1>8. ASSUME NEW p \in Consumer, Leave(p), UNCHANGED <<calls, callFor>>
      PROVE  GrantInv'
  BY <1>1, <1>3, <1>5, <1>8, QuietConsumer DEF Leave
<1>9. ASSUME NEW p \in Consumer, CheckGrant(p) PROVE GrantInv'
  <2>1. CASE Leave(p)
    BY <1>8, <1>9, <2>1 DEF CheckGrant
  <2>2. CASE ~Leave(p)
    <3> DEFINE r == [th[p] EXCEPT !.pc = "spend"]
    <3>1. /\ th' = [th EXCEPT ![p] = r] /\ UNCHANGED <<calls, callFor, cardVars, granted, purposeOf>>
          /\ th[p].pc = "get" /\ granted[On(p)] /\ purposeOf[On(p)] = th[p].want
      BY <1>1, <1>9, <2>2 DEF CheckGrant, Goto, At, CallsTyped
    <3>2. r \in ConsumerState /\ r.pc = "spend" /\ r.card = On(p) /\ r.want = th[p].want
      BY <1>1 DEF CallsTyped, ConsumerState, ConsumerPoint, On
    <3>3. On(p) \in 1..created'
      BY <3>1 DEF GrantInv, ConsumersGrounded, Grounded, On, cardVars
    <3> HIDE DEF r
    <3> QED
      BY <1>1, <1>5, <3>1, <3>2, <3>3, QuietConsumer
  <2> QED
    BY <2>1, <2>2
<1>10. ASSUME NEW p \in Consumer, Spend(p) PROVE GrantInv'
  <2>1. CASE Leave(p)
    BY <1>8, <1>10, <2>1 DEF Spend
  <2>2. CASE ~Leave(p)
    <3>1. /\ th[p].pc = "spend" /\ MarkRunning(On(p)) /\ th' = [th EXCEPT ![p].pc = "call"]
          /\ UNCHANGED <<purposeOf, granted, calls, callFor>>
      BY <1>10, <2>2 DEF Spend, Goto, At
    <3>2. On(p) \in 1..created /\ On(p) \in Card /\ granted[On(p)] /\ purposeOf[On(p)] = th[p].want
      BY <1>1, <3>1, InRange DEF GrantInv, ConsumersGrounded, Grounded, On
    <3>3. /\ created' = created /\ status[On(p)] = "approved" /\ status'[On(p)] = "running"
      BY <1>1, <3>1, <3>2 DEF MarkRunning, Transition, Allowed, StoreTypeOK
    <3>4. /\ th'[p].pc = "call" /\ th'[p].card = On(p) /\ th'[p].want = th[p].want
          /\ \A q \in Consumer : q # p => th'[q] = th[q]
      BY <1>1, <3>1 DEF CallsTyped, ConsumerState, On
    <3>5. \A q \in Consumer : th[q].pc # "idle" => On(q) \in Card
      BY <1>1, InRange DEF On, GrantInv, ConsumersGrounded, Grounded
    <3>6. calls[On(p)] = 0 /\ \A q \in Consumer : At(q, "call") => On(q) # On(p)
      BY <3>2, <3>3 DEF GrantInv, CallsSpent, CallOwned, Spent
    <3>7. ConsumersGrounded'
      BY <3>1, <3>2, <3>3, <3>4 DEF GrantInv, ConsumersGrounded, Grounded
    <3>8. \A c \in Card : calls[c] # 0 => c <= created
      BY <1>1, CalledExist DEF GrantInv
    <3>9. CallsSpent'
      BY <1>1, <3>1, <3>8 DEF GrantInv, CallsSpent, Later
    <3>10. CallOwned'
      BY <1>1, <3>1, <3>2, <3>3, <3>4, <3>5, <3>6 DEF GrantInv, CallOwned, Later, At, On, Spent
    <3> QED
      BY <1>5, <3>7, <3>9, <3>10
  <2> QED
    BY <2>1, <2>2
<1>11. ASSUME NEW p \in Consumer, Call(p) PROVE GrantInv'
  <2>1. /\ th[p].pc = "call" /\ UNCHANGED <<cardVars, purposeOf, granted>>
        /\ calls' = [calls EXCEPT ![On(p)] = @ + 1]
        /\ callFor' = [callFor EXCEPT ![On(p)] = th[p].want]
    BY <1>11 DEF Call, At
  <2>2. On(p) \in Card /\ granted[On(p)] /\ purposeOf[On(p)] = th[p].want
    BY <1>1, <2>1, InRange DEF GrantInv, ConsumersGrounded, Grounded, On
  <2>3. /\ th'[p].pc = "settle" /\ th'[p].card = On(p)
        /\ \A q \in Consumer : q # p => th'[q] = th[q]
    BY <1>1, <1>11 DEF Call, CallsTyped, ConsumerState, On
  <2>4. calls[On(p)] = 0 /\ status[On(p)] \in Spent
    BY <2>1 DEF GrantInv, CallOwned, At
  <2>5. /\ calls'[On(p)] = 1 /\ callFor'[On(p)] = purposeOf[On(p)]
        /\ \A c \in Card : c # On(p) => calls'[c] = calls[c] /\ callFor'[c] = callFor[c]
    BY <1>1, <2>1, <2>2, <2>4 DEF CallsTyped
  <2>6. status' = status /\ created' = created
    BY <2>1 DEF cardVars
  <2>7. ConsumersGrounded'
    BY <2>1, <2>3, <2>6 DEF GrantInv, ConsumersGrounded, Grounded, On
  <2>8. CallsSpent'
    BY <2>1, <2>2, <2>4, <2>5, <2>6 DEF GrantInv, CallsSpent
  <2>9. \A q \in Consumer : th[q].pc # "idle" => On(q) \in Card
    BY <1>1, InRange DEF On, GrantInv, ConsumersGrounded, Grounded
  <2>10. CallOwned'
    <3>1. \A q \in Consumer : On(q)' = On(q) /\ (At(q, "call")' <=> q # p /\ At(q, "call"))
                              /\ (At(q, "settle")' <=> q = p \/ At(q, "settle"))
      BY <2>1, <2>3 DEF On, At
    <3>2. \A q \in Consumer : q # p /\ At(q, "call") => On(q) # On(p) /\ On(q) \in Card
      BY <2>1, <2>9 DEF GrantInv, CallOwned, At
    <3>3. \A q \in Consumer : At(q, "settle") => On(q) \in Card
      BY <2>9 DEF At
    <3> QED
      BY <2>4, <2>5, <2>6, <3>1, <3>2, <3>3 DEF GrantInv, CallOwned
  <2> QED
    BY <1>5, <2>7, <2>8, <2>10
<1>12. ASSUME NEW p \in Consumer, Settle(p) \/ Crash(p) PROVE GrantInv'
  BY <1>8, <1>12 DEF Settle, Crash
<1>13. CASE \E want \in Purpose : RequestAuthorization(want)
  BY <1>6, <1>13 DEF RequestAuthorization
<1>14. ASSUME NEW c \in Card, DirectApprove(c) \/ PipelineReply(c) \/ WebDeny(c)
                              \/ ExpireAbandoned(c) \/ Overdue(c)
       PROVE  GrantInv'
  BY <1>6, <1>14 DEF DirectApprove, PipelineReply, WebDeny, ExpireAbandoned, Overdue, gvars
<1>15. CASE PipelineApprove \/ PipelineBlock \/ UNCHANGED vars
  BY <1>6, <1>15 DEF PipelineApprove, PipelineBlock, vars, gvars
<1> QED
  BY <1>7, <1>9, <1>10, <1>11, <1>12, <1>13, <1>14, <1>15 DEF Next, Consulting

-----------------------------------------------------------------------------
(* Theorems                                                                *)

LEMMA Granted == Spec => []GrantInv
  BY GrantInit, GrantStep, PTL DEF Spec

\* Every variable keeps its type.
THEOREM GrantTypes == Spec => []TypeOK
<1>1. GrantInv => TypeOK
  BY DEF GrantInv
<1> QED
  BY <1>1, Granted, PTL

\* One approved grant pays for one call of the paid model, however many
\* consumers race for it, whatever becomes of the call and wherever they crash.
THEOREM OneCall == Spec => []OneCallPerGrant
<1>1. GrantInv => OneCallPerGrant
  BY DEF GrantInv, TypeOK, CallsSpent, OneCallPerGrant
<1> QED
  BY <1>1, Granted, PTL

\* No call without the owner's approval, or for another purpose than he approved.
THEOREM AuthorizedCalls == Spec => []CallsAreAuthorized
<1>1. ASSUME GrantInv, NEW c \in Card, calls[c] > 0
      PROVE  /\ granted[c] /\ callFor[c] = purposeOf[c]
             /\ status[c] \notin {"denied", "expired"} \cup Awaiting
  <2>1. calls[c] # 0
    BY <1>1 DEF GrantInv, TypeOK
  <2> QED
    BY <1>1, <2>1 DEF GrantInv, CallsSpent, Spent, Awaiting
<1>2. GrantInv => CallsAreAuthorized
  BY <1>1 DEF CallsAreAuthorized
<1> QED
  BY <1>2, Granted, PTL

-----------------------------------------------------------------------------
(* Spent grants are in hand                                                *)

\* A consumer that spent card c and has not settled it.
Paying(p, c) == On(p) = c /\ th[p].pc \in {"call", "settle"}

\* A card is set running only by the consumer that spends it.
LEMMA RunningBySpender ==
    ASSUME TypeOK, Next, NEW c \in Card, status'[c] = "running", status[c] # "running"
    PROVE  \E p \in Consumer : Paying(p, c)'
<1>1. status \in [Card -> CardStatus \cup {"absent"}] /\ th \in [Consumer -> ConsumerState]
  BY DEF TypeOK, StoreTypeOK
<1>2. ASSUME NEW want \in Purpose, RequestAuthorization(want)
      PROVE  FALSE
  BY <1>1, <1>2 DEF RequestAuthorization, CreateCard
<1>3. ASSUME NEW d \in Card, DirectApprove(d) \/ PipelineReply(d) \/ WebDeny(d)
                             \/ ExpireAbandoned(d) \/ Overdue(d)
      PROVE  FALSE
  BY <1>1, <1>3 DEF DirectApprove, ApproveBy, Approve, PipelineReply, WebDeny, Deny, ExpireAbandoned,
                    Expire, Overdue, Transition, cardVars
<1>4. ASSUME PipelineApprove \/ PipelineBlock
      PROVE  FALSE
  BY <1>1, <1>4 DEF PipelineApprove, PipelineBlock, ApproveBy, Approve, Block, Refused, Transition,
                    cardVars
<1>5. ASSUME NEW p \in Consumer,
             \/ \E d \in Card, want \in Purpose : Consume(p, d, want)
             \/ CheckGrant(p) \/ Call(p) \/ Settle(p) \/ Crash(p)
      PROVE  FALSE
  BY <1>1, <1>5 DEF Consume, CheckGrant, Call, Settle, Crash, MarkClosed, Refused, Transition, cardVars
<1>6. ASSUME NEW p \in Consumer, Spend(p)
      PROVE  Paying(p, c)'
  <2>1. MarkRunning(On(p)) /\ Goto(p, "call")
    BY <1>6 DEF Spend, Refused, cardVars
  <2>2. On(p) = c
    BY <1>1, <2>1 DEF MarkRunning, Transition
  <2> QED
    BY <1>1, <2>1, <2>2 DEF Goto, Paying, On, ConsumerState
<1> QED
  BY <1>2, <1>3, <1>4, <1>5, <1>6 DEF Next, Consulting

\* A consumer that spent a card goes on with it until the card is not running.
LEMMA PayersStay ==
    ASSUME TypeOK, Next, NEW c \in Card, NEW p \in Consumer, Paying(p, c),
           status[c] = "running", status'[c] = "running"
    PROVE  Paying(p, c)' \/ crashes' # 0
<1>1. /\ status \in [Card -> CardStatus \cup {"absent"}] /\ th \in [Consumer -> ConsumerState]
      /\ crashes \in Nat /\ On(p) = c /\ th[p].pc \in {"call", "settle"}
  BY DEF TypeOK, StoreTypeOK, Paying
<1>2. ASSUME th'[p] = th[p] PROVE Paying(p, c)'
  BY <1>1, <1>2 DEF Paying, On
<1>3. CASE \/ \E want \in Purpose : RequestAuthorization(want)
           \/ \E d \in Card : \/ DirectApprove(d) \/ PipelineReply(d) \/ WebDeny(d)
                              \/ ExpireAbandoned(d) \/ Overdue(d)
           \/ PipelineApprove \/ PipelineBlock
  BY <1>2, <1>3 DEF RequestAuthorization, DirectApprove, PipelineReply, WebDeny, ExpireAbandoned,
                    Overdue, PipelineApprove, PipelineBlock, gvars
<1>4. ASSUME NEW q \in Consumer,
             \/ \E d \in Card, want \in Purpose : Consume(q, d, want)
             \/ CheckGrant(q) \/ Spend(q)
      PROVE  Paying(p, c)'
  <2>1. q # p
    BY <1>1, <1>4 DEF Consume, CheckGrant, Spend, At
  <2> QED
    BY <1>1, <1>2, <1>4, <2>1 DEF Consume, CheckGrant, Spend, Goto, Leave
<1>5. ASSUME NEW q \in Consumer, Call(q)
      PROVE  Paying(p, c)'
  <2>1. CASE q # p
    BY <1>1, <1>2, <1>5, <2>1 DEF Call
  <2>2. CASE q = p
    BY <1>1, <1>5, <2>2 DEF Call, Paying, On, ConsumerState
  <2> QED
    BY <2>1, <2>2
<1>6. ASSUME NEW q \in Consumer, Settle(q)
      PROVE  Paying(p, c)'
  <2>1. q # p
    BY <1>1, <1>6 DEF Settle, MarkClosed, Refused, Transition, Allowed
  <2> QED
    BY <1>1, <1>2, <1>6, <2>1 DEF Settle, Leave
<1>7. ASSUME NEW q \in Consumer, Crash(q)
      PROVE  crashes' # 0
  BY <1>1, <1>7 DEF Crash
<1> QED
  BY <1>3, <1>4, <1>5, <1>6, <1>7 DEF Next, Consulting

\* A step leaves the count of crashes alone or raises it.
LEMMA CrashesCount ==
    ASSUME Next
    PROVE  crashes' = crashes \/ crashes' = crashes + 1
<1>1. CASE \/ \E want \in Purpose : RequestAuthorization(want)
           \/ \E d \in Card : \/ DirectApprove(d) \/ PipelineReply(d) \/ WebDeny(d)
                              \/ ExpireAbandoned(d) \/ Overdue(d)
           \/ PipelineApprove \/ PipelineBlock
  BY <1>1 DEF RequestAuthorization, DirectApprove, PipelineReply, WebDeny, ExpireAbandoned,
              Overdue, PipelineApprove, PipelineBlock, gvars
<1>2. ASSUME NEW q \in Consumer,
             \/ \E d \in Card, want \in Purpose : Consume(q, d, want)
             \/ CheckGrant(q) \/ Spend(q) \/ Call(q) \/ Settle(q)
      PROVE  crashes' = crashes
  BY <1>2 DEF Consume, CheckGrant, Spend, Call, Settle
<1>3. ASSUME NEW q \in Consumer, Crash(q)
      PROVE  crashes' = crashes + 1
  BY <1>3 DEF Crash
<1> QED
  BY <1>1, <1>2, <1>3 DEF Next, Consulting

LEMMA StrandStep ==
    ASSUME TypeOK, OnlyACrashStrands, [Next]_vars
    PROVE  OnlyACrashStrands'
<1>1. CASE UNCHANGED vars
  BY <1>1 DEF vars, gvars, cardVars, OnlyACrashStrands, On
<1>2. ASSUME Next, crashes' = 0, NEW c \in Card, status'[c] = "running"
      PROVE  \E p \in Consumer : Paying(p, c)'
  <2>1. CASE status[c] # "running"
    BY <1>2, <2>1, RunningBySpender
  <2>2. CASE status[c] = "running"
    <3>1. crashes = 0
      BY <1>2, CrashesCount DEF TypeOK
    <3>2. PICK p \in Consumer : Paying(p, c)
      BY <2>2, <3>1 DEF OnlyACrashStrands, Paying
    <3> QED
      BY <1>2, <2>2, <3>2, PayersStay
  <2> QED
    BY <2>1, <2>2
<1> QED
  BY <1>1, <1>2 DEF OnlyACrashStrands, Paying

\* Nothing looks for a running grant after its consumer is gone, and nothing
\* has to: whatever the owner, the web, the sweep and other consumers do, the
\* one that spent it is there until it is settled (frontier_grant.py).
THEOREM OnlyCrashesStrand == Spec => []OnlyACrashStrands
<1>1. Init => OnlyACrashStrands
  BY DEF Init, StoreInit, OnlyACrashStrands
<1>2. GrantInv => TypeOK
  BY DEF GrantInv
<1> QED
  BY <1>1, <1>2, Granted, StrandStep, PTL DEF Spec

-----------------------------------------------------------------------------
(* Refinement: every step is one of OneShotApproval's or a stutter         *)

\* A card whose status, calls and consumers stay is where it was.
SameCard(c) ==
    status'[c] = status[c] /\ calls'[c] = calls[c] /\ (InHand(c)' <=> InHand(c))

LEMMA SamePhase ==
    ASSUME NEW c \in Card, SameCard(c)
    PROVE  PhaseOf(c)' = PhaseOf(c)
<1>1. (status[c] \in Awaiting)' <=> status[c] \in Awaiting
  BY DEF SameCard, Awaiting
<1> QED
  BY <1>1 DEF SameCard, PhaseOf, Exists

\* No card changes its phase, and no call is made.
LEMMA Stutters ==
    ASSUME \A c \in Card : PhaseOf(c)' = PhaseOf(c), UNCHANGED calls
    PROVE  UNCHANGED OneShot!avars
  BY DEF OneShot!avars

\* One card changes its phase, the others stay.
OnlyPhaseOf(c, before, after) ==
    /\ PhaseOf(c) = before /\ PhaseOf(c)' = after
    /\ \A d \in Card \ {c} : PhaseOf(d)' = PhaseOf(d)

LEMMA Asks ==
    ASSUME NEW c \in Card, OnlyPhaseOf(c, "none", "asked"), UNCHANGED calls
    PROVE  OneShot!Next
<1>1. OneShot!Ask(c, {})
  BY DEF OneShot!Ask, OnlyPhaseOf
<1> QED
  BY <1>1 DEF OneShot!Next

LEMMA Grants ==
    ASSUME NEW c \in Card, OnlyPhaseOf(c, "asked", "granted"), UNCHANGED calls
    PROVE  OneShot!Next
<1>1. OneShot!Grant(c)
  BY DEF OneShot!Grant, OnlyPhaseOf
<1> QED
  BY <1>1 DEF OneShot!Next

LEMMA Spends ==
    ASSUME NEW c \in Card, OnlyPhaseOf(c, "granted", "spent"), UNCHANGED calls
    PROVE  OneShot!Next
<1>1. OneShot!Spend(c)
  BY DEF OneShot!Spend, OnlyPhaseOf
<1> QED
  BY <1>1 DEF OneShot!Next

LEMMA Acts ==
    ASSUME NEW c \in Card, OnlyPhaseOf(c, "spent", "spent"), calls[c] = 0,
           calls' = [calls EXCEPT ![c] = 1]
    PROVE  OneShot!Next
<1>1. OneShot!Act(c)
  BY DEF OneShot!Act, OnlyPhaseOf
<1> QED
  BY <1>1 DEF OneShot!Next

LEMMA Closes ==
    ASSUME NEW c \in Card, NEW before \in {"asked", "granted", "spent"},
           OnlyPhaseOf(c, before, "closed"), calls[c] = 0, UNCHANGED calls
    PROVE  OneShot!Next
<1>1. OneShot!Close({c})
  BY DEF OneShot!Close, OnlyPhaseOf
<1> QED
  BY <1>1 DEF OneShot!Next

\* In which phase a card is, from its status, its calls and its consumers.
LEMMA Phases ==
    ASSUME GrantInv, NEW c \in Card
    PROVE  /\ calls[c] # 0 => calls[c] = 1 /\ status[c] \in Spent /\ ~InHand(c)
           /\ InHand(c) => status[c] \in Spent
           /\ status[c] = "absent" => PhaseOf(c) = "none"
           /\ status[c] \in Awaiting => PhaseOf(c) = "asked" /\ calls[c] = 0
           /\ status[c] = "approved" => PhaseOf(c) = "granted" /\ calls[c] = 0
           /\ status[c] # "absent" /\ (calls[c] = 1 \/ InHand(c) \/ status[c] = "running")
                => PhaseOf(c) = "spent"
           /\ status[c] \in Terminal /\ calls[c] = 0 /\ ~InHand(c) => PhaseOf(c) = "closed"
<1>1. calls[c] # 0 => calls[c] = 1 /\ status[c] \in Spent
  BY DEF GrantInv, CallsSpent
<1>2. InHand(c) => calls[c] = 0 /\ status[c] \in Spent
  BY DEF GrantInv, CallOwned, InHand
<1> QED
  BY <1>1, <1>2 DEF PhaseOf, Exists, Awaiting, Terminal, Spent

\* The phases after a step, which also ends in a state of the invariant.
LEMMA PhasesAfter ==
    ASSUME GrantInv', NEW c \in Card
    PROVE  /\ status'[c] \in Awaiting => PhaseOf(c)' = "asked"
           /\ status'[c] = "approved" => PhaseOf(c)' = "granted"
           /\ status'[c] # "absent" /\ (calls'[c] = 1 \/ InHand(c)' \/ status'[c] = "running")
                => PhaseOf(c)' = "spent"
           /\ status'[c] \in Terminal /\ calls'[c] = 0 /\ ~InHand(c)' => PhaseOf(c)' = "closed"
<1>1. calls'[c] # 0 => calls'[c] = 1 /\ status'[c] \in Spent
  BY DEF GrantInv, CallsSpent
<1>2. InHand(c)' => calls'[c] = 0 /\ status'[c] \in Spent
  BY DEF GrantInv, CallOwned, InHand
<1>3. PhaseOf(c)' = IF status'[c] = "absent" THEN "none"
                    ELSE IF calls'[c] = 1 \/ InHand(c)' \/ status'[c] = "running" THEN "spent"
                    ELSE IF status'[c] \in Awaiting THEN "asked"
                    ELSE IF status'[c] = "approved" THEN "granted"
                    ELSE "closed"
  BY DEF PhaseOf, Exists, Awaiting
<1> QED
  BY <1>1, <1>2, <1>3 DEF Awaiting, Terminal, Spent

\* A card that was closed by the store from before its call: closed, unless it
\* is in hand, when nothing has changed for the owner.
LEMMA StoreCloses ==
    ASSUME GrantInv, GrantInv', NEW c \in Card, status[c] # "absent", status[c] \notin Terminal,
           status'[c] \in Terminal, UNCHANGED calls,
           \A d \in Card : InHand(d)' <=> InHand(d),
           \A d \in Card : d # c => status'[d] = status[d]
    PROVE  [OneShot!Next]_OneShot!avars
<1>1. \A d \in Card \ {c} : PhaseOf(d)' = PhaseOf(d)
  BY SamePhase DEF SameCard
<1>2. status[c] \in CardStatus
  BY DEF GrantInv, TypeOK, StoreTypeOK
<1>3. CASE calls[c] # 0 \/ InHand(c)
  <2>1. PhaseOf(c) = "spent" /\ PhaseOf(c)' = "spent"
    BY <1>3, Phases, PhasesAfter DEF Terminal
  <2> QED
    BY <1>1, <2>1, Stutters
<1>4. CASE calls[c] = 0 /\ ~InHand(c)
  <2>1. PhaseOf(c)' = "closed"
    BY <1>4, PhasesAfter
  <2>2. PhaseOf(c) \in {"asked", "granted", "spent"}
    BY <1>2, Phases DEF CardStatus, Awaiting, Terminal
  <2>3. OnlyPhaseOf(c, PhaseOf(c), "closed")
    BY <1>1, <2>1 DEF OnlyPhaseOf
  <2> QED
    BY <1>4, <2>2, <2>3, Closes
<1> QED
  BY <1>3, <1>4

\* What one consumer does: who else has a card in hand stays the same.
LEMMA InHandAfter ==
    ASSUME CallsTyped, NEW p \in Consumer, NEW r, th' = [th EXCEPT ![p] = r]
    PROVE  \A c \in Card :
             /\ InHand(c)' <=> \/ r.pc = "call" /\ r.card = c
                               \/ \E q \in Consumer \ {p} : At(q, "call") /\ On(q) = c
             /\ InHand(c) <=> \/ At(p, "call") /\ On(p) = c
                              \/ \E q \in Consumer \ {p} : At(q, "call") /\ On(q) = c
<1>1. th'[p] = r /\ \A q \in Consumer : q # p => th'[q] = th[q]
  BY DEF CallsTyped
<1>2. \A c \in Card : InHand(c)' <=> \E q \in Consumer : th'[q].pc = "call" /\ th'[q].card = c
  BY DEF InHand, At, On
<1> QED
  BY <1>1, <1>2 DEF InHand, At, On

\* Steps that leave the cards and their calls alone, and who has one in hand.
LEMMA NothingHappens ==
    ASSUME UNCHANGED <<status, calls>>, \A c \in Card : InHand(c)' <=> InHand(c)
    PROVE  [OneShot!Next]_OneShot!avars
  BY SamePhase, Stutters DEF SameCard

\* Approval through a door grants the card, or closes it.
LEMMA ApprovalRefines ==
    ASSUME GrantInv, GrantInv', NEW door, NEW c \in Card, ApproveBy(door, c),
           UNCHANGED <<th, calls>>
    PROVE  [OneShot!Next]_OneShot!avars
<1>1. /\ status[c] \in Awaiting /\ status'[c] \in {"approved", "expired"}
      /\ \A d \in Card : d # c => status'[d] = status[d]
  BY TypesApart, ApprovalGrants DEF GrantInv
<1>2. \A d \in Card : InHand(d)' <=> InHand(d)
  BY DEF InHand, At, On
<1>3. CASE status'[c] = "expired"
  BY <1>1, <1>2, <1>3, StoreCloses DEF Awaiting, Terminal
<1>4. CASE status'[c] = "approved"
  <2>1. \A d \in Card \ {c} : PhaseOf(d)' = PhaseOf(d)
    BY <1>1, <1>2, SamePhase DEF SameCard
  <2>2. OnlyPhaseOf(c, "asked", "granted")
    BY <1>1, <1>4, <2>1, Phases, PhasesAfter DEF OnlyPhaseOf
  <2> QED
    BY <2>2, Grants
<1> QED
  BY <1>1, <1>3, <1>4

\* Every step implements a step of OneShotApproval, or none.
LEMMA StepRefines ==
    ASSUME GrantInv, GrantInv', [Next]_vars
    PROVE  [OneShot!Next]_OneShot!avars
<1>1. StoreTypeOK /\ CallsTyped
  BY TypesApart DEF GrantInv
<1>0. Idle.pc # "call"
  BY DEF Idle
<1>2. UNCHANGED th => \A d \in Card : InHand(d)' <=> InHand(d)
  BY DEF InHand, At, On
<1>3. CASE UNCHANGED vars
  BY <1>2, <1>3, NothingHappens DEF vars, gvars, cardVars
<1>4. ASSUME NEW want \in Purpose, RequestAuthorization(want)
      PROVE  [OneShot!Next]_OneShot!avars
  <2>0. PICK c \in Card : c = created + 1
    BY <1>4 DEF RequestAuthorization, CreateCard
  <2>1. /\ UNCHANGED <<th, calls>>
        /\ \A d \in Card : status'[d] = IF d = c THEN "open" ELSE status[d]
    BY <1>4, <2>0 DEF RequestAuthorization, CreateCard, Superseded
  <2>2. c > created
    BY <1>1, <2>0, CardsAssumption DEF StoreTypeOK
  <2>3. status[c] = "absent"
    BY <2>2 DEF GrantInv, CardsInOrder
  <2>4. \A d \in Card \ {c} : PhaseOf(d)' = PhaseOf(d)
    BY <1>2, <2>1, SamePhase DEF SameCard
  <2>5. PhaseOf(c) = "none" /\ PhaseOf(c)' = "asked"
    BY <2>1, <2>3, Phases, PhasesAfter DEF Awaiting
  <2> QED
    BY <2>1, <2>4, <2>5, Asks DEF OnlyPhaseOf
<1>5. ASSUME NEW c \in Card, DirectApprove(c) PROVE [OneShot!Next]_OneShot!avars
  BY <1>5, ApprovalRefines DEF DirectApprove
<1>6. ASSUME NEW c \in Card, PipelineReply(c) \/ Overdue(c)
      PROVE  [OneShot!Next]_OneShot!avars
  BY <1>2, <1>6, NothingHappens DEF PipelineReply, Overdue, cardVars
<1>7. ASSUME NEW c \in Card, WebDeny(c) \/ ExpireAbandoned(c)
      PROVE  [OneShot!Next]_OneShot!avars
  <2>1. /\ status[c] \in Awaiting /\ status'[c] \in {"denied", "expired"}
        /\ \A d \in Card : d # c => status'[d] = status[d]
    BY <1>1, <1>7 DEF WebDeny, ExpireAbandoned, Deny, Expire, Transition, Allowed, StoreTypeOK
  <2>2. UNCHANGED <<th, calls>>
    BY <1>7 DEF WebDeny, ExpireAbandoned, gvars
  <2> QED
    BY <1>2, <2>1, <2>2, StoreCloses DEF Awaiting, Terminal
<1>8. CASE PipelineApprove
  <2>1. reply.card \in Card
    BY <1>1, <1>8, InRange DEF PipelineApprove, GrantInv, ReplyGrounded
  <2>2. CASE ApproveBy("pipeline", reply.card)
    BY <1>8, <2>1, <2>2, ApprovalRefines DEF PipelineApprove
  <2>3. CASE UNCHANGED cardVars
    BY <1>2, <1>8, <2>3, NothingHappens DEF PipelineApprove, cardVars
  <2> QED
    BY <1>8, <2>2, <2>3 DEF PipelineApprove, Refused
<1>9. CASE PipelineBlock
  <2>1. reply.card \in Card /\ UNCHANGED <<th, calls>>
    BY <1>1, <1>9, InRange DEF PipelineBlock, GrantInv, ReplyGrounded
  <2>2. CASE Block(reply.card)
    <3>1. /\ status[reply.card] \in Awaiting \cup {"approved", "running"}
          /\ status'[reply.card] = "blocked"
          /\ \A d \in Card : d # reply.card => status'[d] = status[d]
      BY <1>1, <2>1, <2>2 DEF Block, Transition, Allowed, StoreTypeOK
    <3> QED
      BY <1>2, <2>1, <3>1, StoreCloses DEF Awaiting, Terminal
  <2>3. CASE UNCHANGED cardVars
    BY <1>2, <2>1, <2>3, NothingHappens DEF cardVars
  <2> QED
    BY <1>9, <2>2, <2>3 DEF PipelineBlock, Refused
<1>10. ASSUME NEW p \in Consumer, NEW r, th' = [th EXCEPT ![p] = r], r.pc # "call",
              ~At(p, "call"), UNCHANGED <<status, calls>>
       PROVE  [OneShot!Next]_OneShot!avars
  <2>1. \A d \in Card : InHand(d)' <=> InHand(d)
    BY <1>1, <1>10, InHandAfter
  <2> QED
    BY <1>10, <2>1, NothingHappens
<1>11. ASSUME NEW p \in Consumer, NEW c \in Card, NEW want \in Purpose, Consume(p, c, want)
       PROVE  [OneShot!Next]_OneShot!avars
  <2> DEFINE r == [pc |-> "get", card |-> c, want |-> want, late |-> overdue[c], ok |-> FALSE]
  <2>1. th' = [th EXCEPT ![p] = r] /\ r.pc # "call" /\ ~At(p, "call") /\ UNCHANGED <<status, calls>>
    BY <1>11 DEF Consume, At, cardVars
  <2> HIDE DEF r
  <2> QED
    BY <1>10, <2>1
<1>12. ASSUME NEW p \in Consumer, CheckGrant(p) PROVE [OneShot!Next]_OneShot!avars
  <2>1. ~At(p, "call") /\ UNCHANGED <<status, calls>>
    BY <1>12 DEF CheckGrant, At, cardVars
  <2>2. CASE Leave(p)
    BY <1>0, <1>10, <2>1, <2>2 DEF Leave
  <2>3. CASE Goto(p, "spend")
    <3> DEFINE r == [th[p] EXCEPT !.pc = "spend"]
    <3>1. th' = [th EXCEPT ![p] = r] /\ r.pc # "call"
      BY <1>1, <2>3 DEF Goto, CallsTyped, ConsumerState
    <3> HIDE DEF r
    <3> QED
      BY <1>10, <2>1, <3>1
  <2> QED
    BY <1>12, <2>2, <2>3 DEF CheckGrant
<1>13. ASSUME NEW p \in Consumer, Spend(p) PROVE [OneShot!Next]_OneShot!avars
  <2>0. At(p, "spend") /\ ~At(p, "call") /\ On(p) \in Card /\ UNCHANGED calls
    BY <1>1, <1>13, InRange DEF Spend, At, On, GrantInv, ConsumersGrounded, Grounded
  <2>1. CASE Refused(On(p), "start") /\ Leave(p)
    BY <1>0, <1>10, <2>0, <2>1 DEF Refused, Leave, cardVars
  <2>2. CASE MarkRunning(On(p)) /\ Goto(p, "call")
    <3>0. PICK c \in Card : c = On(p)
      BY <2>0
    <3> DEFINE r == [th[p] EXCEPT !.pc = "call"]
    <3>1. th' = [th EXCEPT ![p] = r] /\ r.pc = "call" /\ r.card = c
      BY <1>1, <2>2, <3>0 DEF Goto, CallsTyped, ConsumerState, On
    <3>2. /\ status[c] = "approved" /\ status'[c] = "running"
          /\ \A d \in Card : d # c => status'[d] = status[d]
      BY <1>1, <2>2, <3>0 DEF MarkRunning, Transition, Allowed, StoreTypeOK
    <3> HIDE DEF r
    <3>3. \A d \in Card : d # c => (InHand(d)' <=> InHand(d))
      BY <1>1, <2>0, <3>1, InHandAfter
    <3>4. \A d \in Card \ {c} : PhaseOf(d)' = PhaseOf(d)
      BY <2>0, <3>2, <3>3, SamePhase DEF SameCard
    <3>5. PhaseOf(c) = "granted" /\ PhaseOf(c)' = "spent"
      BY <3>2, Phases, PhasesAfter
    <3> QED
      BY <2>0, <3>4, <3>5, Spends DEF OnlyPhaseOf
  <2> QED
    BY <1>13, <2>1, <2>2 DEF Spend
<1>14. ASSUME NEW p \in Consumer, Call(p) PROVE [OneShot!Next]_OneShot!avars
  <2>0. On(p) \in Card /\ At(p, "call") /\ UNCHANGED status
    BY <1>1, <1>14, InRange DEF Call, At, On, GrantInv, ConsumersGrounded, Grounded, cardVars
  <2>1. PICK c \in Card : c = On(p)
    BY <2>0
  <2>2. calls[c] = 0 /\ status[c] \in Spent
    BY <2>0, <2>1 DEF GrantInv, CallOwned
  <2>3. calls' = [calls EXCEPT ![c] = 1]
    BY <1>1, <1>14, <2>1, <2>2 DEF Call, CallsTyped
  <2>4. PICK r : th' = [th EXCEPT ![p] = r] /\ r.pc = "settle"
    <3>1. PICK ok \in BOOLEAN : th' = [th EXCEPT ![p].pc = "settle", ![p].ok = ok]
      BY <1>14 DEF Call
    <3>2. th' = [th EXCEPT ![p] = [th[p] EXCEPT !.pc = "settle", !.ok = ok]]
      BY <1>1, <3>1 DEF CallsTyped
    <3>3. [th[p] EXCEPT !.pc = "settle", !.ok = ok].pc = "settle"
      BY <1>1 DEF CallsTyped, ConsumerState
    <3> QED
      BY <3>2, <3>3
  <2>5. \A d \in Card : d # c => (InHand(d)' <=> InHand(d))
    BY <1>1, <2>0, <2>1, <2>4, InHandAfter
  <2>6. \A d \in Card \ {c} : PhaseOf(d)' = PhaseOf(d)
    BY <1>1, <2>0, <2>3, <2>5, SamePhase DEF SameCard, CallsTyped
  <2>7. PhaseOf(c) = "spent" /\ PhaseOf(c)' = "spent"
    <3>1. InHand(c) /\ status[c] # "absent" /\ calls'[c] = 1
      BY <1>1, <2>0, <2>1, <2>2, <2>3 DEF InHand, CallsTyped, Spent
    <3> QED
      BY <2>0, <3>1, Phases, PhasesAfter
  <2> QED
    BY <2>2, <2>3, <2>6, <2>7, Acts DEF OnlyPhaseOf
<1>15. ASSUME NEW p \in Consumer, Settle(p) PROVE [OneShot!Next]_OneShot!avars
  <2>0. /\ At(p, "settle") /\ ~At(p, "call") /\ On(p) \in Card /\ UNCHANGED calls
        /\ th' = [th EXCEPT ![p] = Idle]
    BY <1>1, <1>15, InRange DEF Settle, At, On, GrantInv, ConsumersGrounded, Grounded, Leave
  <2>1. PICK c \in Card : c = On(p)
    BY <2>0
  <2>2. \A d \in Card : InHand(d)' <=> InHand(d)
    BY <1>0, <1>1, <2>0, InHandAfter
  <2>3. \A d \in Card : d # c => status'[d] = status[d]
    BY <1>1, <1>15, <2>1 DEF Settle, MarkClosed, Transition, Refused, cardVars, StoreTypeOK
  <2>4. calls[c] = 1 /\ calls'[c] = 1 /\ status[c] # "absent" /\ status'[c] # "absent"
    BY <2>0, <2>1 DEF GrantInv, CallOwned, CallsSpent, Spent
  <2>5. PhaseOf(c) = "spent" /\ PhaseOf(c)' = "spent"
    BY <2>4, Phases, PhasesAfter
  <2>6. \A d \in Card : PhaseOf(d)' = PhaseOf(d)
    BY <2>0, <2>2, <2>3, <2>5, SamePhase DEF SameCard
  <2> QED
    BY <2>0, <2>6, Stutters
<1>16. ASSUME NEW p \in Consumer, Crash(p) PROVE [OneShot!Next]_OneShot!avars
  <2>1. th' = [th EXCEPT ![p] = Idle] /\ UNCHANGED <<status, calls>>
    BY <1>16 DEF Crash, Leave, cardVars
  <2>2. CASE ~At(p, "call")
    BY <1>0, <1>10, <2>1, <2>2
  <2>3. CASE At(p, "call")
    <3>0. PICK c \in Card : c = On(p)
      BY <1>1, <2>3, InRange DEF At, On, GrantInv, ConsumersGrounded, Grounded
    <3>1. /\ InHand(c) /\ calls[c] = 0 /\ status[c] \in Spent
          /\ \A q \in Consumer : At(q, "call") /\ On(q) = c => q = p
      BY <2>3, <3>0 DEF InHand, GrantInv, CallOwned
    <3>2. ~InHand(c)' /\ \A d \in Card : d # c => (InHand(d)' <=> InHand(d))
      <4> DEFINE Elsewhere(d) == \E q \in Consumer \ {p} : At(q, "call") /\ On(q) = d
      <4>1. \A d \in Card :
              /\ InHand(d)' <=> (Idle.pc = "call" /\ Idle.card = d) \/ Elsewhere(d)
              /\ InHand(d) <=> (At(p, "call") /\ On(p) = d) \/ Elsewhere(d)
        BY <1>1, <2>1, InHandAfter
      <4>2. ~Elsewhere(c)
        BY <3>1
      <4> HIDE DEF Elsewhere
      <4> QED
        BY <1>0, <3>0, <4>1, <4>2
    <3>3. \A d \in Card \ {c} : PhaseOf(d)' = PhaseOf(d)
      BY <2>1, <3>2, SamePhase DEF SameCard
    <3>4. PhaseOf(c) = "spent"
      BY <3>1, Phases DEF Spent
    <3>5. CASE status[c] = "running"
      <4>1. PhaseOf(c)' = "spent"
        BY <2>1, <3>1, <3>5, PhasesAfter
      <4> QED
        BY <2>1, <3>3, <3>4, <4>1, Stutters
    <3>6. CASE status[c] # "running"
      <4>1. PhaseOf(c)' = "closed"
        BY <2>1, <3>1, <3>2, <3>6, PhasesAfter DEF Spent, Terminal
      <4> QED
        BY <2>1, <3>1, <3>3, <3>4, <4>1, Closes DEF OnlyPhaseOf
    <3> QED
      BY <3>5, <3>6
  <2> QED
    BY <2>2, <2>3
<1> QED
  BY <1>3, <1>4, <1>5, <1>6, <1>7, <1>8, <1>9, <1>11, <1>12, <1>13, <1>14, <1>15, <1>16
     DEF Next, Consulting

\* At first no card has been asked.
LEMMA InitRefines == Init => OneShot!Init
<1> SUFFICES ASSUME Init PROVE OneShot!Init
  OBVIOUS
<1>1. \A c \in Card : PhaseOf(c) = "none"
  BY DEF Init, StoreInit, PhaseOf, Exists
<1> QED
  BY <1>1 DEF Init, OneShot!Init

\* A frontier grant is the promise of OneShotApproval: asked, granted once,
\* spent once, and only a spent grant pays for its one call.
THEOREM GrantsAreOneShot == Spec => ImplementsOneShot
<1>1. GrantInv /\ GrantInv' /\ [Next]_vars => [OneShot!Next]_OneShot!avars
  BY StepRefines
<1> QED
  BY <1>1, InitRefines, Granted, PTL DEF Spec, ImplementsOneShot, OneShot!Spec
=============================================================================
