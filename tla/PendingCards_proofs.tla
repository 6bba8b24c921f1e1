------------------------ MODULE PendingCards_proofs ------------------------
(***************************************************************************)
(* Proofs about the pending-cards store: what one transaction can do to    *)
(* it, whoever calls it.  The modules with the proofs of its callers       *)
(* extend this one.                                                        *)
(***************************************************************************)
EXTENDS PendingCards, TLAPS

-----------------------------------------------------------------------------
(* What a step can do to the store                                         *)

\* The statuses each transition moves to.
Target(move) ==
    CASE move = "approve" -> {"approved", "running", "expired"}
      [] move = "deny" -> {"denied"}
      [] move = "expire" -> {"expired"}
      [] move = "defer" -> {"deferred"}
      [] move = "reopen" -> {"open"}
      [] move = "start" -> {"running"}
      [] move = "close" -> {"done", "failed"}
      [] move = "block" -> {"blocked", "failed"}

Moves == {"approve", "deny", "expire", "defer", "reopen", "start", "close", "block"}

\* A card is created, or one card makes one allowed transition, or no status
\* changes at all.
StoreMove ==
    \/ UNCHANGED <<created, status, kind, chatOf>>
    \/ \E c \in Card, k \in Kind, ch \in Chat \cup {NoChat}, b \in BOOLEAN : CreateCard(c, k, ch, b)
    \/ \E c \in Card, move \in Moves : \E new \in Target(move) : Transition(c, move, new)

\* A move that creates no card, with the columns typed as before.
Kept == StoreMove /\ StoreTypeOK' /\ UNCHANGED <<created, kind, chatOf>>

\* A transition keeps the columns it does not write, and writes a status.
LEMMA TransitionMoves ==
    ASSUME StoreTypeOK, NEW c \in Card, NEW move \in Moves, NEW new \in Target(move),
           Transition(c, move, new),
           remind' \in [Card -> {"none", "later", "due"}], deferCount' \in [Card -> Nat]
    PROVE  Kept
<1>1. StoreMove
  BY DEF StoreMove
<1>2. new \in CardStatus
  BY DEF Moves, Target, CardStatus, Awaiting, Terminal
<1> QED
  BY <1>1, <1>2 DEF Kept, Transition, StoreTypeOK, columns

\* Every transaction is a move of the store, and keeps its columns typed.
LEMMA TransactionMoves ==
    ASSUME StoreTypeOK
    PROVE  /\ UNCHANGED cardVars => Kept
           /\ \A c \in Card : \A move : Refused(c, move) => Kept
           /\ \A k \in Kind, ch \in Chat \cup {NoChat}, b \in BOOLEAN :
                CreateCard(created + 1, k, ch, b) => StoreMove /\ StoreTypeOK'
           /\ \A c \in Card, fresh \in BOOLEAN : Approve(c, fresh) => Kept
           /\ \A c \in Card : Deny(c) => Kept
           /\ \A c \in Card : Expire(c) => Kept
           /\ \A c \in Card : Block(c) => Kept
           /\ \A c \in Card : MarkRunning(c) => Kept
           /\ \A c \in Card, ok \in BOOLEAN : MarkClosed(c, ok) => Kept
           /\ \A c \in Card, n \in Nat, when \in {"none", "later"} :
                Defer(c, n, when) => Kept
           /\ \A c \in Card : ReOpen(c) => Kept
           /\ \A c \in Card : AttachMessage(c) => Kept
<1>1. UNCHANGED cardVars => Kept
  BY DEF Kept, StoreMove, StoreTypeOK, cardVars, columns
<1>2. \A c \in Card : \A move : Refused(c, move) => Kept
  BY <1>1 DEF Refused
<1>3. ASSUME NEW k \in Kind, NEW ch \in Chat \cup {NoChat}, NEW b \in BOOLEAN,
             CreateCard(created + 1, k, ch, b)
      PROVE  StoreMove /\ StoreTypeOK'
  <2>1. created + 1 \in Card
    BY <1>3 DEF CreateCard
  <2>2. StoreMove
    BY <1>3, <2>1 DEF StoreMove
  <2>3. created' \in 0..MaxCards
    BY <1>3, <2>1, CardsAssumption DEF CreateCard, Card
  <2>4. status' \in [Card -> CardStatus \cup {"absent"}]
    BY <1>3 DEF CreateCard, StoreTypeOK, CardStatus, Awaiting, Terminal
  <2> QED
    BY <1>3, <2>2, <2>3, <2>4, CardsAssumption DEF CreateCard, StoreTypeOK
<1>4. ASSUME NEW c \in Card, NEW fresh \in BOOLEAN, Approve(c, fresh)
      PROVE  Kept
  <2>1. PICK new \in Target("approve") : Transition(c, "approve", new)
    BY <1>4 DEF Approve, Target
  <2> QED
    BY <1>4, <2>1, TransitionMoves DEF Approve, StoreTypeOK, Moves
<1>5. \A c \in Card : Deny(c) => Kept
  BY TransitionMoves DEF Deny, StoreTypeOK, Moves, Target
<1>6. \A c \in Card : Expire(c) => Kept
  BY TransitionMoves DEF Expire, StoreTypeOK, Moves, Target
<1>7. \A c \in Card : Block(c) => Kept
  BY TransitionMoves DEF Block, StoreTypeOK, Moves, Target
<1>8. \A c \in Card : MarkRunning(c) => Kept
  BY TransitionMoves DEF MarkRunning, StoreTypeOK, Moves, Target
<1>9. ASSUME NEW c \in Card, NEW ok \in BOOLEAN, MarkClosed(c, ok)
      PROVE  Kept
  <2>1. PICK new \in Target("close") : Transition(c, "close", new)
    BY <1>9 DEF MarkClosed, Target
  <2> QED
    BY <1>9, <2>1, TransitionMoves DEF MarkClosed, StoreTypeOK, Moves
<1>10. ASSUME NEW c \in Card, NEW n \in Nat, NEW when \in {"none", "later"}, Defer(c, n, when)
       PROVE  Kept
  BY <1>10, TransitionMoves DEF Defer, StoreTypeOK, Moves, Target
<1>11. \A c \in Card : ReOpen(c) => Kept
  BY TransitionMoves DEF ReOpen, StoreTypeOK, Moves, Target
<1>12. \A c \in Card : AttachMessage(c) => Kept
  BY DEF Kept, AttachMessage, StoreMove, StoreTypeOK, columns
<1> QED
  BY <1>1, <1>2, <1>3, <1>4, <1>5, <1>6, <1>7, <1>8, <1>9, <1>10, <1>11, <1>12

\* The empty store is typed.
LEMMA StoreInitTyped ==
    ASSUME StoreInit
    PROVE  StoreTypeOK
  BY CardsAssumption DEF StoreInit, StoreTypeOK, CardKind
-----------------------------------------------------------------------------
(* The order of a card's statuses                                          *)

\* Statuses of a card once it was spent, or blocked or closed after its approval.
Spent == {"running", "done", "failed", "blocked"}

\* Statuses of a card nobody is asked about any more.
Settled == CardStatus \ Awaiting

\* The cards that exist are the first ones.
CardsInOrder == \A c \in Card : status[c] = "absent" <=> c > created

\* A step keeps the cards in order, settled cards settled and spent cards spent.
CardsAge ==
    /\ CardsInOrder' /\ created' \in Nat /\ created' >= created
    /\ \A c \in Card : /\ status[c] \in Settled => status'[c] \in Settled
                       /\ status[c] \in Spent => status'[c] \in Spent
                       /\ status[c] = "approved" => status'[c] \in {"approved"} \cup Spent

LEMMA OrderKept ==
    ASSUME StoreTypeOK, CardsInOrder, StoreMove
    PROVE  CardsAge
<1>1. CASE UNCHANGED <<created, status, kind, chatOf>>
  BY <1>1, CardsAssumption DEF CardsAge, CardsInOrder, StoreTypeOK
<1>2. ASSUME NEW c \in Card, NEW k \in Kind, NEW ch \in Chat \cup {NoChat}, NEW b \in BOOLEAN,
             CreateCard(c, k, ch, b)
      PROVE  CardsAge
  <2>1. c = created + 1 /\ created' = c /\ created \in Nat /\ Card \subseteq Nat
    BY <1>2, CardsAssumption DEF CreateCard, StoreTypeOK, Card
  <2>2. \A d \in Card : status'[d] = IF d = c THEN "open"
                                     ELSE IF d \in Superseded(ch) THEN "expired" ELSE status[d]
    BY <1>2 DEF CreateCard
  <2>3. \A d \in Superseded(ch) : status[d] \in {"open", "deferred"}
    BY DEF Superseded, Awaiting
  <2>4. status[c] = "absent"
    BY <2>1 DEF CardsInOrder
  <2>5. \A d \in Card : status'[d] = "absent" <=> d > created'
    BY <2>1, <2>2, <2>3, <2>4 DEF CardsInOrder
  <2>6. \A d \in Card : status[d] \notin Awaiting \cup {"absent"} => status'[d] = status[d]
    BY <2>2, <2>3, <2>4 DEF Awaiting
  <2>7. \A d \in Card : status[d] \in Settled \cup Spent \cup {"approved"}
                        => status[d] \notin Awaiting \cup {"absent"}
    BY DEF Settled, Spent, CardStatus, Awaiting, Terminal
  <2> QED
    BY <2>1, <2>5, <2>6, <2>7 DEF CardsAge, CardsInOrder
<1>3. ASSUME NEW c \in Card, NEW move \in Moves, NEW new \in Target(move), Transition(c, move, new)
      PROVE  CardsAge
  <2>1. created' = created /\ created \in Nat /\ status' = [status EXCEPT ![c] = new]
    BY <1>3, CardsAssumption DEF Transition, StoreTypeOK
  <2>2. status[c] # "absent" /\ new # "absent"
    BY <1>3 DEF Transition, Allowed, Moves, Target, Awaiting
  <2>3. /\ status[c] \in Settled => new \in Settled
        /\ status[c] \in Spent => new \in Spent
        /\ status[c] = "approved" => new \in {"approved"} \cup Spent
    BY <1>3 DEF Transition, Allowed, Moves, Target, Awaiting, Terminal, CardStatus, Spent, Settled
  <2> QED
    BY <2>1, <2>2, <2>3 DEF CardsAge, CardsInOrder, StoreTypeOK
<1> QED
  BY <1>1, <1>2, <1>3 DEF StoreMove
=============================================================================
