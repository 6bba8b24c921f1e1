------------------------ MODULE CardPipeline_proofs ------------------------
(***************************************************************************)
(* Proofs about CardPipeline, for any number of cards, threads, chats and  *)
(* crashes and any surroundings.                                           *)
(*                                                                         *)
(* The argument has three layers.  StoreMove says what one step of the     *)
(* program can do to the store, and ThreadMove what it can do to the       *)
(* processes; the lemmas StoreMoves and ThreadMoves prove it action by     *)
(* action.  The invariants are then preserved by every move.               *)
(***************************************************************************)
EXTENDS CardPipeline, PendingCards_proofs, WellFoundedInduction

-----------------------------------------------------------------------------
(* The inductive invariant                                                 *)

\* Statuses of a card whose action has not been started.
Unstarted == {"absent", "approved", "denied", "expired"} \cup Awaiting

\* What a process's local variables r say, n cards of kinds kd existing: the
\* cards it holds exist, and those it approves or runs are of a kind that its
\* control point admits.
Grounded(r, n, kd) ==
    /\ r.snap \subseteq 1..n
    /\ r.pc = "route" => r.snap # {}
    /\ r.pc \notin {"idle", "route", "remind", "sweep"} => r.card \in 1..n
    /\ r.pc = "approve" => kd[r.card] \notin {"guarded", "dialog"}
    /\ r.pc = "will" => kd[r.card] \in {"plain", "impersonation"}
    /\ r.pc \in {"start", "execute"} => kd[r.card] = "plain"

ProcsGrounded == \A p \in Proc : Grounded(th[p], created, kind)

\* A process about to execute an action is the only one and the first.
RunOwned ==
    /\ \A p \in Proc :
         At(p, "execute") => runs[On(p)] = 0 /\ status[On(p)] \notin Unstarted
    /\ \A p, q \in Proc :
         At(p, "execute") /\ At(q, "execute") /\ On(p) = On(q) => p = q

\* Only started cards of the plain kind have run.
RunsStarted ==
    \A c \in Card : runs[c] # 0 => status[c] \notin Unstarted /\ kind[c] = "plain"

Base == TypeOK /\ CardsInOrder /\ ProcsGrounded

RunInv == Base /\ RunOwned /\ RunsStarted /\ RunsAtMostOnce

-----------------------------------------------------------------------------
(* What a step can do to the processes                                     *)

\* A set of cards has a newest one.
LEMMA NewestIsCard ==
    ASSUME NEW S \in SUBSET Card, S # {}
    PROVE  Newest(S) \in S
<1> DEFINE T == {MaxCards - c : c \in S}
<1> DEFINE R == OpToRel(<, Nat)
<1>1. T \subseteq Nat /\ T # {}
  BY CardsAssumption DEF Card
<1>2. PICK m \in T : \A n \in T : <<n, m>> \notin R
  BY <1>1, NatLessThanWellFounded, WFMin
<1>3. \A n \in T : ~(n < m)
  BY <1>1, <1>2 DEF OpToRel
<1>4. PICK x \in S : m = MaxCards - x
  OBVIOUS
<1>5. ASSUME NEW y \in S PROVE x >= y
  <2>1. MaxCards - y \in T
    OBVIOUS
  <2>2. ~(MaxCards - y < MaxCards - x)
    BY <2>1, <1>3, <1>4
  <2> QED
    BY <2>2, CardsAssumption DEF Card
<1> QED
  BY <1>5 DEF Newest, Max

\* One process takes a step to grounded local variables, or a crash leaves
\* every process idle, or none moves.
ThreadMove ==
    \/ th' = th
    \/ th' = [p \in Proc |-> Idle]
    \/ \E p \in Proc, r \in ThreadState :
         th' = [th EXCEPT ![p] = r] /\ Grounded(r, created', kind')

\* Cards with a status are among those created.
LEMMA ExistingCards ==
    ASSUME Base, NEW c \in Card, status[c] # "absent"
    PROVE  c \in 1..created
  BY CardsAssumption DEF Base, CardsInOrder, TypeOK, StoreTypeOK, Card

\* Leave and Take are thread moves.
LEMMA LeaveMoves ==
    ASSUME Base, NEW p \in Proc, Leave(p)
    PROVE  ThreadMove
<1>1. Idle \in ThreadState
  BY DEF Idle, ThreadState, Point
<1>2. Grounded(Idle, created', kind')
  BY DEF Idle, Grounded
<1> QED
  BY <1>1, <1>2 DEF Leave, ThreadMove

\* The control points at which a process holds a card.
Holding == Point \ {"idle", "route", "remind", "sweep"}

\* What a point demands of the kind k of the card in hand.
Admits(point, k) ==
    /\ point = "approve" => k \notin {"guarded", "dialog"}
    /\ point = "will" => k \in {"plain", "impersonation"}
    /\ point \in {"start", "execute"} => k = "plain"

\* A process that keeps its card and goes to a point that admits its kind
\* stays grounded, whatever it writes to its other variables.
LEMMA HoldMoves ==
    ASSUME Base, NEW p \in Proc, NEW r \in ThreadState,
           th' = [th EXCEPT ![p] = r],
           th[p].pc \in Holding, r.pc \in Holding,
           r.card = th[p].card, r.snap = th[p].snap,
           Admits(r.pc, kind[On(p)]), UNCHANGED <<created, kind>>
    PROVE  ThreadMove
<1>1. Grounded(th[p], created, kind)
  BY DEF Base, ProcsGrounded
<1>2. Grounded(r, created', kind')
  BY <1>1 DEF Grounded, Holding, Admits, On
<1> QED
  BY <1>2 DEF ThreadMove

\* The same for a process that changes nothing but its control point.
LEMMA GotoMoves ==
    ASSUME Base, NEW p \in Proc, NEW point \in Holding, Goto(p, point),
           th[p].pc \in Holding, Admits(point, kind[On(p)]), UNCHANGED <<created, kind>>
    PROVE  ThreadMove
<1> DEFINE r == [th[p] EXCEPT !.pc = point]
<1>1. th \in [Proc -> ThreadState] /\ th[p] \in ThreadState
  BY DEF Base, TypeOK
<1>2. r \in ThreadState /\ r.pc = point /\ r.card = th[p].card /\ r.snap = th[p].snap
  BY <1>1 DEF ThreadState, Holding
<1>3. th' = [th EXCEPT ![p] = r]
  BY <1>1 DEF Goto
<1> HIDE DEF r
<1> QED
  BY <1>2, <1>3, HoldMoves

\* And for a process that also writes its flag.
LEMMA FlagMoves ==
    ASSUME Base, NEW p \in Proc, NEW point \in Holding, NEW flag \in BOOLEAN,
           th' = [th EXCEPT ![p].pc = point, ![p].flag = flag],
           th[p].pc \in Holding, Admits(point, kind[On(p)]), UNCHANGED <<created, kind>>
    PROVE  ThreadMove
<1> DEFINE r == [th[p] EXCEPT !.pc = point, !.flag = flag]
<1>1. th \in [Proc -> ThreadState] /\ th[p] \in ThreadState
  BY DEF Base, TypeOK
<1>2. r \in ThreadState /\ r.pc = point /\ r.card = th[p].card /\ r.snap = th[p].snap
  BY <1>1 DEF ThreadState, Holding
<1>3. th' = [th EXCEPT ![p] = r]
  BY <1>1
<1> HIDE DEF r
<1> QED
  BY <1>2, <1>3, HoldMoves

\* And for a process idle until now that takes up an existing card.
LEMMA TakeMoves ==
    ASSUME Base, NEW p \in Proc, NEW point \in Holding, NEW c \in Card, Take(p, point, c),
           c \in 1..created', point \notin {"approve", "will", "start", "execute"}
    PROVE  ThreadMove
<1> DEFINE r == [Idle EXCEPT !.pc = point, !.card = c]
<1>1. r \in ThreadState
  BY DEF Idle, ThreadState, Holding
<1>2. Grounded(r, created', kind')
  BY DEF Idle, Grounded, Holding
<1>3. th' = [th EXCEPT ![p] = r]
  BY DEF Take
<1> HIDE DEF r
<1> QED
  BY <1>1, <1>2, <1>3 DEF ThreadMove

\* A process in a handler holds an existing card.
LEMMA HoldingCard ==
    ASSUME Base, NEW p \in Proc, th[p].pc \in Holding
    PROVE  /\ On(p) \in Card /\ On(p) \in 1..created
           /\ th[p] \in ThreadState /\ Grounded(th[p], created, kind)
<1>1. Grounded(th[p], created, kind) /\ th[p] \in ThreadState
  BY DEF Base, ProcsGrounded, TypeOK
<1>2. 1..created \subseteq Card
  BY CardsAssumption DEF Base, TypeOK, StoreTypeOK, Card
<1> QED
  BY <1>1, <1>2 DEF Grounded, Holding, On

-----------------------------------------------------------------------------
(* Every action moves as described                                         *)

\* Types of the variables outside the store and the processes.
StoresTyped ==
    /\ audit \in [Card -> Outcome] /\ satisfied \in [Card -> BOOLEAN] /\ runs \in [Card -> Nat]
    /\ old \in [Card -> BOOLEAN] /\ crashes \in Nat

Move == StoreMove /\ ThreadMove /\ StoreTypeOK' /\ StoresTyped'

LEMMA QuietStores ==
    ASSUME Base, UNCHANGED <<stores, old, crashes>>
    PROVE  StoresTyped'
  BY DEF Base, TypeOK, StoresTyped, stores

LEMMA ApprovingMoves ==
    ASSUME Base, NEW p \in Thread \cup {Cockpit}, Approving(p)
    PROVE  Move
<1> USE DEF Move, Kept
<1>1. p \in Proc
  BY DEF Proc
<1>2. StoreTypeOK /\ StoresTyped
  BY DEF Base, TypeOK, StoresTyped
<1>3. CASE Judge(p)
  <2>1. Kept /\ StoresTyped' /\ th[p].pc \in Holding
    BY <1>2, <1>3, QuietStores, TransactionMoves DEF Judge, At, Holding, Point
  <2>2. CASE RequiresS7(On(p))
    BY <1>1, <1>3, <2>1, <2>2, GotoMoves DEF Judge, Holding, Point, Admits
  <2>3. CASE ~RequiresS7(On(p))
    <3>1. PICK fresh \in FreshVerdicts(On(p)) :
            th' = [th EXCEPT ![p].pc = "approve", ![p].flag = fresh]
      BY <1>3, <2>3 DEF Judge
    <3>2. fresh \in BOOLEAN
      BY <3>1 DEF FreshVerdicts
    <3>3. Admits("approve", kind[On(p)])
      BY <2>3 DEF Admits, RequiresS7
    <3> QED
      BY <1>1, <2>1, <3>1, <3>2, <3>3, FlagMoves DEF Holding, Point
  <2> QED
    BY <2>2, <2>3
<1>4. CASE ApproveCard(p)
  <2>1. th[p].pc \in Holding /\ StoresTyped'
    BY <1>4, QuietStores DEF ApproveCard, At, Holding, Point
  <2>2. On(p) \in Card /\ th[p].flag \in BOOLEAN /\ kind[On(p)] \in CardKind \ {"guarded", "dialog"}
    BY <1>1, <1>2, <1>4, <2>1, HoldingCard DEF ApproveCard, At, On, ThreadState, StoreTypeOK, Grounded
  <2>3. Kept
    BY <1>2, <1>4, <2>2, TransactionMoves DEF ApproveCard
  <2>4. \/ Leave(p)
        \/ \E point \in {"want", "will", "block"} :
             Goto(p, point) /\ (point = "will" => kind[On(p)] # "want")
    BY <1>4 DEF ApproveCard
  <2> QED
    BY <1>1, <2>1, <2>2, <2>3, <2>4, LeaveMoves, GotoMoves DEF Holding, Point, Admits, CardKind
<1>5. CASE BlockCard(p)
  <2>1. th[p].pc \in Holding /\ StoresTyped'
    BY <1>5, QuietStores DEF BlockCard, At, Holding, Point
  <2> QED
    BY <1>1, <1>2, <1>5, <2>1, HoldingCard, TransactionMoves, LeaveMoves DEF BlockCard
<1>6. CASE ConfirmWant(p)
  <2>1. th[p].pc \in Holding
    BY <1>6 DEF ConfirmWant, At, Holding, Point
  <2>2. Kept /\ StoresTyped'
    BY <1>2, <1>6, TransactionMoves DEF ConfirmWant, StoresTyped
  <2>3. PICK ok \in BOOLEAN : th' = [th EXCEPT ![p].pc = "wantclose", ![p].flag = ok]
    BY <1>6 DEF ConfirmWant
  <2>4. "wantclose" \in Holding /\ Admits("wantclose", kind[On(p)])
    BY DEF Holding, Point, Admits
  <2>5. UNCHANGED <<created, kind>>
    BY <2>2
  <2>6. ThreadMove
    BY <1>1, <2>1, <2>3, <2>4, <2>5, FlagMoves
  <2> QED
    BY <2>2, <2>6
<1>7. CASE WillCheck(p)
  <2>1. th[p].pc \in Holding
    BY <1>7 DEF WillCheck, At, Holding, Point
  <2>2. Kept /\ StoresTyped'
    BY <1>2, <1>7, TransactionMoves DEF WillCheck, StoresTyped, Outcome
  <2>3. kind[On(p)] \in {"plain", "impersonation"}
    BY <1>1, <1>7, <2>1, HoldingCard DEF WillCheck, At, On, Grounded
  <2>4. \E point \in {"willdeny", "start"} :
          Goto(p, point) /\ (point = "start" => kind[On(p)] = "plain")
    BY <1>7, <2>3 DEF WillCheck, WillRefuses
  <2> QED
    BY <1>1, <2>1, <2>2, <2>4, GotoMoves DEF Holding, Point, Admits
<1>8. CASE WillDeny(p)
  <2>1. th[p].pc \in Holding /\ StoresTyped'
    BY <1>8, QuietStores DEF WillDeny, At, Holding, Point
  <2> QED
    BY <1>1, <1>2, <1>8, <2>1, HoldingCard, TransactionMoves, LeaveMoves DEF WillDeny
<1>9. CASE StartRun(p)
  <2>1. th[p].pc \in Holding /\ StoresTyped'
    BY <1>9, QuietStores DEF StartRun, At, Holding, Point
  <2>2. Kept
    BY <1>1, <1>2, <1>9, <2>1, HoldingCard, TransactionMoves DEF StartRun
  <2>3. kind[On(p)] = "plain"
    BY <1>1, <1>9, <2>1, HoldingCard DEF StartRun, At, On, Grounded
  <2> QED
    BY <1>1, <1>9, <2>1, <2>2, <2>3, LeaveMoves, GotoMoves DEF StartRun, Holding, Point, Admits
<1>10. CASE Execute(p)
  <2>1. th[p].pc \in Holding
    BY <1>10 DEF Execute, At, Holding, Point
  <2>2. Kept /\ StoresTyped'
    BY <1>1, <1>2, <1>10, <2>1, HoldingCard, TransactionMoves DEF Execute, StoresTyped
  <2>3. PICK ok \in BOOLEAN : th' = [th EXCEPT ![p].pc = "close", ![p].flag = ok]
    BY <1>10 DEF Execute
  <2>4. "close" \in Holding /\ Admits("close", kind[On(p)])
    BY DEF Holding, Point, Admits
  <2>5. UNCHANGED <<created, kind>>
    BY <2>2
  <2>6. ThreadMove
    BY <1>1, <2>1, <2>3, <2>4, <2>5, FlagMoves
  <2> QED
    BY <2>2, <2>6
<1>11. CASE CloseCard(p)
  <2>1. th[p].pc \in Holding /\ StoresTyped'
    BY <1>11, QuietStores DEF CloseCard, At, Holding, Point
  <2>2. On(p) \in Card /\ th[p].flag \in BOOLEAN
    BY <1>1, <2>1, HoldingCard DEF ThreadState
  <2>3. Kept
    BY <1>2, <1>11, <2>2, TransactionMoves DEF CloseCard
  <2>4. \E point \in {"record", "wantrecord"} : Goto(p, point)
    BY <1>11 DEF CloseCard
  <2> QED
    BY <1>1, <2>1, <2>3, <2>4, GotoMoves DEF Holding, Point, Admits
<1>12. CASE RecordOutcome(p)
  <2>1. Kept /\ StoresTyped'
    BY <1>2, <1>12, TransactionMoves DEF RecordOutcome, StoresTyped, Outcome
  <2> QED
    BY <1>1, <1>12, <2>1, LeaveMoves DEF RecordOutcome
<1> QED
  BY <1>3, <1>4, <1>5, <1>6, <1>7, <1>8, <1>9, <1>10, <1>11, <1>12 DEF Approving

LEMMA ReplyingMoves ==
    ASSUME Base, NEW t \in Thread, Replying(t)
    PROVE  Move
<1> USE DEF Move, Kept
<1>1. t \in Proc
  BY DEF Proc
<1>2. StoreTypeOK /\ StoresTyped
  BY DEF Base, TypeOK, StoresTyped
<1>3. CASE Route(t)
  <2>1. Kept /\ StoresTyped'
    BY <1>2, <1>3, QuietStores, TransactionMoves DEF Route
  <2>2. /\ th \in [Proc -> ThreadState] /\ th[t] \in ThreadState
        /\ th[t].snap \in SUBSET Card /\ th[t].aim \in Card \cup {NoCard}
        /\ th[t].snap # {} /\ th[t].snap \subseteq 1..created
    <3>1. th[t] \in ThreadState /\ Grounded(th[t], created, kind)
      BY <1>1 DEF Base, TypeOK, ProcsGrounded
    <3> QED
      BY <1>3, <3>1 DEF Route, At, Grounded, ThreadState, Base, TypeOK
  <2>3. Newest(th[t].snap) \in th[t].snap
    BY <2>2, NewestIsCard
  <2>4. Hit(t) => th[t].aim \in Card /\ th[t].aim \in 1..created
    BY <2>2, ExistingCards DEF Hit, Awaiting
  <2>5. PickTarget(t) \in Card /\ PickTarget(t) \in 1..created
    BY <2>2, <2>3 DEF PickTarget
  <2>6. PICK c \in Card, point \in {"dialog", "newestdialog", "classify"} :
          c \in 1..created /\ th' = [th EXCEPT ![t].card = c, ![t].pc = point]
    BY <1>3, <2>4, <2>5 DEF Route
  <2> DEFINE r == [th[t] EXCEPT !.card = c, !.pc = point]
  <2>7. r \in ThreadState /\ Grounded(r, created, kind)
    BY <2>2, <2>6 DEF ThreadState, Point, Grounded
  <2>8. th' = [th EXCEPT ![t] = r]
    BY <1>1, <2>2, <2>6
  <2> HIDE DEF r
  <2> QED
    BY <1>1, <2>1, <2>7, <2>8 DEF ThreadMove
<1>4. CASE ReplyApprove(t)
  BY <1>1, <1>2, <1>4, QuietStores, TransactionMoves, GotoMoves
     DEF ReplyApprove, At, Holding, Point, Admits
<1>5. CASE ReplyToDialog(t)
  BY <1>1, <1>2, <1>5, QuietStores, TransactionMoves, GotoMoves
     DEF ReplyToDialog, At, Holding, Point, Admits
<1>6. CASE ReplyNone(t)
  BY <1>1, <1>2, <1>6, QuietStores, TransactionMoves, LeaveMoves DEF ReplyNone
<1>7. ASSUME NEW i \in Intent, ReplyDeny(t, i)
      PROVE  Move
  <2>1. th[t].pc \in Holding /\ StoresTyped'
    BY <1>7, QuietStores DEF ReplyDeny, At, Holding, Point
  <2>2. Kept
    BY <1>1, <1>2, <1>7, <2>1, HoldingCard, TransactionMoves DEF ReplyDeny
  <2>3. Leave(t) \/ Goto(t, "rejected")
    BY <1>7 DEF ReplyDeny
  <2> QED
    BY <1>1, <2>1, <2>2, <2>3, LeaveMoves, GotoMoves DEF Holding, Point, Admits
<1>8. CASE ReplyDefer(t)
  <2>1. Kept /\ StoresTyped' /\ th[t].pc \in Holding
    BY <1>2, <1>8, QuietStores, TransactionMoves DEF ReplyDefer, At, Holding, Point
  <2>2. On(t) \in Card /\ th[t] \in ThreadState /\ th \in [Proc -> ThreadState]
    BY <1>1, <2>1, HoldingCard DEF Base, TypeOK
  <2> DEFINE r == [th[t] EXCEPT !.pc = "defer", !.count = deferCount[On(t)]]
  <2>3. r \in ThreadState /\ r.pc = "defer" /\ r.card = th[t].card /\ r.snap = th[t].snap
    BY <1>2, <2>2 DEF ThreadState, Point, StoreTypeOK
  <2>4. th' = [th EXCEPT ![t] = r]
    BY <1>1, <1>8, <2>2 DEF ReplyDefer
  <2>5. "defer" \in Holding /\ Admits("defer", kind[On(t)])
    BY DEF Holding, Point, Admits
  <2> HIDE DEF r
  <2>6. ThreadMove
    BY <1>1, <2>1, <2>3, <2>4, <2>5, HoldMoves
  <2> QED
    BY <2>1, <2>6
<1>9. CASE DeferCard(t)
  <2>1. th[t].pc \in Holding /\ StoresTyped'
    BY <1>9, QuietStores DEF DeferCard, At, Holding, Point
  <2>2. On(t) \in Card /\ th[t].count \in Nat
    BY <1>1, <2>1, HoldingCard DEF ThreadState
  <2> QED
    BY <1>1, <1>2, <1>9, <2>1, <2>2, TransactionMoves, LeaveMoves DEF DeferCard
<1>10. CASE DialogTurn(t)
  <2>1. th[t].pc \in Holding /\ StoresTyped'
    BY <1>10, QuietStores DEF DialogTurn, At, Holding, Point
  <2>2. Kept
    BY <1>1, <1>2, <1>10, <2>1, HoldingCard, TransactionMoves DEF DialogTurn
  <2>3. Leave(t) \/ \E point \in {"classify", "block", "rejected"} : Goto(t, point)
    BY <1>10 DEF DialogTurn
  <2> QED
    BY <1>1, <2>1, <2>2, <2>3, LeaveMoves, GotoMoves DEF Holding, Point, Admits
<1>11. CASE RecordRejection(t)
  <2>1. Kept /\ StoresTyped'
    BY <1>2, <1>11, TransactionMoves DEF RecordRejection, StoresTyped, Outcome
  <2> QED
    BY <1>1, <1>11, <2>1, LeaveMoves DEF RecordRejection
<1> QED
  BY <1>3, <1>4, <1>5, <1>6, <1>7, <1>8, <1>9, <1>10, <1>11 DEF Replying

LEMMA ProposeMoves ==
    ASSUME Base, NEW t \in Thread, NEW k \in Kind, NEW ch \in Chats, NEW b \in BOOLEAN,
           Propose(t, k, ch, b)
    PROVE  Move
<1>1. t \in Proc /\ ch \in Chat \cup {NoChat}
  BY DEF Proc, Chats
<1>2. StoreMove /\ StoreTypeOK' /\ StoresTyped'
  BY <1>1, QuietStores, TransactionMoves DEF Base, TypeOK, Propose
<1>3. created + 1 \in Card /\ created + 1 \in 1..created'
  BY CardsAssumption DEF Propose, CreateCard, Card
<1>4. "present" \in Holding
  BY DEF Holding, Point
<1>5. ThreadMove
  BY <1>1, <1>3, <1>4, TakeMoves DEF Propose
<1> QED
  BY <1>2, <1>5 DEF Move

LEMMA PresentMoves ==
    ASSUME Base, NEW t \in Thread, Present(t) \/ LinkDialog(t)
    PROVE  Move
<1>1. t \in Proc /\ th[t].pc \in Holding
  BY DEF Proc, Present, LinkDialog, At, Holding, Point
<1>2. Kept /\ StoresTyped'
  BY <1>1, HoldingCard, QuietStores, TransactionMoves DEF Base, TypeOK, Present, LinkDialog
<1>3. Leave(t) \/ Goto(t, "link") \/ Goto(t, "block")
  BY DEF Present, Presented, LinkDialog
<1> QED
  BY <1>1, <1>2, <1>3, LeaveMoves, GotoMoves DEF Move, Kept, Holding, Point, Admits

LEMMA SnapshotMoves ==
    ASSUME Base, NEW t \in Thread, NEW ch \in Chats, NEW a \in Card \cup {NoCard},
           NEW k \in 0..(IF a = NoCard THEN 0 ELSE posts[a]), ReplySnapshot(t, ch, a, k)
    PROVE  Move
<1> DEFINE r == [Idle EXCEPT !.pc = "route", !.snap = OpenCards(ch), !.aim = a, !.post = k]
<1>1. Kept /\ StoresTyped'
  BY QuietStores, TransactionMoves DEF Base, TypeOK, ReplySnapshot
<1>2. OpenCards(ch) \subseteq Card /\ OpenCards(ch) \subseteq 1..created /\ OpenCards(ch) # {}
  BY ExistingCards DEF OpenCards, Awaiting, ReplySnapshot
<1>3. k \in Nat
  BY PipelineAssumption DEF Base, TypeOK, StoreTypeOK, ReplySnapshot
<1>4. r \in ThreadState /\ Grounded(r, created, kind)
  BY <1>2, <1>3 DEF ThreadState, Point, Idle, Grounded
<1>5. t \in Proc /\ th' = [th EXCEPT ![t] = r]
  BY DEF Proc, ReplySnapshot
<1> HIDE DEF r
<1> QED
  BY <1>1, <1>4, <1>5 DEF Move, Kept, ThreadMove

\* A list of existing cards that the cycle reads at points of its own.
LEMMA ListMoves ==
    ASSUME Base, NEW point \in {"remind", "sweep"}, NEW S \in SUBSET Card, S \subseteq 1..created,
           \/ th' = [th EXCEPT ![Cycle] = [Idle EXCEPT !.pc = point, !.snap = S]]
           \/ th' = [th EXCEPT ![Cycle].pc = point, ![Cycle].snap = S]
           \/ th' = [th EXCEPT ![Cycle].snap = S] /\ At(Cycle, point),
           UNCHANGED <<created, kind>>
    PROVE  ThreadMove
<1>1. Cycle \in Proc /\ th \in [Proc -> ThreadState] /\ th[Cycle] \in ThreadState
  BY DEF Proc, Base, TypeOK
<1>2. [Idle EXCEPT !.pc = point, !.snap = S] \in ThreadState
  BY DEF Idle, ThreadState, Point
<1>3. [th[Cycle] EXCEPT !.pc = point, !.snap = S] \in ThreadState
  BY <1>1 DEF ThreadState, Point
<1>4. PICK r \in ThreadState :
        th' = [th EXCEPT ![Cycle] = r] /\ r.pc = point /\ r.snap = S
  <2>1. CASE th' = [th EXCEPT ![Cycle] = [Idle EXCEPT !.pc = point, !.snap = S]]
    <3> DEFINE r == [Idle EXCEPT !.pc = point, !.snap = S]
    <3>1. r.pc = point /\ r.snap = S
      BY DEF Idle
    <3> HIDE DEF r
    <3> QED
      BY <1>2, <2>1, <3>1 DEF r
  <2> DEFINE q == [th[Cycle] EXCEPT !.pc = point, !.snap = S]
  <2>2. q \in ThreadState /\ q.pc = point /\ q.snap = S
    BY <1>3, <1>1 DEF ThreadState
  <2>3. CASE th' = [th EXCEPT ![Cycle].pc = point, ![Cycle].snap = S]
    <3>1. th' = [th EXCEPT ![Cycle] = q]
      BY <1>1, <2>3
    <3> HIDE DEF q
    <3> QED
      BY <2>2, <3>1
  <2>4. CASE th' = [th EXCEPT ![Cycle].snap = S] /\ At(Cycle, point)
    <3>1. th' = [th EXCEPT ![Cycle] = q]
      BY <1>1, <2>4 DEF At, ThreadState
    <3> HIDE DEF q
    <3> QED
      BY <2>2, <3>1
  <2> QED
    BY <2>1, <2>3, <2>4
<1>5. Grounded(r, created', kind')
  BY <1>4 DEF Grounded
<1> QED
  BY <1>1, <1>4, <1>5 DEF ThreadMove

LEMMA HousekeepingMoves ==
    ASSUME Base, Housekeeping
    PROVE  Move
<1> USE DEF Move, Kept
<1>1. Cycle \in Proc /\ StoreTypeOK /\ th[Cycle] \in ThreadState /\ th \in [Proc -> ThreadState]
  BY DEF Proc, Base, TypeOK
<1>2. th[Cycle].snap \in SUBSET Card /\ th[Cycle].snap \subseteq 1..created
  BY <1>1 DEF Base, ProcsGrounded, Grounded, ThreadState
<1>3. CASE FindDueReminders
  <2>1. Kept /\ StoresTyped'
    BY <1>1, <1>3, QuietStores, TransactionMoves DEF FindDueReminders
  <2>2. DueReminders \subseteq Card /\ DueReminders \subseteq 1..created
    BY ExistingCards DEF DueReminders
  <2> QED
    BY <1>3, <2>1, <2>2, ListMoves DEF FindDueReminders
<1>4. CASE RePresent
  <2>1. th[Cycle].pc \in Holding /\ StoresTyped'
    BY <1>4, QuietStores DEF RePresent, At, Holding, Point
  <2>2. Kept
    BY <1>1, <1>4, <2>1, HoldingCard, TransactionMoves DEF RePresent
  <2> DEFINE r == [th[Cycle] EXCEPT !.pc = "remind", !.card = NoCard]
  <2>3. r \in ThreadState /\ Grounded(r, created, kind)
    BY <1>1, <1>2 DEF ThreadState, Point, Grounded
  <2>4. th' = [th EXCEPT ![Cycle] = r]
    BY <1>1, <1>4 DEF RePresent
  <2> HIDE DEF r
  <2> QED
    BY <1>1, <2>1, <2>2, <2>3, <2>4 DEF ThreadMove
<1>5. CASE FindAbandoned
  <2>1. Kept /\ StoresTyped'
    BY <1>1, <1>5, QuietStores, TransactionMoves DEF FindAbandoned
  <2> DEFINE S == {c \in Card : status[c] \in Awaiting /\ old[c]}
  <2>2. S \subseteq Card /\ S \subseteq 1..created
    BY ExistingCards DEF Awaiting
  <2>3. th' = [th EXCEPT ![Cycle].pc = "sweep", ![Cycle].snap = S]
    BY <1>5 DEF FindAbandoned
  <2> HIDE DEF S
  <2> QED
    BY <2>1, <2>2, <2>3, ListMoves
<1>6. CASE EndCycle
  BY <1>1, <1>6, QuietStores, TransactionMoves, LeaveMoves DEF EndCycle
<1>7. ASSUME NEW c \in Card, Remind(c)
      PROVE  Move
  <2>1. Kept /\ StoresTyped'
    BY <1>1, <1>7, QuietStores, TransactionMoves DEF Remind
  <2>2. c \in 1..created
    BY <1>2, <1>7 DEF Remind
  <2>3. CASE th' = [th EXCEPT ![Cycle].snap = @ \ {c}]
    <3>1. th' = [th EXCEPT ![Cycle].snap = th[Cycle].snap \ {c}]
      BY <1>1, <2>3
    <3>2. At(Cycle, "remind") /\ th[Cycle].snap \ {c} \in SUBSET Card
      BY <1>2, <1>7 DEF Remind
    <3>3. th[Cycle].snap \ {c} \subseteq 1..created
      BY <1>2
    <3>4. ThreadMove
      BY <2>1, <3>1, <3>2, <3>3, ListMoves
    <3> QED
      BY <2>1, <3>4
  <2>4. CASE th' = [th EXCEPT ![Cycle].pc = "represent", ![Cycle].card = c, ![Cycle].snap = @ \ {c}]
    <3> DEFINE r == [th[Cycle] EXCEPT !.pc = "represent", !.card = c, !.snap = @ \ {c}]
    <3>1. r \in ThreadState /\ Grounded(r, created, kind)
      BY <1>1, <1>2, <2>2 DEF ThreadState, Point, Grounded
    <3>2. th' = [th EXCEPT ![Cycle] = r]
      BY <1>1, <2>4
    <3> HIDE DEF r
    <3> QED
      BY <1>1, <2>1, <3>1, <3>2 DEF ThreadMove
  <2> QED
    BY <1>7, <2>3, <2>4 DEF Remind
<1>8. ASSUME NEW c \in Card, ExpireAbandoned(c)
      PROVE  Move
  <2>1. Kept /\ StoresTyped'
    BY <1>1, <1>8, QuietStores, TransactionMoves DEF ExpireAbandoned
  <2>2. th' = [th EXCEPT ![Cycle].snap = th[Cycle].snap \ {c}]
    BY <1>1, <1>8 DEF ExpireAbandoned
  <2>3. At(Cycle, "sweep") /\ th[Cycle].snap \ {c} \in SUBSET Card
    BY <1>2, <1>8 DEF ExpireAbandoned
  <2>4. th[Cycle].snap \ {c} \subseteq 1..created
    BY <1>2
  <2>5. ThreadMove
    BY <2>1, <2>2, <2>3, <2>4, ListMoves
  <2> QED
    BY <2>1, <2>5
<1> QED
  BY <1>3, <1>4, <1>5, <1>6, <1>7, <1>8 DEF Housekeeping

LEMMA EnvironmentMoves ==
    ASSUME Base,
           \/ \E c \in Card : CockpitApprove(c) \/ WebDeny(c) \/ ReminderDue(c) \/ Age(c)
           \/ Crash
    PROVE  Move
<1> USE DEF Move, Kept
<1>1. StoreTypeOK /\ StoresTyped
  BY DEF Base, TypeOK, StoresTyped
<1>2. ASSUME NEW c \in Card, CockpitApprove(c)
      PROVE  Move
  <2>1. Cockpit \in Proc /\ "judge" \in Holding
    BY DEF Proc, Holding, Point
  <2>2. Kept /\ StoresTyped'
    BY <1>1, <1>2, QuietStores, TransactionMoves DEF CockpitApprove
  <2>3. c \in 1..created
    BY <1>2, ExistingCards DEF CockpitApprove, Awaiting
  <2> QED
    BY <1>2, <2>1, <2>2, <2>3, TakeMoves DEF CockpitApprove
<1>3. ASSUME NEW c \in Card, WebDeny(c)
      PROVE  Move
  BY <1>1, <1>3, QuietStores, TransactionMoves DEF WebDeny, ThreadMove
<1>4. ASSUME NEW c \in Card, ReminderDue(c)
      PROVE  Move
  BY <1>1, <1>4, QuietStores DEF ReminderDue, ThreadMove, StoreMove, StoreTypeOK, columns
<1>5. ASSUME NEW c \in Card, Age(c)
      PROVE  Move
  BY <1>1, <1>5, TransactionMoves DEF Age, ThreadMove, StoresTyped, stores
<1>6. CASE Crash
  BY <1>1, <1>6, TransactionMoves DEF Crash, ThreadMove, StoresTyped, stores
<1> QED
  BY <1>2, <1>3, <1>4, <1>5, <1>6

LEMMA NextMoves ==
    ASSUME Base, Next
    PROVE  Move
<1>1. ASSUME NEW t \in Thread,
             \/ \E k \in Kind, ch \in Chats, b \in BOOLEAN : Propose(t, k, ch, b)
             \/ Present(t) \/ LinkDialog(t)
             \/ \E ch \in Chats, a \in Card \cup {NoCard} :
                  \E k \in 0..(IF a = NoCard THEN 0 ELSE posts[a]) : ReplySnapshot(t, ch, a, k)
             \/ Replying(t)
      PROVE  Move
  BY <1>1, ProposeMoves, PresentMoves, SnapshotMoves, ReplyingMoves
<1> QED
  BY <1>1, ApprovingMoves, HousekeepingMoves, EnvironmentMoves DEF Next

-----------------------------------------------------------------------------
(* The base of every invariant                                             *)

LEMMA BaseInit == Init => Base
<1> SUFFICES ASSUME Init PROVE Base
  OBVIOUS
<1>1. TypeOK
  BY CardsAssumption DEF Init, StoreInit, TypeOK, StoreTypeOK, CardStatus, CardKind, Idle,
                         ThreadState, Point, Outcome
<1>2. CardsInOrder
  BY CardsAssumption DEF Init, StoreInit, CardsInOrder, Card
<1>3. ProcsGrounded
  BY DEF Init, ProcsGrounded, Grounded, Idle
<1> QED
  BY <1>1, <1>2, <1>3 DEF Base

\* What is known of the cards that exist stays known of them.
LEMMA CardsStay ==
    ASSUME Base, StoreMove
    PROVE  /\ CardsInOrder'
           /\ created' \in Nat /\ created <= created'
           /\ \A c \in 1..created : kind'[c] = kind[c]
<1>1. /\ created \in Nat /\ status \in [Card -> CardStatus \cup {"absent"}]
      /\ kind \in [Card -> CardKind]
  BY CardsAssumption DEF Base, TypeOK, StoreTypeOK
<1>2. \A c \in Card : status[c] = "absent" <=> c > created
  BY DEF Base, CardsInOrder
<1>3. CASE UNCHANGED <<created, status, kind, chatOf>>
  BY <1>1, <1>2, <1>3 DEF CardsInOrder
<1>4. ASSUME NEW c \in Card, NEW k \in Kind, NEW ch \in Chat \cup {NoChat}, NEW b \in BOOLEAN,
             CreateCard(c, k, ch, b)
      PROVE  /\ CardsInOrder' /\ created' \in Nat /\ created <= created'
             /\ \A d \in 1..created : kind'[d] = kind[d]
  <2>1. \A d \in Superseded(ch) : status[d] # "absent"
    BY DEF Superseded, Awaiting
  <2>2. created' = created + 1 /\ c = created + 1
    BY <1>4 DEF CreateCard
  <2>3. \A d \in Card : status'[d] = "absent" <=> status[d] = "absent" /\ d # c
    BY <1>1, <1>4, <2>1 DEF CreateCard
  <2>4. CardsInOrder'
    BY <1>1, <1>2, <2>2, <2>3, CardsAssumption DEF CardsInOrder, Card
  <2>5. \A d \in 1..created : kind'[d] = kind[d]
    BY <1>1, <1>4, <2>2, CardsAssumption DEF CreateCard, Card
  <2> QED
    BY <1>1, <2>2, <2>4, <2>5
<1>5. ASSUME NEW c \in Card, NEW move \in Moves, NEW new \in Target(move), Transition(c, move, new)
      PROVE  CardsInOrder' /\ UNCHANGED <<created, kind>>
  <2>1. status[c] # "absent" /\ new # "absent"
    BY <1>5 DEF Transition, Allowed, Target, Moves, Awaiting
  <2> QED
    BY <1>1, <1>2, <1>5, <2>1 DEF Transition, columns, CardsInOrder
<1> QED
  <2>1. CASE UNCHANGED <<created, status, kind, chatOf>>
    BY <1>1, <1>3, <2>1
  <2>2. CASE \E c \in Card, k \in Kind, ch \in Chat \cup {NoChat}, b \in BOOLEAN :
               CreateCard(c, k, ch, b)
    BY <1>4, <2>2
  <2>3. CASE \E c \in Card, move \in Moves : \E new \in Target(move) : Transition(c, move, new)
    BY <1>1, <1>5, <2>3
  <2> QED
    BY <2>1, <2>2, <2>3 DEF StoreMove

LEMMA BaseStep ==
    ASSUME Base, [Next]_vars
    PROVE  Base'
<1>1. CASE UNCHANGED vars
  BY <1>1 DEF vars, cardVars, columns, stores, Base, TypeOK, StoreTypeOK, CardsInOrder, ProcsGrounded
<1>2. CASE Next
  <2>1. StoreMove /\ ThreadMove /\ StoreTypeOK' /\ StoresTyped'
    BY <1>2, NextMoves DEF Move
  <2>2. th' \in [Proc -> ThreadState]
    <3>1. th \in [Proc -> ThreadState] /\ Idle \in ThreadState
      BY DEF Base, TypeOK, Idle, ThreadState, Point
    <3> QED
      BY <2>1, <3>1 DEF ThreadMove
  <2>3. TypeOK'
    BY <2>1, <2>2 DEF TypeOK, StoresTyped
  <2>4. /\ CardsInOrder' /\ created \in Nat /\ created' \in Nat /\ created <= created'
        /\ \A c \in 1..created : kind'[c] = kind[c]
    BY <2>1, CardsStay, CardsAssumption DEF Base, TypeOK, StoreTypeOK
  <2>5. ASSUME NEW p \in Proc
        PROVE  Grounded(th[p], created', kind')
    BY <2>4 DEF Base, ProcsGrounded, Grounded
  <2>6. Grounded(Idle, created', kind')
    BY DEF Grounded, Idle
  <2>7. ProcsGrounded'
    BY <2>1, <2>5, <2>6 DEF ThreadMove, ProcsGrounded, Base, TypeOK
  <2> QED
    BY <2>3, <2>4, <2>7 DEF Base
<1> QED
  BY <1>1, <1>2

-----------------------------------------------------------------------------
(* Theorems                                                                *)

\* Type correctness: every column and every local variable of a handler stays
\* in its range, in every instance.
THEOREM TypeCorrect == Spec => []TypeOK
<1>1. Base => TypeOK
  BY DEF Base
<1> QED
  BY <1>1, BaseInit, BaseStep, PTL DEF Spec

\* Supersession works: create_card's expiry of a chat's awaiting cards, with
\* no transition that brings a card back to awaiting, leaves a chat at most
\* one card awaiting the owner.
THEOREM OneCardPerChat == Spec => []OneAwaitingPerChat
<1> DEFINE Inv == Base /\ OneAwaitingPerChat
<1>1. Init => Inv
  BY BaseInit DEF Init, StoreInit, OneAwaitingPerChat, Awaiting
<1>2. ASSUME Inv, [Next]_vars
      PROVE  OneAwaitingPerChat'
  <2>1. CASE UNCHANGED vars
    BY <1>2, <2>1 DEF vars, cardVars, columns, OneAwaitingPerChat
  <2>2. CASE Next
    <3>1. StoreMove /\ status \in [Card -> CardStatus \cup {"absent"}]
          /\ chatOf \in [Card -> Chat \cup {NoChat}]
      BY <1>2, <2>2, NextMoves DEF Move, Base, TypeOK, StoreTypeOK
    <3>2. CASE UNCHANGED <<created, status, kind, chatOf>>
      BY <1>2, <3>2 DEF OneAwaitingPerChat
    <3>3. ASSUME NEW c \in Card, NEW k \in Kind, NEW ch \in Chat \cup {NoChat}, NEW b \in BOOLEAN,
                 CreateCard(c, k, ch, b)
          PROVE  OneAwaitingPerChat'
      <4>1. \A d \in Card \ {c} : chatOf'[d] = chatOf[d] /\ (status'[d] \in Awaiting
                => status[d] \in Awaiting /\ (ch = NoChat \/ chatOf[d] # ch))
        BY <3>1, <3>3 DEF CreateCard, Superseded, Awaiting
      <4>2. chatOf'[c] = ch
        BY <3>1, <3>3 DEF CreateCard
      <4> QED
        BY <1>2, <4>1, <4>2 DEF OneAwaitingPerChat
    <3>4. ASSUME NEW c \in Card, NEW move \in Moves, NEW new \in Target(move), Transition(c, move, new)
          PROVE  OneAwaitingPerChat'
      <4>1. \A d \in Card : status'[d] \in Awaiting => status[d] \in Awaiting
        BY <3>1, <3>4 DEF Transition, Allowed, Target, Moves, Awaiting
      <4> QED
        BY <1>2, <3>4, <4>1 DEF OneAwaitingPerChat, Transition, columns
    <3> QED
      BY <3>1, <3>2, <3>3, <3>4 DEF StoreMove
  <2> QED
    BY <1>2, <2>1, <2>2
<1>3. Inv /\ [Next]_vars => Inv'
  BY <1>2, BaseStep
<1> QED
  BY <1>1, <1>3, PTL DEF Spec

\* The allow_from guards make the terminal statuses final: whatever handlers
\* race, no step moves a card out of one.
THEOREM TerminalStays == Spec => TerminalIsFinal
<1>1. ASSUME Base, [Next]_vars
      PROVE  [\A c \in Card : status[c] \in Terminal => status'[c] = status[c]]_vars
  <2>1. CASE Next
    <3>1. StoreMove /\ status \in [Card -> CardStatus \cup {"absent"}] /\ CardsInOrder
          /\ created \in Nat
      BY <1>1, <2>1, NextMoves, CardsAssumption DEF Move, Base, TypeOK, StoreTypeOK
    <3>2. ASSUME NEW c \in Card, NEW k \in Kind, NEW ch \in Chat \cup {NoChat}, NEW b \in BOOLEAN,
                 CreateCard(c, k, ch, b), NEW d \in Card, status[d] \in Terminal
          PROVE  status'[d] = status[d]
      BY <3>1, <3>2 DEF CreateCard, Superseded, CardsInOrder, Awaiting, Terminal, Card
    <3>3. ASSUME NEW c \in Card, NEW move \in Moves, NEW new \in Target(move),
                 Transition(c, move, new), NEW d \in Card, status[d] \in Terminal
          PROVE  status'[d] = status[d]
      BY <3>1, <3>3 DEF Transition, Allowed, Moves, Awaiting, Terminal
    <3> QED
      BY <3>1, <3>2, <3>3 DEF StoreMove
  <2> QED
    BY <1>1, <2>1
<1> QED
  BY <1>1, BaseInit, BaseStep, PTL DEF Spec, TerminalIsFinal

-----------------------------------------------------------------------------
(* Executions                                                              *)

\* No action is executed and no process gets ready to execute one.
NoRun ==
    /\ runs' = runs
    /\ \A p \in Proc : At(p, "execute")' => At(p, "execute") /\ On(p)' = On(p)

\* Process p wins the card it holds: mark_running found it approved.
Wins(p) == MarkRunning(On(p)) /\ At(p, "start") /\ Goto(p, "execute") /\ runs' = runs

LEMMA RunMoves ==
    ASSUME Base, Next
    PROVE  NoRun \/ \E p \in Proc : Wins(p) \/ Execute(p)
<1>1. th \in [Proc -> ThreadState]
  BY DEF Base, TypeOK
<1>2. ASSUME NEW t \in Thread,
             \/ \E k \in Kind, ch \in Chats, b \in BOOLEAN : Propose(t, k, ch, b)
             \/ Present(t) \/ LinkDialog(t)
             \/ \E ch \in Chats, a \in Card \cup {NoCard} :
                  \E k \in 0..(IF a = NoCard THEN 0 ELSE posts[a]) : ReplySnapshot(t, ch, a, k)
      PROVE  NoRun
  <2>1. ASSUME NEW k \in Kind, NEW ch \in Chats, NEW b \in BOOLEAN, Propose(t, k, ch, b)
        PROVE  NoRun
    BY <1>1, <2>1 DEF NoRun, At, On, Take, Idle, stores, Proc, ThreadState, Propose
  <2>2. CASE Present(t) \/ LinkDialog(t)
    BY <1>1, <2>2 DEF NoRun, At, On, Leave, Goto, Idle, stores, Proc, ThreadState,
                      Present, Presented, LinkDialog
  <2>3. ASSUME NEW ch \in Chats, NEW a \in Card \cup {NoCard}, NEW k, ReplySnapshot(t, ch, a, k)
        PROVE  NoRun
    BY <1>1, <2>3 DEF NoRun, At, On, Idle, stores, Proc, ThreadState, ReplySnapshot
  <2> QED
    BY <1>2, <2>1, <2>2, <2>3
<1>3. ASSUME NEW t \in Thread, Replying(t)
      PROVE  NoRun
  <2>1. CASE Route(t) \/ ReplyApprove(t) \/ ReplyToDialog(t) \/ ReplyNone(t)
    BY <1>1, <2>1 DEF NoRun, At, On, Leave, Goto, Idle, stores, Proc, ThreadState,
                      Route, ReplyApprove, ReplyToDialog, ReplyNone
  <2>2. CASE \/ \E i \in Intent : ReplyDeny(t, i)
             \/ ReplyDefer(t) \/ DeferCard(t) \/ DialogTurn(t) \/ RecordRejection(t)
    BY <1>1, <2>2 DEF NoRun, At, On, Leave, Goto, Idle, stores, Proc, ThreadState,
                      ReplyDeny, ReplyDefer, DeferCard, DialogTurn, RecordRejection
  <2> QED
    BY <1>3, <2>1, <2>2 DEF Replying
<1>4. ASSUME NEW p \in Thread \cup {Cockpit}, Approving(p)
      PROVE  NoRun \/ Wins(p) \/ Execute(p)
  <2>1. CASE StartRun(p)
    <3>1. CASE Leave(p)
      BY <1>1, <2>1, <3>1 DEF NoRun, At, On, Leave, Idle, stores, Proc, ThreadState, StartRun
    <3>2. CASE MarkRunning(On(p)) /\ Goto(p, "execute")
      BY <2>1, <3>2 DEF Wins, StartRun, stores
    <3> QED
      BY <2>1, <3>1, <3>2 DEF StartRun
  <2>2. CASE Judge(p) \/ ApproveCard(p) \/ BlockCard(p) \/ ConfirmWant(p)
    BY <1>1, <2>2 DEF NoRun, At, On, Leave, Goto, Idle, stores, Proc, ThreadState,
                      Judge, ApproveCard, BlockCard, ConfirmWant
  <2>3. CASE WillCheck(p) \/ WillDeny(p) \/ CloseCard(p) \/ RecordOutcome(p)
    BY <1>1, <2>3 DEF NoRun, At, On, Leave, Goto, Idle, stores, Proc, ThreadState,
                      WillCheck, WillDeny, CloseCard, RecordOutcome
  <2> QED
    BY <1>4, <2>1, <2>2, <2>3 DEF Approving
<1>5. ASSUME Housekeeping
      PROVE  NoRun
  <2>1. CASE FindDueReminders
    BY <1>1, <2>1 DEF NoRun, At, On, Idle, stores, Proc, ThreadState, FindDueReminders
  <2>3. CASE RePresent \/ FindAbandoned \/ EndCycle
    BY <1>1, <2>3 DEF NoRun, At, On, Leave, Idle, stores, Proc, ThreadState,
                      RePresent, FindAbandoned, EndCycle
  <2>2. ASSUME NEW c \in Card, Remind(c) \/ ExpireAbandoned(c)
        PROVE  NoRun
    BY <1>1, <2>2 DEF NoRun, At, On, stores, Proc, ThreadState, Remind, ExpireAbandoned
  <2> QED
    BY <1>5, <2>1, <2>2, <2>3 DEF Housekeeping
<1>6. ASSUME \/ \E c \in Card : CockpitApprove(c) \/ WebDeny(c) \/ ReminderDue(c) \/ Age(c)
             \/ Crash
      PROVE  NoRun
  <2>1. ASSUME NEW c \in Card, CockpitApprove(c)
        PROVE  NoRun
    BY <1>1, <2>1 DEF NoRun, At, On, Take, Idle, stores, Proc, ThreadState, CockpitApprove
  <2>2. ASSUME NEW c \in Card, WebDeny(c) \/ ReminderDue(c) \/ Age(c)
        PROVE  NoRun
    BY <2>2 DEF NoRun, At, On, stores, WebDeny, ReminderDue, Age
  <2>3. CASE Crash
    BY <2>3 DEF NoRun, At, On, Idle, stores, Crash
  <2> QED
    BY <1>6, <2>1, <2>2, <2>3
<1> QED
  BY <1>2, <1>3, <1>4, <1>5, <1>6 DEF Next, Proc

\* Started cards stay started, whatever happens to them.
LEMMA StartedStays ==
    ASSUME Base, StoreMove, NEW c \in Card, status[c] \notin Unstarted
    PROVE  status'[c] \notin Unstarted /\ kind'[c] = kind[c]
<1>1. /\ created \in Nat /\ status \in [Card -> CardStatus \cup {"absent"}]
      /\ kind \in [Card -> CardKind] /\ c <= created
  BY CardsAssumption DEF Base, TypeOK, StoreTypeOK, CardsInOrder, Unstarted, Card
<1>2. ASSUME NEW d \in Card, NEW k \in Kind, NEW ch \in Chat \cup {NoChat}, NEW b \in BOOLEAN,
             CreateCard(d, k, ch, b)
      PROVE  status'[c] \notin Unstarted /\ kind'[c] = kind[c]
  BY <1>1, <1>2, CardsAssumption DEF CreateCard, Superseded, Unstarted, Card
<1>3. ASSUME NEW d \in Card, NEW move \in Moves, NEW new \in Target(move), Transition(d, move, new)
      PROVE  status'[c] \notin Unstarted /\ kind'[c] = kind[c]
  BY <1>1, <1>3 DEF Transition, Allowed, Target, Moves, Unstarted, CardStatus, Awaiting, Terminal, columns
<1> QED
  BY <1>2, <1>3 DEF StoreMove

LEMMA RunInvInit == Init => RunInv
  BY BaseInit DEF Init, StoreInit, RunInv, RunOwned, RunsStarted, RunsAtMostOnce, At, Idle

LEMMA RunInvStep ==
    ASSUME RunInv, [Next]_vars
    PROVE  RunInv'
<1>1. Base /\ Base' /\ runs \in [Card -> Nat] /\ th \in [Proc -> ThreadState]
  BY BaseStep DEF RunInv, Base, TypeOK
<1>2. CASE UNCHANGED vars
  BY <1>1, <1>2 DEF vars, cardVars, columns, stores, RunInv, RunOwned, RunsStarted, RunsAtMostOnce, At, On
<1>3. ASSUME Next
      PROVE  StoreMove /\ (\A c \in Card : status[c] \notin Unstarted
                            => status'[c] \notin Unstarted /\ kind'[c] = kind[c])
  BY <1>1, <1>3, NextMoves, StartedStays DEF Move
<1>4. \A p \in Proc : At(p, "execute") => On(p) \in Card /\ kind[On(p)] = "plain"
  BY <1>1, HoldingCard DEF At, Holding, Point, Grounded, On
<1>5. CASE Next /\ NoRun
  <2>1. runs' = runs /\ (\A p \in Proc : At(p, "execute")' => At(p, "execute") /\ On(p)' = On(p))
    BY <1>5 DEF NoRun
  <2>2. RunOwned'
    BY <1>3, <1>4, <1>5, <2>1 DEF RunInv, RunOwned
  <2>3. RunsStarted' /\ RunsAtMostOnce'
    BY <1>3, <1>5, <2>1 DEF RunInv, RunsStarted, RunsAtMostOnce
  <2> QED
    BY <1>1, <2>2, <2>3 DEF RunInv
<1>6. ASSUME Next, NEW p \in Proc, Wins(p)
      PROVE  RunInv'
  <2>1. /\ On(p) \in Card /\ status[On(p)] = "approved"
        /\ status' = [status EXCEPT ![On(p)] = "running"] /\ runs' = runs
    BY <1>1, <1>6, HoldingCard DEF Wins, MarkRunning, Transition, Allowed, At, Holding, Point
  <2>2. runs[On(p)] = 0
    BY <2>1 DEF RunInv, RunsStarted, Unstarted
  <2>3. status'[On(p)] \notin Unstarted
    BY <1>1, <2>1 DEF Base, TypeOK, StoreTypeOK, Unstarted, Awaiting
  <2>4. \A q \in Proc : On(q)' = On(q) /\ (q # p => (At(q, "execute")' <=> At(q, "execute")))
    BY <1>1, <1>6 DEF Wins, Goto, At, On, ThreadState
  <2>5. \A q \in Proc : At(q, "execute") => On(q) # On(p)
    BY <2>1 DEF RunInv, RunOwned, Unstarted
  <2>6. RunOwned'
    BY <1>3, <1>4, <1>6, <2>1, <2>2, <2>3, <2>4, <2>5 DEF RunInv, RunOwned
  <2>7. RunsStarted' /\ RunsAtMostOnce'
    BY <1>3, <1>6, <2>1 DEF RunInv, RunsStarted, RunsAtMostOnce
  <2> QED
    BY <1>1, <2>6, <2>7 DEF RunInv
<1>7. ASSUME Next, NEW p \in Proc, Execute(p)
      PROVE  RunInv'
  <2>1. /\ At(p, "execute") /\ On(p) \in Card /\ kind[On(p)] = "plain"
        /\ runs[On(p)] = 0 /\ status[On(p)] \notin Unstarted
    BY <1>4, <1>7 DEF Execute, RunInv, RunOwned
  <2>2. runs' = [runs EXCEPT ![On(p)] = 1]
    BY <1>1, <1>7, <2>1 DEF Execute
  <2>3. \A q \in Proc : On(q)' = On(q) /\ (At(q, "execute")' <=> q # p /\ At(q, "execute"))
    BY <1>1, <1>7 DEF Execute, At, On, ThreadState
  <2>4. \A q \in Proc : q # p /\ At(q, "execute") => On(q) # On(p)
    BY <2>1 DEF RunInv, RunOwned
  <2>5. RunOwned'
    BY <1>1, <1>3, <1>4, <1>7, <2>1, <2>2, <2>3, <2>4 DEF RunInv, RunOwned
  <2>6. RunsStarted' /\ RunsAtMostOnce'
    BY <1>1, <1>3, <1>7, <2>1, <2>2 DEF RunInv, RunsStarted, RunsAtMostOnce
  <2> QED
    BY <1>1, <2>5, <2>6 DEF RunInv
<1> QED
  BY <1>2, <1>5, <1>6, <1>7, <1>1, RunMoves

\* Exactly one winner: however many replies and cockpit approvals race for a
\* card, and wherever the daemon crashes, its action runs at most once.
THEOREM AtMostOneRun == Spec => []RunsAtMostOnce
<1>1. RunInv => RunsAtMostOnce
  BY DEF RunInv
<1> QED
  BY <1>1, RunInvInit, RunInvStep, PTL DEF Spec

\* A card that was denied or expired, that the will-I check refuses, that is a
\* want or that needs S7 authorization never has its action executed.
THEOREM RefusedCardsNeverRun == Spec => []RefusedNeverRuns
<1>1. RunInv => RefusedNeverRuns
  BY DEF RunInv, RunsStarted, RefusedNeverRuns, Unstarted, RequiresS7
<1> QED
  BY <1>1, RunInvInit, RunInvStep, PTL DEF Spec

-----------------------------------------------------------------------------
(* What the cards and the audit rows say                                   *)

\* The points on the way to an audit row.
Telling == {"rejected", "want", "wantclose", "wantrecord", "close", "record"}

\* What a process on its way to an audit row can already say of its card.
Told(r, st, kd, sat, rn) ==
    /\ r.pc = "rejected" => st[r.card] = "denied"
    /\ r.pc \in {"close", "record"} => rn[r.card] = 1
    /\ r.pc \in {"want", "wantclose", "wantrecord"} => kd[r.card] = "want"
    /\ r.pc \in {"wantclose", "wantrecord"} /\ r.flag => sat[r.card]

ProcsTold == \A p \in Proc : Told(th[p], status, kind, satisfied, runs)

\* What an audit row says is true of its card for good.
RowTold(c) ==
    /\ audit[c] # "none" => status[c] # "absent"
    /\ audit[c] = "ran" => runs[c] = 1
    /\ audit[c] = "failed" => runs[c] = 1 \/ kind[c] = "want"
    /\ audit[c] = "rejected" => status[c] = "denied"
    /\ audit[c] = "refused_by_will" => kind[c] = "impersonation"
    /\ audit[c] = "satisfied" => satisfied[c]

\* A card that reads done was run, or its want recorded.
DoneTold(c) ==
    status[c] = "done" => IF kind[c] = "want" THEN satisfied[c] ELSE runs[c] = 1

CardsTold == \A c \in Card : RowTold(c) /\ DoneTold(c)

AuditInv == RunInv /\ ProcsTold /\ CardsTold

\* Steps that bring nothing to say: no row is written, no card is done, and no
\* process gets on the way to a row.
NothingTold ==
    /\ UNCHANGED audit
    /\ \A c \in Card : status'[c] = "done" => status[c] = "done"
    /\ \A p \in Proc : th'[p].pc \in Telling => th'[p] = th[p]

\* Transactions that close no card as done.
LEMMA NotDone ==
    ASSUME StoreTypeOK
    PROVE  /\ \A c : Deny(c) \/ Expire(c) \/ Block(c) \/ ReOpen(c) \/ MarkRunning(c)
                     => \A d \in Card : status'[d] = "done" => status[d] = "done"
           /\ \A c : \A fresh \in BOOLEAN : Approve(c, fresh)
                     => \A d \in Card : status'[d] = "done" => status[d] = "done"
           /\ \A c, n, when : Defer(c, n, when)
                     => \A d \in Card : status'[d] = "done" => status[d] = "done"
           /\ \A c, k, ch, b : CreateCard(c, k, ch, b)
                     => \A d \in Card : status'[d] = "done" => status[d] = "done"
           /\ \A c : AttachMessage(c) => UNCHANGED status
           /\ \A c : \A move : Refused(c, move) => UNCHANGED status
<1>1. status \in [Card -> CardStatus \cup {"absent"}]
  BY DEF StoreTypeOK
<1> QED
  BY <1>1 DEF Deny, Expire, Block, ReOpen, MarkRunning, Approve, Defer, CreateCard, AttachMessage,
              Refused, Transition, cardVars

\* The steps on the way to an audit row.
Tells(p) ==
    \/ Deny(On(p)) /\ Goto(p, "rejected") /\ UNCHANGED stores
    \/ RecordRejection(p)
    \/ Approve(On(p), TRUE) /\ kind[On(p)] = "want" /\ Goto(p, "want") /\ UNCHANGED stores
    \/ ConfirmWant(p) \/ WillCheck(p) \/ Execute(p) \/ CloseCard(p) \/ RecordOutcome(p)

LEMMA TellMoves ==
    ASSUME Base, Next
    PROVE  NothingTold \/ \E p \in Proc : th[p].pc \in Holding /\ Tells(p)
<1>1. th \in [Proc -> ThreadState] /\ StoreTypeOK /\ Idle.pc = "idle"
  BY DEF Base, TypeOK, Idle
<1>2. ASSUME NEW p \in Proc, Leave(p), UNCHANGED audit,
             \A c \in Card : status'[c] = "done" => status[c] = "done"
      PROVE  NothingTold
  BY <1>1, <1>2 DEF Leave, NothingTold, Telling
<1>3. ASSUME NEW p \in Proc, NEW point \in Point \ Telling, Goto(p, point), UNCHANGED audit,
             \A c \in Card : status'[c] = "done" => status[c] = "done"
      PROVE  NothingTold
  BY <1>1, <1>3 DEF Goto, NothingTold, ThreadState
<1>4. ASSUME NEW p \in Proc, NEW r, th' = [th EXCEPT ![p] = r], r.pc \notin Telling, UNCHANGED audit,
             \A c \in Card : status'[c] = "done" => status[c] = "done"
      PROVE  NothingTold
  BY <1>1, <1>4 DEF NothingTold
<1>5. ASSUME UNCHANGED <<th, audit>>, \A c \in Card : status'[c] = "done" => status[c] = "done"
      PROVE  NothingTold
  BY <1>5 DEF NothingTold
<1>6. UNCHANGED cardVars => \A c \in Card : status'[c] = "done" => status[c] = "done"
  BY DEF cardVars
<1>7. UNCHANGED stores => UNCHANGED audit
  BY DEF stores
<1>8. ASSUME NEW t \in Thread,
             \/ \E k \in Kind, ch \in Chats, b \in BOOLEAN : Propose(t, k, ch, b)
             \/ Present(t) \/ LinkDialog(t)
             \/ \E ch \in Chats, a \in Card \cup {NoCard} :
                  \E k \in 0..(IF a = NoCard THEN 0 ELSE posts[a]) : ReplySnapshot(t, ch, a, k)
      PROVE  NothingTold
  <2>0. t \in Proc
    BY DEF Proc
  <2>1. ASSUME NEW k \in Kind, NEW ch \in Chats, NEW b \in BOOLEAN, Propose(t, k, ch, b)
        PROVE  NothingTold
    <3>1. \A c \in Card : status'[c] = "done" => status[c] = "done"
      BY <1>1, <2>1, NotDone DEF Propose
    <3>2. th' = [th EXCEPT ![t] = th'[t]] /\ th'[t].pc = "present"
      BY <1>1, <2>0, <2>1 DEF Propose, Take, Idle
    <3> QED
      BY <1>4, <1>7, <2>0, <2>1, <3>1, <3>2 DEF Propose, Telling
  <2>2. CASE Present(t)
    <3>1. Leave(t) \/ Goto(t, "link")
      BY <2>2 DEF Present, Presented
    <3>2. \A c \in Card : status'[c] = "done" => status[c] = "done"
      BY <1>1, <1>6, <2>2, NotDone DEF Present
    <3> QED
      BY <1>2, <1>3, <1>7, <2>0, <2>2, <3>1, <3>2 DEF Present, Point, Telling
  <2>3. CASE LinkDialog(t)
    BY <1>2, <1>3, <1>6, <1>7, <2>0, <2>3 DEF LinkDialog, Point, Telling
  <2>4. ASSUME NEW ch \in Chats, NEW a \in Card \cup {NoCard}, NEW k, ReplySnapshot(t, ch, a, k)
        PROVE  NothingTold
    <3>1. th' = [th EXCEPT ![t] = th'[t]] /\ th'[t].pc = "route"
      BY <1>1, <2>0, <2>4 DEF ReplySnapshot, Idle
    <3> QED
      BY <1>4, <1>6, <1>7, <2>0, <2>4, <3>1 DEF ReplySnapshot, Telling
  <2> QED
    BY <1>8, <2>1, <2>2, <2>3, <2>4
<1>9. ASSUME NEW t \in Thread, Replying(t)
      PROVE  NothingTold \/ (th[t].pc \in Holding /\ Tells(t))
  <2>0. t \in Proc /\ th[t] \in ThreadState
    BY <1>1 DEF Proc
  <2>1. CASE Route(t)
    <3>1. th' = [th EXCEPT ![t] = th'[t]] /\ th'[t].pc \in {"dialog", "newestdialog", "classify"}
      BY <1>1, <2>0, <2>1 DEF Route, ThreadState
    <3> QED
      BY <1>4, <1>6, <1>7, <2>0, <2>1, <3>1 DEF Route, Telling
  <2>2. CASE ReplyApprove(t) \/ ReplyToDialog(t) \/ ReplyNone(t)
    BY <1>2, <1>3, <1>6, <1>7, <2>0, <2>2
       DEF ReplyApprove, ReplyToDialog, ReplyNone, Point, Telling
  <2>3. ASSUME NEW i \in Intent, ReplyDeny(t, i)
        PROVE  NothingTold \/ (th[t].pc \in Holding /\ Tells(t))
    <3>1. th[t].pc \in Holding /\ UNCHANGED stores
      BY <2>3 DEF ReplyDeny, At, Holding, Point
    <3>2. CASE Deny(On(t)) /\ Goto(t, "rejected")
      BY <3>1, <3>2 DEF Tells
    <3>3. CASE Leave(t)
      BY <1>1, <1>2, <1>6, <1>7, <2>0, <2>3, <3>1, <3>3, NotDone DEF ReplyDeny
    <3> QED
      BY <2>3, <3>2, <3>3 DEF ReplyDeny
  <2>4. CASE ReplyDefer(t)
    <3>1. th' = [th EXCEPT ![t] = th'[t]] /\ th'[t].pc = "defer"
      BY <1>1, <2>0, <2>4 DEF ReplyDefer, ThreadState
    <3> QED
      BY <1>4, <1>6, <1>7, <2>0, <2>4, <3>1 DEF ReplyDefer, Telling
  <2>5. CASE DeferCard(t)
    BY <1>1, <1>2, <1>7, <2>0, <2>5, NotDone DEF DeferCard
  <2>6. CASE DialogTurn(t)
    <3>1. th[t].pc \in Holding /\ UNCHANGED stores
      BY <2>6 DEF DialogTurn, At, Holding, Point
    <3>2. CASE Deny(On(t)) /\ Goto(t, "rejected")
      BY <3>1, <3>2 DEF Tells
    <3>3. CASE (Leave(t) \/ Goto(t, "classify") \/ Goto(t, "block")) /\ UNCHANGED cardVars
      BY <1>2, <1>3, <1>6, <1>7, <2>0, <3>1, <3>3 DEF Point, Telling
    <3> QED
      BY <2>6, <3>2, <3>3 DEF DialogTurn, Refused
  <2>7. CASE RecordRejection(t)
    BY <2>7 DEF RecordRejection, Tells, At, Holding, Point
  <2> QED
    BY <1>9, <2>1, <2>2, <2>3, <2>4, <2>5, <2>6, <2>7 DEF Replying
<1>10. ASSUME NEW p \in Thread \cup {Cockpit}, Approving(p)
       PROVE  NothingTold \/ (th[p].pc \in Holding /\ Tells(p))
  <2>0. p \in Proc /\ th[p] \in ThreadState
    BY <1>1 DEF Proc
  <2>1. CASE ConfirmWant(p) \/ WillCheck(p) \/ Execute(p) \/ CloseCard(p) \/ RecordOutcome(p)
    BY <2>1 DEF ConfirmWant, WillCheck, Execute, CloseCard, RecordOutcome, Tells, At, Holding, Point
  <2>2. CASE Judge(p)
    <3>1. CASE Goto(p, "block")
      BY <1>3, <1>6, <1>7, <2>0, <2>2, <3>1 DEF Judge, Point, Telling
    <3>2. CASE ~Goto(p, "block")
      <4>1. th' = [th EXCEPT ![p] = th'[p]] /\ th'[p].pc = "approve"
        BY <1>1, <2>0, <2>2, <3>2 DEF Judge, ThreadState
      <4> QED
        BY <1>4, <1>6, <1>7, <2>0, <2>2, <4>1 DEF Judge, Telling
    <3> QED
      BY <3>1, <3>2
  <2>3. CASE ApproveCard(p)
    <3>0. th[p].flag \in BOOLEAN /\ th[p].pc \in Holding /\ UNCHANGED stores
      BY <2>0, <2>3 DEF ApproveCard, ThreadState, At, Holding, Point
    <3>1. \A c \in Card : status'[c] = "done" => status[c] = "done"
      BY <1>1, <2>3, <3>0, NotDone DEF ApproveCard
    <3>2. CASE Leave(p) \/ Goto(p, "will") \/ Goto(p, "block")
      BY <1>2, <1>3, <1>7, <2>0, <3>0, <3>1, <3>2 DEF Point, Telling
    <3>3. CASE ~(Leave(p) \/ Goto(p, "will") \/ Goto(p, "block"))
      BY <2>3, <3>0, <3>3 DEF ApproveCard, Tells
    <3> QED
      BY <3>2, <3>3
  <2>4. CASE BlockCard(p)
    BY <1>1, <1>2, <1>7, <2>0, <2>4, NotDone DEF BlockCard
  <2>5. CASE WillDeny(p)
    BY <1>1, <1>2, <1>7, <2>0, <2>5, NotDone DEF WillDeny
  <2>6. CASE StartRun(p)
    <3>1. \A c \in Card : status'[c] = "done" => status[c] = "done"
      BY <1>1, <2>6, NotDone DEF StartRun
    <3> QED
      BY <1>2, <1>3, <1>7, <2>0, <2>6, <3>1 DEF StartRun, Point, Telling
  <2> QED
    BY <1>10, <2>1, <2>2, <2>3, <2>4, <2>5, <2>6 DEF Approving
<1>11. ASSUME Housekeeping PROVE NothingTold
  <2>0. Cycle \in Proc /\ th[Cycle] \in ThreadState
    BY <1>1 DEF Proc
  <2>1. CASE FindDueReminders
    <3>1. th' = [th EXCEPT ![Cycle] = th'[Cycle]] /\ th'[Cycle].pc = "remind"
      BY <1>1, <2>0, <2>1 DEF FindDueReminders, Idle
    <3> QED
      BY <1>4, <1>6, <1>7, <2>0, <2>1, <3>1 DEF FindDueReminders, Telling
  <2>2. CASE RePresent \/ FindAbandoned
    <3>1. /\ th' = [th EXCEPT ![Cycle] = th'[Cycle]] /\ th'[Cycle].pc \in {"remind", "sweep"}
          /\ UNCHANGED stores
      BY <1>1, <2>0, <2>2 DEF RePresent, FindAbandoned, ThreadState
    <3>2. \A c \in Card : status'[c] = "done" => status[c] = "done"
      BY <1>1, <1>6, <2>2, NotDone DEF RePresent, FindAbandoned
    <3> QED
      BY <1>4, <1>7, <2>0, <3>1, <3>2 DEF Telling
  <2>3. CASE EndCycle
    BY <1>2, <1>6, <1>7, <2>0, <2>3 DEF EndCycle
  <2>4. ASSUME NEW c \in Card, Remind(c) \/ ExpireAbandoned(c)
        PROVE  NothingTold
    <3>1. /\ th' = [th EXCEPT ![Cycle] = th'[Cycle]] /\ th'[Cycle].pc \in {"remind", "represent", "sweep"}
          /\ UNCHANGED stores
      BY <1>1, <2>0, <2>4 DEF Remind, ExpireAbandoned, ThreadState, At
    <3>2. \A d \in Card : status'[d] = "done" => status[d] = "done"
      BY <1>1, <2>4, NotDone DEF Remind, ExpireAbandoned
    <3> QED
      BY <1>4, <1>7, <2>0, <3>1, <3>2 DEF Telling
  <2> QED
    BY <1>11, <2>1, <2>2, <2>3, <2>4 DEF Housekeeping
<1>12. ASSUME \/ \E c \in Card : CockpitApprove(c) \/ WebDeny(c) \/ ReminderDue(c) \/ Age(c)
              \/ Crash
       PROVE  NothingTold
  <2>1. ASSUME NEW c \in Card, CockpitApprove(c)
        PROVE  NothingTold
    <3>2. Cockpit \in Proc
      BY DEF Proc
    <3>1. th' = [th EXCEPT ![Cockpit] = th'[Cockpit]] /\ th'[Cockpit].pc = "judge"
      BY <1>1, <2>1, <3>2 DEF CockpitApprove, Take, Idle
    <3> QED
      BY <1>4, <1>6, <1>7, <2>1, <3>1, <3>2 DEF CockpitApprove, Telling
  <2>2. ASSUME NEW c \in Card, WebDeny(c) \/ ReminderDue(c) \/ Age(c)
        PROVE  NothingTold
    BY <1>1, <1>5, <1>6, <1>7, <2>2, NotDone DEF WebDeny, ReminderDue, Age
  <2>3. CASE Crash
    BY <1>1, <1>6, <1>7, <2>3 DEF Crash, NothingTold, Telling
  <2> QED
    BY <1>12, <2>1, <2>2, <2>3
<1> QED
  BY <1>8, <1>9, <1>10, <1>11, <1>12 DEF Next, Proc

\* What is said of a card stays true of it.
Persist ==
    \A c \in Card :
        /\ runs[c] = 1 => runs'[c] = 1
        /\ satisfied[c] => satisfied'[c]
        /\ status[c] # "absent" => status'[c] # "absent" /\ kind'[c] = kind[c]
        /\ status[c] = "denied" => status'[c] = "denied"

LEMMA DeniedStays ==
    ASSUME Base, StoreMove, NEW c \in Card
    PROVE  /\ status[c] = "denied" => status'[c] = "denied"
           /\ status[c] # "absent" => status'[c] # "absent" /\ kind'[c] = kind[c]
<1>1. /\ created \in Nat /\ status \in [Card -> CardStatus \cup {"absent"}]
      /\ kind \in [Card -> CardKind] /\ (status[c] # "absent" => c <= created)
  BY CardsAssumption DEF Base, TypeOK, StoreTypeOK, CardsInOrder, Card
<1>2. ASSUME NEW d \in Card, NEW k \in Kind, NEW ch \in Chat \cup {NoChat}, NEW b \in BOOLEAN,
             CreateCard(d, k, ch, b)
      PROVE  /\ status[c] = "denied" => status'[c] = "denied"
             /\ status[c] # "absent" => status'[c] # "absent" /\ kind'[c] = kind[c]
  BY <1>1, <1>2, CardsAssumption DEF CreateCard, Superseded, Awaiting, Card
<1>3. ASSUME NEW d \in Card, NEW move \in Moves, NEW new \in Target(move), Transition(d, move, new)
      PROVE  /\ status[c] = "denied" => status'[c] = "denied"
             /\ status[c] # "absent" => status'[c] # "absent" /\ kind'[c] = kind[c]
  BY <1>1, <1>3 DEF Transition, Allowed, Target, Moves, Awaiting, columns
<1> QED
  BY <1>2, <1>3 DEF StoreMove

LEMMA Persists ==
    ASSUME RunInv, RunInv', Next
    PROVE  Persist
<1>1. Base /\ runs \in [Card -> Nat] /\ runs' \in [Card -> Nat] /\ satisfied \in [Card -> BOOLEAN]
  BY DEF RunInv, Base, TypeOK
<1>2. StoreMove
  BY <1>1, NextMoves DEF Move
<1>3. ASSUME NEW c \in Card, runs[c] = 1 PROVE runs'[c] = 1
  <2>1. CASE NoRun \/ \E p \in Proc : Wins(p)
    BY <1>3, <2>1 DEF NoRun, Wins
  <2>2. ASSUME NEW p \in Proc, Execute(p) PROVE runs'[c] = 1
    <3>1. runs[On(p)] = 0
      BY <2>2 DEF Execute, RunInv, RunOwned
    <3> QED
      BY <1>1, <1>3, <2>2, <3>1 DEF Execute
  <2> QED
    BY <1>1, <2>1, <2>2, RunMoves
<1>4. \A c \in Card : satisfied[c] => satisfied'[c]
  <2>1. UNCHANGED satisfied \/ \E p \in Thread \cup {Cockpit} : ConfirmWant(p)
    <3>1. ASSUME NEW t \in Thread, Replying(t) PROVE UNCHANGED satisfied
      BY <3>1 DEF Replying, Route, ReplyApprove, ReplyToDialog, ReplyNone, ReplyDeny, ReplyDefer,
                  DeferCard, DialogTurn, RecordRejection, stores
    <3>2. ASSUME NEW p \in Thread \cup {Cockpit}, Approving(p)
          PROVE  UNCHANGED satisfied \/ ConfirmWant(p)
      BY <3>2 DEF Approving, Judge, ApproveCard, BlockCard, WillCheck, WillDeny, StartRun, Execute,
                  CloseCard, RecordOutcome, stores
    <3>3. Housekeeping => UNCHANGED satisfied
      BY DEF Housekeeping, FindDueReminders, RePresent, FindAbandoned, EndCycle, Remind,
             ExpireAbandoned, stores
    <3> QED
      BY <3>1, <3>2, <3>3
         DEF Next, Propose, Present, LinkDialog, ReplySnapshot, CockpitApprove, WebDeny,
             ReminderDue, Age, Crash, stores
  <2>2. ASSUME NEW p \in Thread \cup {Cockpit}, ConfirmWant(p)
        PROVE  \A c \in Card : satisfied[c] => satisfied'[c]
    <3>1. PICK ok \in BOOLEAN : satisfied' = [satisfied EXCEPT ![On(p)] = @ \/ ok]
      BY <2>2 DEF ConfirmWant
    <3> QED
      BY <1>1, <3>1
  <2> QED
    BY <2>1, <2>2
<1> QED
  BY <1>1, <1>2, <1>3, <1>4, DeniedStays DEF Persist

\* A process that stays where it is can still say what it could.
LEMMA StillTold ==
    ASSUME AuditInv, Persist, NEW p \in Proc,
           th'[p] = th[p] \/ th'[p].pc \notin Telling
    PROVE  Told(th[p], status, kind, satisfied, runs)'
<1>1. CASE th'[p].pc \notin Telling
  BY <1>1 DEF Told, Telling
<1>2. CASE th'[p] = th[p] /\ th[p].pc \in Telling
  <2>1. th[p].card \in Card /\ status[th[p].card] # "absent"
    BY <1>2, HoldingCard, CardsAssumption
       DEF AuditInv, RunInv, Base, Telling, Holding, Point, CardsInOrder, TypeOK, StoreTypeOK, On
  <2> QED
    BY <1>2, <2>1 DEF AuditInv, ProcsTold, Told, Persist
<1> QED
  BY <1>1, <1>2

\* A row that is not written, or a card that is not closed, still tells the truth.
LEMMA RowsStay ==
    ASSUME AuditInv, Persist, NEW c \in Card
    PROVE  /\ audit'[c] = audit[c] => RowTold(c)'
           /\ (status'[c] = "done" => status[c] = "done") => DoneTold(c)'
<1>1. RowTold(c) /\ DoneTold(c)
  BY DEF AuditInv, CardsTold
<1> QED
  BY <1>1 DEF RowTold, DoneTold, Persist

\* It is enough to look at the process that moves and at the card it holds.
LEMMA TellKeeps ==
    ASSUME AuditInv, RunInv', Persist, NEW p \in Proc, NEW c \in Card,
           \A q \in Proc : q # p => th'[q] = th[q],
           \A d \in Card : d # c => /\ audit'[d] = audit[d]
                                    /\ status'[d] = "done" => status[d] = "done",
           Told(th[p], status, kind, satisfied, runs)',
           audit'[c] = audit[c] \/ RowTold(c)',
           (status'[c] = "done" => status[c] = "done") \/ DoneTold(c)'
    PROVE  AuditInv'
<1>1. ProcsTold'
  BY StillTold DEF ProcsTold
<1>2. \A d \in Card : RowTold(d)' /\ DoneTold(d)'
  BY RowsStay
<1> QED
  BY <1>1, <1>2 DEF AuditInv, CardsTold

LEMMA AuditStep ==
    ASSUME AuditInv, [Next]_vars
    PROVE  AuditInv'
<1>1. /\ Base /\ RunInv /\ RunInv'
      /\ th \in [Proc -> ThreadState] /\ StoreTypeOK /\ StoresTyped
  BY RunInvStep DEF AuditInv, RunInv, Base, TypeOK, StoresTyped
<1>2. CASE UNCHANGED vars
  BY <1>1, <1>2 DEF vars, cardVars, columns, stores, AuditInv, ProcsTold, Told, CardsTold, RowTold, DoneTold
<1>3. CASE Next /\ NothingTold
  <2>1. Persist
    BY <1>1, <1>3, Persists
  <2>2. ProcsTold'
    BY <1>3, <2>1, StillTold DEF ProcsTold, NothingTold
  <2>3. \A c \in Card : RowTold(c)' /\ DoneTold(c)'
    BY <1>3, <2>1, RowsStay DEF NothingTold
  <2> QED
    BY <1>1, <2>2, <2>3 DEF AuditInv, CardsTold
<1>4. ASSUME Next, NEW p \in Proc, th[p].pc \in Holding, Tells(p)
      PROVE  AuditInv'
  <2>0. PICK c \in Card : c = On(p)
    BY <1>1, <1>4, HoldingCard
  <2>1. Persist /\ th[p] \in ThreadState /\ th[p].card = c /\ th[p].flag \in BOOLEAN
    BY <1>1, <1>4, <2>0, Persists DEF On, ThreadState
  <2>2. status[c] # "absent" /\ created \in Nat
    BY <1>1, <1>4, <2>0, HoldingCard, CardsAssumption
       DEF Base, CardsInOrder, TypeOK, StoreTypeOK
  <2>3. Told(th[p], status, kind, satisfied, runs)
    BY DEF AuditInv, ProcsTold
  <2>4. kind'[c] = kind[c] /\ status'[c] # "absent"
    BY <2>1, <2>2 DEF Persist
  <2>5. \A point \in Point : Goto(p, point)
          => /\ th'[p].pc = point /\ th'[p].card = c /\ th'[p].flag = th[p].flag
             /\ \A q \in Proc : q # p => th'[q] = th[q]
    BY <1>1, <2>1 DEF Goto, ThreadState
  <2>6. Leave(p) => /\ th'[p].pc = "idle" /\ \A q \in Proc : q # p => th'[q] = th[q]
    BY <1>1 DEF Leave, Idle
  <2>7. {"rejected", "want", "willdeny", "start", "record", "wantrecord"} \subseteq Point
    BY DEF Point
  <2>8. CASE Deny(On(p)) /\ Goto(p, "rejected") /\ UNCHANGED stores
    <3>1. status'[c] = "denied" /\ \A d \in Card : status'[d] = "done" => status[d] = "done"
      BY <1>1, <2>0, <2>8, NotDone DEF Deny, Transition, StoreTypeOK
    <3>2. Told(th[p], status, kind, satisfied, runs)'
      BY <2>5, <2>7, <2>8, <3>1 DEF Told
    <3> QED
      BY <1>1, <2>1, <2>5, <2>7, <2>8, <3>1, <3>2, TellKeeps DEF stores
  <2>9. CASE RecordRejection(p)
    <3>1. /\ th[p].pc = "rejected" /\ audit' = [audit EXCEPT ![c] = "rejected"]
          /\ Leave(p) /\ UNCHANGED status
      BY <2>0, <2>9 DEF RecordRejection, At, cardVars
    <3>2. audit'[c] = "rejected" /\ \A d \in Card : d # c => audit'[d] = audit[d]
      BY <1>1, <3>1 DEF StoresTyped
    <3>3. status[c] = "denied"
      BY <2>1, <2>3, <3>1 DEF Told
    <3>4. RowTold(c)'
      BY <2>4, <3>1, <3>2, <3>3 DEF RowTold
    <3>5. Told(th[p], status, kind, satisfied, runs)'
      BY <2>6, <3>1 DEF Told
    <3> QED
      BY <1>1, <2>1, <2>6, <3>1, <3>2, <3>4, <3>5, TellKeeps
  <2>10. CASE Approve(On(p), TRUE) /\ kind[On(p)] = "want" /\ Goto(p, "want") /\ UNCHANGED stores
    <3>1. \A d \in Card : status'[d] = "done" => status[d] = "done"
      BY <1>1, <2>10, NotDone
    <3>2. Told(th[p], status, kind, satisfied, runs)'
      BY <2>0, <2>4, <2>5, <2>7, <2>10 DEF Told
    <3> QED
      BY <1>1, <2>1, <2>5, <2>7, <2>10, <3>1, <3>2, TellKeeps DEF stores
  <2>11. CASE ConfirmWant(p)
    <3>1. PICK ok \in BOOLEAN : /\ satisfied' = [satisfied EXCEPT ![c] = @ \/ ok]
                                /\ th' = [th EXCEPT ![p].pc = "wantclose", ![p].flag = ok]
      BY <2>0, <2>11 DEF ConfirmWant
    <3>2. th[p].pc = "want" /\ UNCHANGED <<status, audit>>
      BY <2>11 DEF ConfirmWant, At, cardVars
    <3>3. satisfied[c] \in BOOLEAN /\ satisfied'[c] = (satisfied[c] \/ ok)
      BY <1>1, <3>1 DEF StoresTyped
    <3>4. /\ th'[p].pc = "wantclose" /\ th'[p].card = c /\ th'[p].flag = ok
          /\ \A q \in Proc : q # p => th'[q] = th[q]
      BY <1>1, <2>1, <3>1 DEF ThreadState
    <3>5. kind[c] = "want"
      BY <2>1, <2>3, <3>2 DEF Told
    <3>6. Told(th[p], status, kind, satisfied, runs)'
      BY <2>4, <3>3, <3>4, <3>5 DEF Told
    <3> QED
      BY <1>1, <2>1, <3>2, <3>4, <3>6, TellKeeps
  <2>12. CASE WillCheck(p)
    <3>1. th[p].pc = "will" /\ UNCHANGED status
      BY <2>12 DEF WillCheck, At, cardVars
    <3>2. Goto(p, "willdeny") \/ Goto(p, "start")
      BY <2>12 DEF WillCheck
    <3>3. th'[p].pc \in {"willdeny", "start"} /\ \A q \in Proc : q # p => th'[q] = th[q]
      BY <2>5, <2>7, <3>2
    <3>4. Told(th[p], status, kind, satisfied, runs)'
      BY <3>3 DEF Told
    <3>5. \/ UNCHANGED audit
          \/ kind[c] = "impersonation" /\ audit' = [audit EXCEPT ![c] = "refused_by_will"]
      BY <2>0, <2>12 DEF WillCheck, WillRefuses
    <3>6. audit'[c] = audit[c] \/ RowTold(c)'
      BY <1>1, <2>4, <3>5 DEF StoresTyped, RowTold
    <3>7. \A d \in Card : d # c => audit'[d] = audit[d]
      BY <1>1, <3>5 DEF StoresTyped
    <3> QED
      BY <1>1, <2>1, <3>1, <3>3, <3>4, <3>6, <3>7, TellKeeps
  <2>13. CASE Execute(p)
    <3>1. PICK ok \in BOOLEAN : th' = [th EXCEPT ![p].pc = "close", ![p].flag = ok]
      BY <2>13 DEF Execute
    <3>2. /\ runs[c] = 0 /\ runs' = [runs EXCEPT ![c] = @ + 1] /\ UNCHANGED <<status, audit>>
      BY <1>1, <2>0, <2>13 DEF Execute, RunInv, RunOwned, cardVars
    <3>3. runs'[c] = 1
      BY <1>1, <3>2 DEF StoresTyped
    <3>4. /\ th'[p].pc = "close" /\ th'[p].card = c
          /\ \A q \in Proc : q # p => th'[q] = th[q]
      BY <1>1, <2>1, <3>1 DEF ThreadState
    <3>5. Told(th[p], status, kind, satisfied, runs)'
      BY <3>3, <3>4 DEF Told
    <3> QED
      BY <1>1, <2>1, <3>2, <3>4, <3>5, TellKeeps
  <2>14. CASE CloseCard(p)
    <3>1. /\ th[p].pc \in {"close", "wantclose"} /\ UNCHANGED stores
          /\ Goto(p, IF th[p].pc = "close" THEN "record" ELSE "wantrecord")
      BY <2>14 DEF CloseCard, At
    <3>2. /\ th'[p].pc = (IF th[p].pc = "close" THEN "record" ELSE "wantrecord")
          /\ th'[p].card = c /\ th'[p].flag = th[p].flag
          /\ \A q \in Proc : q # p => th'[q] = th[q]
      BY <2>5, <2>7, <3>1
    <3>3. /\ th[p].pc = "close" => runs[c] = 1 /\ kind[c] = "plain"
          /\ th[p].pc = "wantclose" => kind[c] = "want" /\ (th[p].flag => satisfied[c])
      BY <1>1, <2>1, <2>3 DEF Told, RunInv, RunsStarted
    <3>4. Told(th[p], status, kind, satisfied, runs)'
      BY <2>4, <3>1, <3>2, <3>3 DEF Told, stores
    <3>5. \/ UNCHANGED status
          \/ status' = [status EXCEPT ![c] = IF th[p].flag THEN "done" ELSE "failed"]
      BY <2>0, <2>14 DEF CloseCard, MarkClosed, Transition, Refused, cardVars
    <3>6. (status'[c] = "done" => status[c] = "done") \/ DoneTold(c)'
      <4>1. CASE UNCHANGED status
        BY <4>1
      <4>2. CASE ~th[p].flag /\ status' = [status EXCEPT ![c] = "failed"]
        BY <1>1, <4>2 DEF StoreTypeOK
      <4>3. CASE th[p].flag
        BY <2>4, <3>1, <3>3, <4>3 DEF DoneTold, stores
      <4> QED
        BY <3>5, <4>1, <4>2, <4>3
    <3>7. \A d \in Card : d # c => audit'[d] = audit[d] /\ status'[d] = status[d]
      BY <1>1, <3>1, <3>5 DEF StoreTypeOK, stores
    <3>8. audit'[c] = audit[c]
      BY <3>1 DEF stores
    <3> QED
      BY <1>1, <2>1, <3>2, <3>4, <3>6, <3>7, <3>8, TellKeeps
  <2>15. CASE RecordOutcome(p)
    <3> DEFINE row == IF ~th[p].flag THEN "failed"
                      ELSE IF th[p].pc = "record" THEN "ran" ELSE "satisfied"
    <3>1. /\ th[p].pc \in {"record", "wantrecord"} /\ Leave(p) /\ UNCHANGED <<status, runs, satisfied>>
          /\ audit' = [audit EXCEPT ![c] = row]
      BY <2>0, <2>15 DEF RecordOutcome, At, cardVars
    <3>2. /\ th[p].pc = "record" => runs[c] = 1
          /\ th[p].pc = "wantrecord" => kind[c] = "want" /\ (th[p].flag => satisfied[c])
      BY <2>1, <2>3 DEF Told
    <3>3. /\ row = "failed" => runs[c] = 1 \/ kind[c] = "want"
          /\ row = "ran" => runs[c] = 1
          /\ row = "satisfied" => satisfied[c]
          /\ row \in {"failed", "ran", "satisfied"}
      BY <2>1, <3>1, <3>2
    <3> HIDE DEF row
    <3>4. audit'[c] = row /\ \A d \in Card : d # c => audit'[d] = audit[d]
      BY <1>1, <3>1 DEF StoresTyped
    <3>5. RowTold(c)'
      BY <2>4, <3>1, <3>3, <3>4 DEF RowTold
    <3>6. Told(th[p], status, kind, satisfied, runs)'
      BY <2>6, <3>1 DEF Told
    <3> QED
      BY <1>1, <2>1, <2>6, <3>1, <3>4, <3>5, <3>6, TellKeeps
  <2> QED
    BY <1>4, <2>8, <2>9, <2>10, <2>11, <2>12, <2>13, <2>14, <2>15 DEF Tells
<1> QED
  BY <1>1, <1>2, <1>3, <1>4, TellMoves

LEMMA AuditInit == Init => AuditInv
<1> SUFFICES ASSUME Init PROVE AuditInv
  OBVIOUS
<1>1. RunInv
  BY RunInvInit
<1>2. ProcsTold
  BY DEF Init, ProcsTold, Told, Idle
<1>3. CardsTold
  BY DEF Init, StoreInit, CardsTold, RowTold, DoneTold
<1> QED
  BY <1>1, <1>2, <1>3 DEF AuditInv

\* The audit log does not lie: record_outcome is a call of its own, made after
\* the card was closed or could not be, and still what it writes is so.
THEOREM AuditIsTrue == Spec => []AuditTellsTheTruth
<1>1. AuditInv => AuditTellsTheTruth
  BY DEF AuditInv, CardsTold, RowTold, AuditTellsTheTruth, RunInv, RunsStarted, Unstarted, Base, TypeOK
<1> QED
  BY <1>1, AuditInit, AuditStep, PTL DEF Spec

\* mark_done is reached only with the action run, or with the want recorded.
THEOREM DoneCardsAreDone == Spec => []DoneIsTrue
<1>1. AuditInv => DoneIsTrue
  BY DEF AuditInv, CardsTold, DoneTold, DoneIsTrue
<1> QED
  BY <1>1, AuditInit, AuditStep, PTL DEF Spec

-----------------------------------------------------------------------------
(* Approved and running cards have their handler                           *)

\* The points of a process that must see its card through.
Bearing == {"will", "start", "want", "wantclose", "execute", "close"}

\* The steps of such a process; nothing but these and a crash moves it.
Bears(p) == WillCheck(p) \/ StartRun(p) \/ ConfirmWant(p) \/ Execute(p) \/ CloseCard(p)

LEMMA BearersHold ==
    ASSUME Base, Next, NEW p \in Proc, th[p].pc \in Bearing
    PROVE  Bears(p) \/ Crash \/ th'[p] = th[p]
<1>1. th \in [Proc -> ThreadState] /\ th[p].pc \in Bearing
  BY DEF Base, TypeOK
<1>2. ASSUME NEW t \in Thread,
             \/ \E k \in Kind, ch \in Chats, b \in BOOLEAN : Propose(t, k, ch, b)
             \/ Present(t) \/ LinkDialog(t)
             \/ \E ch \in Chats, a \in Card \cup {NoCard} :
                  \E k \in 0..(IF a = NoCard THEN 0 ELSE posts[a]) : ReplySnapshot(t, ch, a, k)
      PROVE  th'[p] = th[p]
  BY <1>1, <1>2 DEF Propose, Present, Presented, LinkDialog, ReplySnapshot, At, Take, Goto, Leave, Bearing
<1>3. ASSUME NEW t \in Thread, Replying(t)
      PROVE  th'[p] = th[p]
  BY <1>1, <1>3
     DEF Replying, Route, ReplyApprove, ReplyToDialog, ReplyNone, ReplyDeny, ReplyDefer, DeferCard,
         DialogTurn, RecordRejection, At, Goto, Leave, Bearing
<1>4. ASSUME NEW q \in Thread \cup {Cockpit}, Approving(q)
      PROVE  Bears(p) \/ th'[p] = th[p]
  <2>1. CASE p = q
    BY <1>1, <1>4, <2>1 DEF Approving, Judge, ApproveCard, BlockCard, WillDeny, RecordOutcome, At,
                            Bearing, Bears
  <2>2. CASE p # q
    BY <1>1, <1>4, <2>2
       DEF Approving, Judge, ApproveCard, BlockCard, ConfirmWant, WillCheck, WillDeny, StartRun,
           Execute, CloseCard, RecordOutcome, Goto, Leave
  <2> QED
    BY <2>1, <2>2
<1>5. ASSUME \/ Housekeeping
             \/ \E c \in Card : CockpitApprove(c) \/ WebDeny(c) \/ ReminderDue(c) \/ Age(c)
      PROVE  th'[p] = th[p]
  BY <1>1, <1>5
     DEF Housekeeping, FindDueReminders, RePresent, FindAbandoned, EndCycle, Remind,
         ExpireAbandoned, CockpitApprove, WebDeny, ReminderDue, Age, At, Take, Leave, Bearing
<1> QED
  BY <1>2, <1>3, <1>4, <1>5 DEF Next

Underway == {"approved", "running"}

\* Of the transactions, only approve and start bring a card underway.
LEMMA UnderwayTransactions ==
    ASSUME StoreTypeOK
    PROVE  /\ \A c : Deny(c) \/ Expire(c) \/ Block(c) \/ ReOpen(c)
                     => \A d \in Card : status'[d] \in Underway => status'[d] = status[d]
           /\ \A c : \A ok \in BOOLEAN : MarkClosed(c, ok)
                     => \A d \in Card : status'[d] \in Underway => status'[d] = status[d]
           /\ \A c, n, when : Defer(c, n, when)
                     => \A d \in Card : status'[d] \in Underway => status'[d] = status[d]
           /\ \A c, k, ch, b : CreateCard(c, k, ch, b)
                     => \A d \in Card : status'[d] \in Underway => status'[d] = status[d]
           /\ \A c : AttachMessage(c) => UNCHANGED status
           /\ \A c : \A move : Refused(c, move) => UNCHANGED status
<1>1. status \in [Card -> CardStatus \cup {"absent"}]
  BY DEF StoreTypeOK
<1> QED
  BY <1>1 DEF Underway, Deny, Expire, Block, ReOpen, MarkClosed, Defer, CreateCard,
              AttachMessage, Refused, Transition, cardVars

\* A card is brought underway only by the process that has it in hand.
LEMMA UnderwayByHandler ==
    ASSUME Base, Next, NEW d \in Card, status'[d] \in Underway, status'[d] # status[d]
    PROVE  \E p \in Proc : On(p) = d /\ (ApproveCard(p) \/ StartRun(p))
<1>a. /\ StoreTypeOK /\ (UNCHANGED cardVars => UNCHANGED status)
      /\ \A p \in Proc : th[p].flag \in BOOLEAN
      /\ status \in [Card -> CardStatus \cup {"absent"}]
  BY DEF Base, TypeOK, StoreTypeOK, ThreadState, cardVars
<1>1. ASSUME NEW t \in Thread,
             \/ \E k \in Kind, ch \in Chats, b \in BOOLEAN : Propose(t, k, ch, b)
             \/ Present(t) \/ LinkDialog(t)
             \/ \E ch \in Chats, a \in Card \cup {NoCard} :
                  \E k \in 0..(IF a = NoCard THEN 0 ELSE posts[a]) : ReplySnapshot(t, ch, a, k)
      PROVE  FALSE
  BY <1>a, <1>1, UnderwayTransactions DEF Propose, Present, LinkDialog, ReplySnapshot
<1>2. ASSUME NEW t \in Thread, Replying(t)
      PROVE  FALSE
  BY <1>a, <1>2, UnderwayTransactions
     DEF Replying, Route, ReplyApprove, ReplyToDialog, ReplyNone, ReplyDeny, ReplyDefer, DeferCard,
         DialogTurn, RecordRejection
<1>3. ASSUME NEW p \in Thread \cup {Cockpit}, Approving(p)
      PROVE  On(p) = d /\ (ApproveCard(p) \/ StartRun(p))
  <2>1. ApproveCard(p) \/ StartRun(p)
    BY <1>a, <1>3, UnderwayTransactions
       DEF Approving, Judge, BlockCard, ConfirmWant, WillCheck, WillDeny,
           Execute, CloseCard, RecordOutcome, Proc
  <2>2. On(p) = d
    BY <1>a, <2>1, UnderwayTransactions DEF ApproveCard, Approve, StartRun, MarkRunning, Transition
  <2> QED
    BY <2>1, <2>2
<1>4. ASSUME \/ Housekeeping \/ Crash
             \/ \E c \in Card : CockpitApprove(c) \/ WebDeny(c) \/ ReminderDue(c) \/ Age(c)
      PROVE  FALSE
  BY <1>a, <1>4, UnderwayTransactions
     DEF Housekeeping, FindDueReminders, RePresent, FindAbandoned, EndCycle, Remind,
         ExpireAbandoned, Crash, CockpitApprove, WebDeny, ReminderDue, Age
<1> QED
  BY <1>1, <1>2, <1>3, <1>4 DEF Next, Proc

\* The refusal of an approved card stays on its row.
LEMMA RefusalStays ==
    ASSUME AuditInv, Next, NEW c \in Card, status[c] = "approved", audit[c] = "refused_by_will"
    PROVE  audit'[c] = "refused_by_will"
<1>1. /\ Base /\ RunInv /\ kind[c] = "impersonation" /\ runs[c] = 0
      /\ audit \in [Card -> Outcome] /\ ProcsTold
      /\ (UNCHANGED stores => UNCHANGED audit)
  BY DEF AuditInv, RunInv, RunsStarted, Unstarted, Base, TypeOK, CardsTold, RowTold, stores
<1>2. ASSUME NEW t \in Thread,
             \/ \E k \in Kind, ch \in Chats, b \in BOOLEAN : Propose(t, k, ch, b)
             \/ Present(t) \/ LinkDialog(t)
             \/ \E ch \in Chats, a \in Card \cup {NoCard} :
                  \E k \in 0..(IF a = NoCard THEN 0 ELSE posts[a]) : ReplySnapshot(t, ch, a, k)
      PROVE  UNCHANGED audit
  BY <1>1, <1>2 DEF Propose, Present, LinkDialog, ReplySnapshot
<1>3. ASSUME NEW t \in Thread, RecordRejection(t)
      PROVE  audit'[c] = audit[c]
  <2>1. th[t].pc = "rejected" /\ audit' = [audit EXCEPT ![On(t)] = "rejected"]
    BY <1>3 DEF RecordRejection, At
  <2>2. status[On(t)] = "denied"
    BY <1>1, <2>1 DEF ProcsTold, Told, On, Proc
  <2> QED
    BY <1>1, <2>1, <2>2
<1>4. ASSUME NEW t \in Thread, Replying(t)
      PROVE  audit'[c] = audit[c]
  BY <1>1, <1>3, <1>4
     DEF Replying, Route, ReplyApprove, ReplyToDialog, ReplyNone, ReplyDeny, ReplyDefer, DeferCard,
         DialogTurn
<1>5. ASSUME NEW p \in Thread \cup {Cockpit}, WillCheck(p)
      PROVE  audit'[c] = "refused_by_will"
  BY <1>1, <1>5 DEF WillCheck
<1>6. ASSUME NEW p \in Thread \cup {Cockpit}, RecordOutcome(p)
      PROVE  audit'[c] = audit[c]
  <2>1. /\ th[p].pc \in {"record", "wantrecord"}
        /\ \A d \in Card : d # On(p) => audit'[d] = audit[d]
    BY <1>1, <1>6 DEF RecordOutcome, At
  <2>2. runs[On(p)] = 1 \/ kind[On(p)] = "want"
    BY <1>1, <2>1 DEF ProcsTold, Told, On, Proc
  <2> QED
    BY <1>1, <2>1, <2>2
<1>7. ASSUME NEW p \in Thread \cup {Cockpit}, Approving(p)
      PROVE  audit'[c] = "refused_by_will"
  BY <1>1, <1>5, <1>6, <1>7
     DEF Approving, Judge, ApproveCard, BlockCard, ConfirmWant, WillDeny, StartRun, Execute, CloseCard
<1>8. ASSUME \/ Housekeeping \/ Crash
             \/ \E d \in Card : CockpitApprove(d) \/ WebDeny(d) \/ ReminderDue(d) \/ Age(d)
      PROVE  UNCHANGED audit
  BY <1>1, <1>8
     DEF Housekeeping, FindDueReminders, RePresent, FindAbandoned, EndCycle, Remind,
         ExpireAbandoned, Crash, CockpitApprove, WebDeny, ReminderDue, Age
<1> QED
  BY <1>2, <1>4, <1>7, <1>8 DEF Next

\* A process that bears a running card goes on to close it, and then closes it.
LEMMA RunningBorne ==
    ASSUME Base, Next, ~Crash, NEW c \in Card, NEW p \in Proc, On(p) = c,
           th[p].pc \in {"execute", "close"}, status[c] = "running", status'[c] = "running"
    PROVE  HeldAt(c, {"execute", "close"})'
<1>1. th \in [Proc -> ThreadState] /\ status \in [Card -> CardStatus \cup {"absent"}]
  BY DEF Base, TypeOK, StoreTypeOK
<1>2. Bears(p) \/ th'[p] = th[p]
  BY BearersHold DEF Bearing
<1>3. CASE th'[p] = th[p]
  BY <1>3 DEF HeldAt, On
<1>4. CASE Execute(p)
  BY <1>1, <1>4 DEF Execute, HeldAt, On, ThreadState
<1>5. CASE CloseCard(p)
  BY <1>1, <1>5 DEF CloseCard, MarkClosed, Refused, Transition, Allowed, On
<1> QED
  BY <1>2, <1>3, <1>4, <1>5 DEF Bears, WillCheck, StartRun, ConfirmWant, At

\* A process that bears an approved card goes on with it, or it is refused.
LEMMA ApprovedBorne ==
    ASSUME Base, Next, ~Crash, NEW c \in Card, NEW p \in Proc, On(p) = c,
           th[p].pc \in {"will", "start", "want", "wantclose"},
           status[c] = "approved", status'[c] = "approved"
    PROVE  HeldAt(c, {"will", "start", "want", "wantclose"})' \/ audit'[c] = "refused_by_will"
<1>1. /\ th \in [Proc -> ThreadState] /\ status \in [Card -> CardStatus \cup {"absent"}]
      /\ audit \in [Card -> Outcome]
  BY DEF Base, TypeOK, StoreTypeOK
<1>2. Bears(p) \/ th'[p] = th[p]
  BY BearersHold DEF Bearing
<1>3. CASE th'[p] = th[p]
  BY <1>3 DEF HeldAt, On
<1>4. CASE WillCheck(p)
  BY <1>1, <1>4 DEF WillCheck, Goto, HeldAt, On, ThreadState
<1>5. CASE StartRun(p)
  BY <1>1, <1>5 DEF StartRun, MarkRunning, Refused, Transition, Allowed, On
<1>6. CASE ConfirmWant(p)
  BY <1>1, <1>6 DEF ConfirmWant, HeldAt, On, ThreadState
<1>7. CASE CloseCard(p)
  BY <1>1, <1>7 DEF CloseCard, MarkClosed, Refused, Transition, Allowed, On
<1> QED
  BY <1>2, <1>3, <1>4, <1>5, <1>6, <1>7 DEF Bears, Execute, At

\* Only a crash is counted as one.
LEMMA CrashesOnly ==
    ASSUME Next, ~Crash
    PROVE  crashes' = crashes
<1>1. ASSUME NEW t \in Thread, Replying(t)
      PROVE  crashes' = crashes
  BY <1>1
     DEF Replying, Route, ReplyApprove, ReplyToDialog, ReplyNone, ReplyDeny, ReplyDefer, DeferCard,
         DialogTurn, RecordRejection
<1>2. ASSUME NEW p \in Thread \cup {Cockpit}, Approving(p)
      PROVE  crashes' = crashes
  BY <1>2
     DEF Approving, Judge, ApproveCard, BlockCard, ConfirmWant, WillCheck, WillDeny, StartRun,
         Execute, CloseCard, RecordOutcome
<1>3. ASSUME Housekeeping
      PROVE  crashes' = crashes
  BY <1>3 DEF Housekeeping, FindDueReminders, RePresent, FindAbandoned, EndCycle, Remind, ExpireAbandoned
<1> QED
  BY <1>1, <1>2, <1>3
     DEF Next, Propose, Present, LinkDialog, ReplySnapshot, CockpitApprove, WebDeny, ReminderDue, Age

\* The process that brings a card underway bears it.
LEMMA UnderwayIsBorne ==
    ASSUME Base, NEW c \in Card, NEW p \in Proc, On(p) = c, ApproveCard(p) \/ StartRun(p),
           status'[c] \in Underway, status'[c] # status[c]
    PROVE  /\ status'[c] = "running" => HeldAt(c, {"execute", "close"})'
           /\ status'[c] = "approved" => HeldAt(c, {"will", "start", "want", "wantclose"})'
<1>1. th \in [Proc -> ThreadState] /\ status \in [Card -> CardStatus \cup {"absent"}]
  BY DEF Base, TypeOK, StoreTypeOK
<1>2. ASSUME NEW point \in Point, Goto(p, point)
      PROVE  th'[p].pc = point /\ On(p)' = c
  BY <1>1, <1>2 DEF Goto, On, ThreadState
<1>3. {"will", "want", "execute"} \subseteq Point
  BY DEF Point
<1>4. CASE StartRun(p)
  <2>1. MarkRunning(c) /\ Goto(p, "execute")
    BY <1>4 DEF StartRun, Refused, cardVars
  <2>2. status'[c] = "running" /\ th'[p].pc = "execute" /\ On(p)' = c
    BY <1>1, <1>2, <1>3, <2>1 DEF MarkRunning, Transition
  <2> QED
    BY <2>2 DEF HeldAt
<1>5. CASE ApproveCard(p)
  <2>1. Approve(c, th[p].flag) /\ (th[p].flag => Goto(p, "want") \/ Goto(p, "will"))
    BY <1>5 DEF ApproveCard, Refused, cardVars
  <2>2. status'[c] = "approved" /\ th[p].flag
    BY <1>1, <2>1 DEF Approve, Transition, Underway
  <2>3. th'[p].pc \in {"want", "will"} /\ On(p)' = c
    BY <1>2, <1>3, <2>1, <2>2
  <2> QED
    BY <2>2, <2>3 DEF HeldAt
<1> QED
  BY <1>4, <1>5

LEMMA StrandStep ==
    ASSUME AuditInv, OnlyACrashStrands, [Next]_vars
    PROVE  OnlyACrashStrands'
<1>1. Base /\ crashes \in Nat
  BY DEF AuditInv, RunInv, Base, TypeOK
<1>2. CASE UNCHANGED vars
  BY <1>2 DEF vars, cardVars, stores, OnlyACrashStrands, HeldAt, On
<1>3. CASE Crash
  BY <1>1, <1>3 DEF Crash, OnlyACrashStrands
<1>4. ASSUME Next, ~Crash, crashes' = 0, NEW c \in Card
      PROVE  /\ status'[c] = "running" => HeldAt(c, {"execute", "close"})'
             /\ status'[c] = "approved" => \/ HeldAt(c, {"will", "start", "want", "wantclose"})'
                                          \/ audit'[c] = "refused_by_will"
  <2>1. crashes = 0
    BY <1>4, CrashesOnly
  <2>2. CASE status'[c] = "running" /\ status[c] = "running"
    <3>1. PICK p \in Proc : On(p) = c /\ th[p].pc \in {"execute", "close"}
      BY <2>1, <2>2 DEF OnlyACrashStrands, HeldAt
    <3> QED
      BY <1>1, <1>4, <2>2, <3>1, RunningBorne
  <2>3. CASE status'[c] = "approved" /\ status[c] = "approved" /\ audit[c] # "refused_by_will"
    <3>1. PICK p \in Proc : On(p) = c /\ th[p].pc \in {"will", "start", "want", "wantclose"}
      BY <2>1, <2>3 DEF OnlyACrashStrands, HeldAt
    <3> QED
      BY <1>1, <1>4, <2>3, <3>1, ApprovedBorne
  <2>4. CASE status'[c] = "approved" /\ status[c] = "approved" /\ audit[c] = "refused_by_will"
    BY <1>4, <2>4, RefusalStays
  <2>5. CASE status'[c] \in Underway /\ status'[c] # status[c]
    BY <1>1, <1>4, <2>5, UnderwayByHandler, UnderwayIsBorne
  <2> QED
    BY <2>2, <2>3, <2>4, <2>5 DEF Underway
<1> QED
  BY <1>2, <1>3, <1>4 DEF OnlyACrashStrands

\* Nobody looks for approved and running cards, and nobody has to: whatever
\* handlers race, each is in the hands of a process that will close it, unless
\* the daemon crashed or the will-I check refused it (decision_pipeline.py).
THEOREM OnlyCrashesStrand == Spec => []OnlyACrashStrands
<1>1. Init => OnlyACrashStrands
  BY DEF Init, StoreInit, OnlyACrashStrands
<1> QED
  BY <1>1, AuditInit, AuditStep, StrandStep, PTL DEF Spec

-----------------------------------------------------------------------------
(* Refinement: every step is one of OneShotApproval's or a stutter         *)

\* No transaction brings a card to running but from approved.
LEMMA RunningTransactions ==
    ASSUME StoreTypeOK
    PROVE  /\ \A c : Deny(c) \/ Expire(c) \/ Block(c) \/ ReOpen(c) \/ MarkRunning(c)
                     => \A d \in Card : status'[d] = "running" => status[d] \in {"approved", "running"}
           /\ \A c : \A ok \in BOOLEAN : Approve(c, ok) \/ MarkClosed(c, ok)
                     => \A d \in Card : status'[d] = "running" => status[d] = "running"
           /\ \A c, n, when : Defer(c, n, when)
                     => \A d \in Card : status'[d] = "running" => status[d] = "running"
           /\ \A c, k, ch, b : CreateCard(c, k, ch, b)
                     => \A d \in Card : status'[d] = "running" => status[d] = "running"
           /\ \A c : AttachMessage(c) => UNCHANGED status
           /\ \A c : \A move : Refused(c, move) => UNCHANGED status
<1>1. status \in [Card -> CardStatus \cup {"absent"}]
  BY DEF StoreTypeOK
<1> QED
  BY <1>1 DEF Deny, Expire, Block, ReOpen, MarkRunning, MarkClosed, Approve, Defer, CreateCard,
              AttachMessage, Refused, Transition, Allowed, cardVars

LEMMA RunningFromApproved ==
    ASSUME Base, Next
    PROVE  \A d \in Card : status'[d] = "running" => status[d] \in {"approved", "running"}
<1>a. /\ StoreTypeOK /\ (UNCHANGED cardVars => UNCHANGED status)
      /\ \A p \in Proc : th[p].flag \in BOOLEAN
  BY DEF Base, TypeOK, ThreadState, cardVars
<1>1. ASSUME NEW t \in Thread,
             \/ \E k \in Kind, ch \in Chats, b \in BOOLEAN : Propose(t, k, ch, b)
             \/ Present(t) \/ LinkDialog(t)
             \/ \E ch \in Chats, a \in Card \cup {NoCard} :
                  \E k \in 0..(IF a = NoCard THEN 0 ELSE posts[a]) : ReplySnapshot(t, ch, a, k)
      PROVE  \A d \in Card : status'[d] = "running" => status[d] \in {"approved", "running"}
  BY <1>a, <1>1, RunningTransactions DEF Propose, Present, LinkDialog, ReplySnapshot
<1>2. ASSUME NEW t \in Thread, Replying(t)
      PROVE  \A d \in Card : status'[d] = "running" => status[d] \in {"approved", "running"}
  BY <1>a, <1>2, RunningTransactions
     DEF Replying, Route, ReplyApprove, ReplyToDialog, ReplyNone, ReplyDeny, ReplyDefer, DeferCard,
         DialogTurn, RecordRejection
<1>3. ASSUME NEW p \in Thread \cup {Cockpit}, Approving(p)
      PROVE  \A d \in Card : status'[d] = "running" => status[d] \in {"approved", "running"}
  BY <1>a, <1>3, RunningTransactions
     DEF Approving, Judge, ApproveCard, BlockCard, ConfirmWant, WillCheck, WillDeny, StartRun,
         Execute, CloseCard, RecordOutcome, Proc
<1>4. ASSUME \/ Housekeeping \/ Crash
             \/ \E c \in Card : CockpitApprove(c) \/ WebDeny(c) \/ ReminderDue(c) \/ Age(c)
      PROVE  \A d \in Card : status'[d] = "running" => status[d] \in {"approved", "running"}
  BY <1>a, <1>4, RunningTransactions
     DEF Housekeeping, FindDueReminders, RePresent, FindAbandoned, EndCycle, Remind,
         ExpireAbandoned, Crash, CockpitApprove, WebDeny, ReminderDue, Age
<1> QED
  BY <1>1, <1>2, <1>3, <1>4 DEF Next

\* Only its own execution, or a crash, takes a process from the execution.
LEMMA HandsHold ==
    ASSUME Base, Next, NEW p \in Proc, At(p, "execute")
    PROVE  Execute(p) \/ Crash \/ th'[p] = th[p]
<1>1. th \in [Proc -> ThreadState] /\ th[p].pc = "execute"
  BY DEF Base, TypeOK, At
<1>2. ASSUME NEW t \in Thread,
             \/ \E k \in Kind, ch \in Chats, b \in BOOLEAN : Propose(t, k, ch, b)
             \/ Present(t) \/ LinkDialog(t)
             \/ \E ch \in Chats, a \in Card \cup {NoCard} :
                  \E k \in 0..(IF a = NoCard THEN 0 ELSE posts[a]) : ReplySnapshot(t, ch, a, k)
      PROVE  th'[p] = th[p]
  BY <1>1, <1>2 DEF Propose, Present, Presented, LinkDialog, ReplySnapshot, At, Take, Goto, Leave
<1>3. ASSUME NEW t \in Thread, Replying(t)
      PROVE  th'[p] = th[p]
  BY <1>1, <1>3
     DEF Replying, Route, ReplyApprove, ReplyToDialog, ReplyNone, ReplyDeny, ReplyDefer, DeferCard,
         DialogTurn, RecordRejection, At, Goto, Leave
<1>4. ASSUME NEW q \in Thread \cup {Cockpit}, Approving(q)
      PROVE  Execute(p) \/ th'[p] = th[p]
  BY <1>1, <1>4
     DEF Approving, Judge, ApproveCard, BlockCard, ConfirmWant, WillCheck, WillDeny, StartRun,
         Execute, CloseCard, RecordOutcome, At, Goto, Leave
<1>5. ASSUME \/ Housekeeping
             \/ \E c \in Card : CockpitApprove(c) \/ WebDeny(c) \/ ReminderDue(c) \/ Age(c)
      PROVE  th'[p] = th[p]
  BY <1>1, <1>5
     DEF Housekeeping, FindDueReminders, RePresent, FindAbandoned, EndCycle, Remind,
         ExpireAbandoned, CockpitApprove, WebDeny, ReminderDue, Age, At, Take, Leave
<1> QED
  BY <1>2, <1>3, <1>4, <1>5 DEF Next

\* What the invariant says of a card, whatever its phase.
LEMMA HandFacts ==
    ASSUME RunInv, NEW c \in Card
    PROVE  /\ runs[c] \in {0, 1} /\ status[c] \in CardStatus \cup {"absent"}
           /\ status[c] \in Unstarted => runs[c] = 0 /\ ~InHand(c)
           /\ InHand(c) => runs[c] = 0
<1>1. runs[c] \in Nat /\ runs[c] <= 1 /\ status[c] \in CardStatus \cup {"absent"}
  BY DEF RunInv, Base, TypeOK, StoreTypeOK, RunsAtMostOnce
<1> QED
  BY <1>1 DEF RunInv, RunOwned, RunsStarted, InHand

\* The phase of a card while nothing of it has run and nobody has it in hand.
LEMMA QuietPhase ==
    ASSUME RunInv, NEW c \in Card
    PROVE  /\ status[c] = "absent" => PhaseOf(c) = "none"
           /\ status[c] \in Awaiting => PhaseOf(c) = "asked"
           /\ status[c] = "approved" => PhaseOf(c) = "granted"
           /\ status[c] \in {"denied", "expired"} => PhaseOf(c) = "closed"
  BY HandFacts DEF PhaseOf, Exists, Unstarted, Awaiting

\* The same after a step that neither runs nor takes a card in hand.
LEMMA PhaseAfter ==
    ASSUME NEW c \in Card, runs'[c] = 0, ~InHand(c)', status'[c] # "running"
    PROVE  PhaseOf(c)' = IF status'[c] = "absent" THEN "none"
                         ELSE IF status'[c] \in Awaiting THEN "asked"
                         ELSE IF status'[c] = "approved" THEN "granted" ELSE "closed"
  BY DEF PhaseOf, Exists, Awaiting

\* A step that leaves a card's status, runs and hands leaves its phase.
LEMMA PhaseStays ==
    ASSUME NEW c \in Card, status'[c] = status[c], runs'[c] = runs[c], InHand(c)' <=> InHand(c)
    PROVE  PhaseOf(c)' = PhaseOf(c)
  BY DEF PhaseOf, Exists, Awaiting

\* A step that runs nothing and puts nothing in hand: every card stays in its
\* phase but those that are created, superseded or make one transition.
LEMMA NoRunRefines ==
    ASSUME RunInv, RunInv', Next, NoRun
    PROVE  [OneShot!Next]_OneShot!avars
<1>a. /\ runs' = runs /\ StoreMove /\ CardsInOrder /\ Base
      /\ status \in [Card -> CardStatus \cup {"absent"}]
      /\ \A c \in Card : InHand(c)' => InHand(c)
  BY NextMoves DEF NoRun, Move, RunInv, Base, TypeOK, StoreTypeOK, InHand
<1>b. (\A c \in Card : PhaseOf(c)' = PhaseOf(c)) => UNCHANGED OneShot!avars
  BY <1>a DEF OneShot!avars
<1>1. CASE Crash
  <2> DEFINE S == {c \in Card : PhaseOf(c)' # PhaseOf(c)}
  <2>1. \A c \in Card : status'[c] = status[c]
    BY <1>1 DEF Crash, cardVars
  <2>2. ASSUME NEW c \in Card, PhaseOf(c)' # PhaseOf(c)
        PROVE  PhaseOf(c)' = "closed" /\ PhaseOf(c) = "spent" /\ runs[c] = 0
    <3>1. InHand(c) /\ ~InHand(c)'
      BY <1>a, <2>1, <2>2, PhaseStays
    <3>2. runs[c] = 0 /\ status[c] \notin Unstarted
      BY <3>1, HandFacts
    <3>3. PhaseOf(c) = "spent"
      BY <3>1, <3>2 DEF PhaseOf, Exists, Unstarted
    <3>4. status'[c] # "running"
      BY <1>a, <2>1, <2>2, <3>3 DEF PhaseOf, Exists
    <3> QED
      BY <1>a, <2>1, <3>1, <3>2, <3>3, <3>4, PhaseAfter DEF Unstarted
  <2>3. S \in SUBSET Card /\ (\A c \in S : PhaseOf(c) = "spent" /\ runs[c] = 0)
        /\ \A c \in Card : PhaseOf(c)' = IF c \in S THEN "closed" ELSE PhaseOf(c)
    BY <2>2
  <2> HIDE DEF S
  <2>4. OneShot!Close(S)
    BY <1>a, <2>3 DEF OneShot!Close
  <2> QED
    BY <2>3, <2>4 DEF OneShot!Next
<1>2. CASE ~Crash
  <2>1. ASSUME NEW c \in Card
        PROVE  InHand(c)' <=> InHand(c)
    <3>1. ASSUME InHand(c) PROVE InHand(c)'
      <4>1. PICK p \in Proc : At(p, "execute") /\ On(p) = c
        BY <3>1 DEF InHand
      <4>2. ~Execute(p)
        BY <1>a, <4>1 DEF Execute, Base, TypeOK
      <4>3. th'[p] = th[p]
        BY <1>2, <1>a, <4>1, <4>2, HandsHold
      <4> QED
        BY <4>1, <4>3 DEF InHand, At, On
    <3> QED
      BY <1>a, <3>1
  <2>2. \A c \in Card : status'[c] = status[c] => PhaseOf(c)' = PhaseOf(c)
    BY <1>a, <2>1, PhaseStays
  <2>3. CASE UNCHANGED <<created, status, kind, chatOf>>
    BY <1>b, <2>2, <2>3
  <2>4. ASSUME NEW c \in Card, NEW k \in Kind, NEW ch \in Chat \cup {NoChat}, NEW b \in BOOLEAN,
               CreateCard(c, k, ch, b)
        PROVE  [OneShot!Next]_OneShot!avars
    <3> DEFINE S == Superseded(ch)
    <3>1. S \in SUBSET Card /\ \A d \in S : status[d] \in Awaiting
      BY DEF Superseded
    <3>2. status[c] = "absent" /\ created \in Nat
      BY <1>a, <2>4 DEF CreateCard, CardsInOrder, Base, TypeOK, StoreTypeOK
    <3>3. c \notin S
      BY <3>1, <3>2 DEF Awaiting
    <3>4. /\ status'[c] = "open" /\ (\A d \in S : status'[d] = "expired")
          /\ \A d \in Card \ (S \cup {c}) : status'[d] = status[d]
      BY <2>4, <3>1, <3>3 DEF CreateCard
    <3> HIDE DEF S
    <3>5. PhaseOf(c) = "none" /\ PhaseOf(c)' = "asked"
      <4>1. runs[c] = 0 /\ ~InHand(c) /\ PhaseOf(c) = "none"
        BY <3>2, HandFacts, QuietPhase DEF Unstarted
      <4> QED
        BY <1>a, <2>1, <3>4, <4>1, PhaseAfter DEF Awaiting
    <3>6. ASSUME NEW d \in S PROVE PhaseOf(d) = "asked" /\ PhaseOf(d)' = "closed"
      <4>1. runs[d] = 0 /\ ~InHand(d) /\ PhaseOf(d) = "asked"
        BY <3>1, HandFacts, QuietPhase DEF Unstarted
      <4> QED
        BY <1>a, <2>1, <3>1, <3>4, <4>1, PhaseAfter DEF Awaiting
    <3>7. \A d \in Card : PhaseOf(d)' = IF d = c THEN "asked"
                                        ELSE IF d \in S THEN "closed" ELSE PhaseOf(d)
      BY <2>2, <3>4, <3>5, <3>6
    <3>8. OneShot!Ask(c, S)
      BY <1>a, <3>1, <3>5, <3>6, <3>7 DEF OneShot!Ask
    <3> QED
      BY <3>1, <3>8 DEF OneShot!Next
  <2>5. ASSUME NEW c \in Card, NEW move \in Moves, NEW new \in Target(move),
               Transition(c, move, new)
        PROVE  [OneShot!Next]_OneShot!avars
    <3>1. /\ status'[c] = new /\ \A d \in Card \ {c} : PhaseOf(d)' = PhaseOf(d)
      BY <1>a, <2>2, <2>5 DEF Transition
    <3>2. new = "running" => status[c] \in {"approved", "running"}
      BY <1>a, <3>1, RunningFromApproved
    <3>3. /\ status[c] \in Awaiting \cup {"approved", "running"}
          /\ new \in Awaiting => status[c] \in Awaiting
          /\ new = "approved" => status[c] \in Awaiting
          /\ new \in Awaiting \cup {"approved", "running"} \cup Terminal
      BY <2>5 DEF Transition, Allowed, Target, Moves, Awaiting, Terminal
    <3>4. \/ PhaseOf(c)' = PhaseOf(c)
          \/ PhaseOf(c) = "asked" /\ PhaseOf(c)' = "granted"
          \/ PhaseOf(c) = "granted" /\ PhaseOf(c)' = "spent"
          \/ PhaseOf(c) \in {"asked", "granted", "spent"} /\ PhaseOf(c)' = "closed" /\ runs[c] = 0
      <4>1. CASE runs[c] = 1 \/ InHand(c)
        <5>1. status[c] # "absent" /\ status'[c] # "absent"
          BY <3>1, <3>3 DEF Awaiting, Terminal
        <5> QED
          BY <1>a, <2>1, <4>1, <5>1 DEF PhaseOf, Exists
      <4>2. CASE runs[c] = 0 /\ ~InHand(c)
        <5>1. PhaseOf(c) = IF status[c] = "running" THEN "spent"
                           ELSE IF status[c] \in Awaiting THEN "asked" ELSE "granted"
          BY <3>3, <4>2 DEF PhaseOf, Exists, Awaiting
        <5>2. CASE new = "running"
          <6>1. PhaseOf(c)' = "spent"
            BY <3>1, <5>2 DEF PhaseOf, Exists
          <6> QED
            BY <3>2, <5>1, <5>2, <6>1 DEF Awaiting
        <5>3. CASE new # "running"
          <6>1. PhaseOf(c)' = IF new \in Awaiting THEN "asked"
                              ELSE IF new = "approved" THEN "granted" ELSE "closed"
            BY <1>a, <2>1, <3>1, <3>3, <4>2, <5>3, PhaseAfter DEF Awaiting, Terminal
          <6> QED
            BY <3>3, <4>2, <5>1, <5>3, <6>1 DEF Awaiting
        <5> QED
          BY <5>2, <5>3
      <4> QED
        BY <4>1, <4>2, HandFacts
    <3>5. CASE PhaseOf(c)' = PhaseOf(c)
      BY <1>b, <3>1, <3>5
    <3>6. CASE PhaseOf(c) = "asked" /\ PhaseOf(c)' = "granted"
      <4>1. OneShot!Grant(c)
        BY <1>a, <3>1, <3>6 DEF OneShot!Grant
      <4> QED
        BY <4>1 DEF OneShot!Next
    <3>7. CASE PhaseOf(c) = "granted" /\ PhaseOf(c)' = "spent"
      <4>1. OneShot!Spend(c)
        BY <1>a, <3>1, <3>7 DEF OneShot!Spend
      <4> QED
        BY <4>1 DEF OneShot!Next
    <3>8. CASE PhaseOf(c) \in {"asked", "granted", "spent"} /\ PhaseOf(c)' = "closed" /\ runs[c] = 0
      <4>1. OneShot!Close({c})
        BY <1>a, <3>1, <3>8 DEF OneShot!Close
      <4> QED
        BY <4>1 DEF OneShot!Next
    <3> QED
      BY <3>4, <3>5, <3>6, <3>7, <3>8
  <2> QED
    BY <1>a, <2>3, <2>4, <2>5 DEF StoreMove
<1> QED
  BY <1>1, <1>2

LEMMA StepRefines ==
    ASSUME RunInv, RunInv', [Next]_vars
    PROVE  [OneShot!Next]_OneShot!avars
<1>a. /\ Base /\ th \in [Proc -> ThreadState] /\ runs \in [Card -> Nat]
      /\ status \in [Card -> CardStatus \cup {"absent"}]
  BY DEF RunInv, Base, TypeOK, StoreTypeOK
<1>1. CASE UNCHANGED vars
  <2>1. status' = status /\ runs' = runs /\ th' = th
    BY <1>1 DEF vars, cardVars, stores
  <2>2. \A c \in Card : InHand(c)' <=> InHand(c)
    BY <2>1 DEF InHand, At, On
  <2>3. \A c \in Card : PhaseOf(c)' = PhaseOf(c)
    BY <2>1, <2>2, PhaseStays
  <2> QED
    BY <2>1, <2>3 DEF OneShot!avars
<1>2. ASSUME Next, NEW p \in Proc, Wins(p)
      PROVE  [OneShot!Next]_OneShot!avars
  <2>1. PICK c \in Card : c = On(p)
    BY <1>a, <1>2, HoldingCard DEF Wins, At, Holding, Point
  <2>2. /\ status[c] = "approved" /\ status' = [status EXCEPT ![c] = "running"] /\ runs' = runs
    BY <1>2, <2>1 DEF Wins, MarkRunning, Transition, Allowed
  <2>3. \A q \in Proc : th'[q].card = th[q].card
                        /\ (th'[q].pc = "execute" <=> q = p \/ th[q].pc = "execute")
    BY <1>a, <1>2 DEF Wins, Goto, ThreadState
  <2>4. \A d \in Card \ {c} : InHand(d)' <=> InHand(d)
    BY <2>1, <2>3 DEF InHand, At, On
  <2>5. \A d \in Card \ {c} : PhaseOf(d)' = PhaseOf(d)
    BY <1>a, <2>2, <2>4, PhaseStays
  <2>6. PhaseOf(c) = "granted" /\ PhaseOf(c)' = "spent"
    <3>1. status'[c] = "running"
      BY <1>a, <2>2
    <3> QED
      BY <2>2, <3>1, QuietPhase DEF PhaseOf, Exists
  <2>7. OneShot!Spend(c)
    BY <2>2, <2>5, <2>6 DEF OneShot!Spend
  <2> QED
    BY <2>7 DEF OneShot!Next
<1>3. ASSUME Next, NEW p \in Proc, Execute(p)
      PROVE  [OneShot!Next]_OneShot!avars
  <2>1. PICK c \in Card : c = On(p)
    BY <1>a, <1>3, HoldingCard DEF Execute, At, Holding, Point
  <2>2. /\ InHand(c) /\ runs[c] = 0 /\ status[c] # "absent"
        /\ runs' = [runs EXCEPT ![c] = 1] /\ status' = status
    <3>1. InHand(c)
      BY <1>3, <2>1 DEF Execute, InHand
    <3>2. runs[c] = 0 /\ status[c] # "absent"
      BY <3>1, HandFacts DEF Unstarted
    <3> QED
      BY <1>a, <1>3, <2>1, <3>1, <3>2 DEF Execute, cardVars
  <2>3. \A q \in Proc : th'[q].card = th[q].card
                        /\ (th'[q].pc = "execute" <=> q # p /\ th[q].pc = "execute")
    BY <1>a, <1>3 DEF Execute, ThreadState
  <2>4. \A d \in Card \ {c} : InHand(d)' <=> InHand(d)
    BY <2>1, <2>3 DEF InHand, At, On
  <2>5. \A d \in Card \ {c} : PhaseOf(d)' = PhaseOf(d)
    BY <1>a, <2>2, <2>4, PhaseStays
  <2>6. PhaseOf(c) = "spent" /\ PhaseOf(c)' = "spent"
    <3>1. runs'[c] = 1 /\ status'[c] # "absent"
      BY <1>a, <2>2
    <3> QED
      BY <2>2, <3>1 DEF PhaseOf, Exists
  <2>7. \A d \in Card : PhaseOf(d)' = PhaseOf(d)
    BY <2>5, <2>6
  <2>8. OneShot!Act(c)
    BY <2>2, <2>6, <2>7 DEF OneShot!Act
  <2> QED
    BY <2>8 DEF OneShot!Next
<1> QED
  BY <1>a, <1>1, <1>2, <1>3, RunMoves, NoRunRefines

\* Replies, the cockpit, the web, the reminders and crashes together keep the
\* promise of OneShotApproval: asked, granted once, spent once, and only a
\* spent grant has its one effect.
THEOREM CardsAreOneShot == Spec => ImplementsOneShot
<1>1. Init => OneShot!Init
  <2> SUFFICES ASSUME Init PROVE OneShot!Init
    OBVIOUS
  <2>1. \A c \in Card : PhaseOf(c) = "none"
    BY DEF Init, StoreInit, PhaseOf, Exists
  <2> QED
    BY <2>1 DEF Init, OneShot!Init
<1>2. RunInv /\ RunInv' /\ [Next]_vars => [OneShot!Next]_OneShot!avars
  BY StepRefines
<1> QED
  BY <1>1, <1>2, RunInvInit, RunInvStep, PTL DEF Spec, ImplementsOneShot, OneShot!Spec
=============================================================================
