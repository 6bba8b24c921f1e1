------------------------ MODULE S7Execution_proofs -------------------------
(***************************************************************************)
(* Proofs about S7Execution, for any number of cards, touches, threads,    *)
(* faults and crashes: types, and that an action which needs a touch of    *)
(* the security key runs once at most, after one touch for its own card    *)
(* was durably spent.                                                      *)
(*                                                                         *)
(* None of this is inductive: that an execution is the first rests on the  *)
(* card having left the statuses approve_and_mark_running allows, and that *)
(* the touch is the card's own on a comparison many steps earlier, during  *)
(* which other threads move the card and the dialog under the request.     *)
(***************************************************************************)
EXTENDS S7Execution, PendingCards_proofs

-----------------------------------------------------------------------------
(* The inductive invariant                                                 *)

\* The cards in the hands of the server and of the threads exist.
CardsInHand ==
    /\ http.pc # "idle" => http.card \in 1..created /\ http.touch \in Touch
    /\ \A t \in Thread : th[t].pc # "idle" => th[t].card \in 1..created

\* A ceremony is begun for a card that exists, and an artifact is minted when
\* its challenge is spent.
TouchesInOrder ==
    \A u \in Touch : /\ challenge[u] # "absent" => forCard[u] \in 1..created
                     /\ artifact[u] # "none" => challenge[u] = "consumed"

\* Before the redemption the flag is the request's claim on its touch.
Claiming == {"read", "ratify", "fresh", "approve", "will", "redeem"}

\* What the request has established when it reaches each of its points.
RequestInv ==
    /\ http.pc = "consume" => challenge[http.touch] = "issued"
    /\ http.pc = "mint" => challenge[http.touch] = "consumed" /\ artifact[http.touch] = "none"
    /\ http.pc \in Claiming /\ http.flag => forCard[http.touch] = http.card
    /\ http.pc \in {"transition", "commit"} => /\ artifact[http.touch] = "minted"
                                               /\ forCard[http.touch] = http.card
    /\ http.pc = "commit" => SpentOn(http.card) = {} /\ status[http.card] \in Settled
    /\ http.pc \in {"recheck", "execute"} => SpentOn(http.card) # {} /\ runs[http.card] = 0
    /\ http.pc = "close" \/ (http.pc = "dialogend" /\ http.flag) => runs[http.card] = 1

\* A card that was run, or for which a touch was spent, is settled, and was
\* run for a touch.
Touched ==
    \A c \in Card : /\ runs[c] # 0 => runs[c] = 1 /\ SpentOn(c) # {}
                    /\ SpentOn(c) # {} => status[c] \in Settled

S7Inv ==
    /\ TypeOK /\ CardsInOrder /\ CardsInHand /\ TouchesInOrder /\ RequestInv
    /\ Touched /\ OneTouchPerCard /\ ExecutedIsTrue

-----------------------------------------------------------------------------
(* Initially                                                               *)

\* Types of what is not in the card store.
RequestsTyped ==
    /\ stage \in [Card -> Stage]
    /\ challenge \in [Touch -> {"absent", "issued", "consumed"}]
    /\ artifact \in [Touch -> {"none", "minted", "consumed"}]
    /\ forCard \in [Touch -> Card \cup {NoCard}]
    /\ lapsed \in [Touch -> BOOLEAN]
    /\ http \in HttpState
    /\ th \in [Thread -> ThreadState]
    /\ runs \in [Card -> Nat]
    /\ drift \in [Card -> BOOLEAN]
    /\ faults \in Nat /\ crashes \in Nat

LEMMA TypesApart == TypeOK <=> StoreTypeOK /\ RequestsTyped
  BY DEF TypeOK, RequestsTyped

\* A card in hand is a card.
LEMMA InRange ==
    ASSUME StoreTypeOK, NEW c \in 1..created
    PROVE  c \in Card
  BY CardsAssumption DEF StoreTypeOK, Card

LEMMA S7Init == Init => S7Inv
<1> SUFFICES ASSUME Init PROVE S7Inv
  OBVIOUS
<1>1. TypeOK
  <2>1. StoreTypeOK
    BY StoreInitTyped DEF Init
  <2>2. http \in HttpState /\ http.pc = "idle"
    BY DEF Init, HttpState, NoRequest, HttpPoint
  <2>3. th \in [Thread -> ThreadState]
    BY DEF Init, ThreadState, IdleThread, ThreadPoint
  <2>4. RequestsTyped
    BY <2>2, <2>3 DEF Init, RequestsTyped, Stage
  <2> QED
    BY <2>1, <2>4, TypesApart
<1>2. CardsInOrder
  BY CardsAssumption DEF Init, StoreInit, CardsInOrder, Card
<1>3. http.pc = "idle" /\ \A t \in Thread : th[t].pc = "idle"
  BY DEF Init, NoRequest, IdleThread
<1>4. \A c \in Card : SpentOn(c) = {}
  BY DEF Init, SpentOn
<1>5. CardsInHand /\ TouchesInOrder /\ RequestInv
  BY <1>3 DEF Init, CardsInHand, TouchesInOrder, RequestInv, Claiming
<1>6. Touched /\ OneTouchPerCard /\ ExecutedIsTrue
  BY <1>4 DEF Init, Touched, OneTouchPerCard, ExecutedIsTrue
<1> QED
  BY <1>1, <1>2, <1>5, <1>6 DEF S7Inv

-----------------------------------------------------------------------------
(* The card store                                                          *)

\* The two transitions of this module: the card is running at once, and a
\* broken seam fails it.
LEMMA SeamMoves ==
    ASSUME StoreTypeOK, NEW c \in Card, UNCHANGED <<remind, deferCount>>,
           \/ \E fresh \in BOOLEAN : Transition(c, "approve", IF fresh THEN "running" ELSE "expired")
           \/ Transition(c, "block", "failed")
    PROVE  Kept
<1>1. remind' \in [Card -> {"none", "later", "due"}] /\ deferCount' \in [Card -> Nat]
  BY DEF StoreTypeOK
<1>2. CASE Transition(c, "block", "failed")
  BY <1>1, <1>2, TransitionMoves DEF Moves, Target
<1>3. ASSUME NEW fresh \in BOOLEAN,
             Transition(c, "approve", IF fresh THEN "running" ELSE "expired")
      PROVE  Kept
  <2>1. (IF fresh THEN "running" ELSE "expired") \in Target("approve")
    BY DEF Target
  <2> QED
    BY <1>1, <1>3, <2>1, TransitionMoves DEF Moves
<1> QED
  BY <1>2, <1>3

\* Every step is a move of the store, which ages the cards and keeps them typed.
LEMMA StoreStep ==
    ASSUME S7Inv, [Next]_vars
    PROVE  StoreTypeOK' /\ CardsAge
<1>1. StoreTypeOK /\ RequestsTyped /\ CardsInOrder
  BY TypesApart DEF S7Inv
<1>2. ASSUME StoreMove, StoreTypeOK' PROVE StoreTypeOK' /\ CardsAge
  BY <1>1, <1>2, OrderKept
<1>3. ASSUME Kept PROVE StoreTypeOK' /\ CardsAge
  BY <1>2, <1>3 DEF Kept
<1>4. CASE UNCHANGED cardVars
  BY <1>1, <1>3, <1>4, TransactionMoves
<1>5. http.pc # "idle" => http.card \in Card
  BY <1>1, InRange DEF S7Inv, CardsInHand
<1>6. CASE Serve
  <2>1. CASE RefuseCard \/ BlockCard
    BY <1>1, <1>3, <1>5, <2>1, TransactionMoves DEF RefuseCard, BlockCard, Serving
  <2>2. CASE Approving
    BY <1>1, <1>3, <1>5, <2>2, TransactionMoves DEF Approving, Serving
  <2>3. CASE WillAndPreflight
    BY <1>1, <1>3, <1>5, <2>3, TransactionMoves DEF WillAndPreflight, Serving
  <2>4. CASE TransitionCard
    <3> DEFINE fresh == Fresh(http.card)
    <3>1. \/ Transition(http.card, "approve", IF fresh THEN "running" ELSE "expired")
             /\ UNCHANGED <<remind, deferCount>>
          \/ Refused(http.card, "approve")
      BY <2>4 DEF TransitionCard
    <3>2. fresh \in BOOLEAN /\ http.card \in Card
      BY <1>5, <2>4 DEF Fresh, TransitionCard, Serving
    <3> HIDE DEF fresh
    <3> QED
      BY <1>1, <1>3, <3>1, <3>2, SeamMoves, TransactionMoves
  <2>5. CASE FailSeam
    BY <1>1, <1>3, <1>5, <2>5, SeamMoves, TransactionMoves DEF FailSeam, Serving
  <2>6. CASE CloseCard
    <3>1. http.flag \in BOOLEAN
      BY <1>1 DEF RequestsTyped, HttpState
    <3> QED
      BY <1>1, <1>3, <1>5, <2>6, <3>1, TransactionMoves DEF CloseCard, Serving
  <2> QED
    BY <1>4, <1>6, <2>1, <2>2, <2>3, <2>4, <2>5, <2>6
       DEF Serve, ConsumeChallenge, Mint, ReadDialog, Ratify, CheckFresh, BlockStaleDialog,
           Redeem, Commit, Recheck, Execute, BlockDialog, EndDialog
<1>7. CASE Request \/ Crash \/ UNCHANGED vars \/ \E u \in Touch : Lapse(u)
  BY <1>4, <1>7 DEF Request, Finish, Begin, ExecuteRequest, Crash, vars, Lapse
<1>8. ASSUME NEW c \in Card, WebDeny(c) \/ ExpireAbandoned(c) \/ Drift(c)
      PROVE  StoreTypeOK' /\ CardsAge
  BY <1>1, <1>3, <1>4, <1>8, TransactionMoves DEF WebDeny, ExpireAbandoned, Drift
<1>9. ASSUME NEW t \in Thread, NEW ch \in Chat, NEW b \in BOOLEAN, Propose(t, ch, b)
      PROVE  StoreTypeOK' /\ CardsAge
  <2>1. StoreMove /\ StoreTypeOK'
    BY <1>1, <1>9, S7Assumption, TransactionMoves DEF Propose
  <2> QED
    BY <1>2, <2>1
<1>10. ASSUME NEW t \in Thread, Handle(t) \/ \E c \in Card : Hear(t, c)
       PROVE  StoreTypeOK' /\ CardsAge
  <2>1. On(t) \in Card \/ At(t, "idle")
    BY <1>1, InRange DEF On, At, S7Inv, CardsInHand
  <2>2. CASE BlockFromThread(t) \/ DenyFromThread(t)
    BY <1>1, <1>3, <2>1, <2>2, TransactionMoves DEF BlockFromThread, DenyFromThread, At
  <2> QED
    BY <1>4, <1>10, <2>2 DEF Handle, LinkDialog, ReadForReply, Reply, Hear
<1> QED
  BY <1>6, <1>7, <1>8, <1>9, <1>10 DEF Next

-----------------------------------------------------------------------------
(* The request                                                             *)

\* The request goes on to another of its points.
LEMMA GoesOn ==
    ASSUME http \in HttpState, NEW point \in HttpPoint, NEW flag \in BOOLEAN,
           http' = [http EXCEPT !.pc = point, !.flag = flag]
    PROVE  /\ http' \in HttpState /\ http'.pc = point /\ http'.flag = flag
           /\ http'.card = http.card /\ http'.touch = http.touch
  BY DEF HttpState

LEMMA GoesTo ==
    ASSUME http \in HttpState, NEW point \in HttpPoint, Then(point)
    PROVE  /\ http' \in HttpState /\ http'.pc = point /\ http'.flag = http.flag
           /\ http'.card = http.card /\ http'.touch = http.touch
  BY DEF HttpState, Then

LEMMA Responds ==
    ASSUME Respond
    PROVE  http' \in HttpState /\ http'.pc = "idle"
  BY DEF Respond, NoRequest, HttpState, HttpPoint

\* What is left to show of a step once the touches and runs are known: that the
\* request is where its invariant holds.
Rest == CardsInHand' /\ TouchesInOrder' /\ RequestInv' /\ RequestsTyped'

\* Nothing was spent on another touch, and nothing was run.
NothingSpent ==
    /\ UNCHANGED runs
    /\ \A c \in Card : SpentOn(c)' = SpentOn(c)
    /\ \A c \in Card : stage'[c] = "executed" => stage[c] = "executed"

\* Then cards that were touched stay so.
LEMMA StaysTouched ==
    ASSUME S7Inv, StoreTypeOK', CardsAge, NothingSpent
    PROVE  Touched' /\ OneTouchPerCard' /\ ExecutedIsTrue'
<1>1. Touched'
  BY DEF S7Inv, Touched, CardsAge, NothingSpent
<1>2. OneTouchPerCard'
  BY DEF S7Inv, OneTouchPerCard, NothingSpent
<1>3. ExecutedIsTrue'
  BY DEF S7Inv, ExecutedIsTrue, NothingSpent
<1> QED
  BY <1>1, <1>2, <1>3

LEMMA QuietKeeps ==
    ASSUME S7Inv, StoreTypeOK', CardsAge, NothingSpent, Rest
    PROVE  S7Inv'
  BY StaysTouched, TypesApart DEF S7Inv, Rest, CardsAge, TypeOK, RequestsTyped

\* A step that leaves the authority store and the actions alone.
LEMMA SameSpent ==
    ASSUME UNCHANGED <<artifact, forCard>>
    PROVE  \A c \in Card : SpentOn(c)' = SpentOn(c)
  BY DEF SpentOn

\* A step of a thread, of the web process, of the cycle or of the clock: it may
\* move cards and dialogs, but not the request.
LEMMA OthersKeep ==
    ASSUME S7Inv, StoreTypeOK', CardsAge, RequestsTyped', TouchesInOrder',
           UNCHANGED <<http, challenge, artifact, forCard, runs>>,
           \A c \in Card : stage'[c] = "executed" => stage[c] = "executed",
           \A t \in Thread : th'[t].pc # "idle" => th'[t].card \in 1..created'
    PROVE  S7Inv'
<1>1. \A c \in Card : SpentOn(c)' = SpentOn(c)
  BY SameSpent
<1>2. StoreTypeOK /\ RequestsTyped
  BY TypesApart DEF S7Inv
<1>3. http.pc # "idle" => http.card \in Card
  BY <1>2, InRange DEF S7Inv, CardsInHand
<1>4. CardsInHand'
  BY <1>2, CardsAssumption DEF S7Inv, CardsInHand, CardsAge, StoreTypeOK
<1>5. RequestInv'
  <2>1. SpentOn(http.card)' = SpentOn(http.card)
    BY DEF SpentOn
  <2>2. http.pc = "commit" => status'[http.card] \in Settled
    BY <1>3 DEF S7Inv, RequestInv, CardsAge
  <2> QED
    BY <2>1, <2>2 DEF S7Inv, RequestInv
<1> QED
  BY <1>1, <1>4, <1>5, QuietKeeps DEF NothingSpent, Rest

-----------------------------------------------------------------------------
(* The steps of a request                                                  *)

\* A step of the server on the same card and touch, which neither spends the
\* touch nor runs the card.
Serving1 ==
    /\ UNCHANGED <<challenge, artifact, forCard, lapsed, th, runs, drift>>
    /\ faults' \in Nat /\ crashes' \in Nat
    /\ stage' \in [Card -> Stage]
    /\ http' \in HttpState
    /\ http'.pc # "idle" => /\ http.pc # "idle"
                            /\ http'.card = http.card /\ http'.touch = http.touch

LEMMA ServingKeeps ==
    ASSUME S7Inv, StoreTypeOK', CardsAge, Serving1, RequestInv',
           \A c \in Card : stage'[c] = "executed" => stage[c] = "executed"
    PROVE  S7Inv'
<1>1. NothingSpent
  BY SameSpent DEF Serving1, NothingSpent
<1>2. StoreTypeOK /\ RequestsTyped
  BY TypesApart DEF S7Inv
<1>3. created \in Nat
  BY <1>2, CardsAssumption DEF StoreTypeOK
<1>4. CardsInHand'
  <2>1. http'.pc # "idle" => http'.card \in 1..created' /\ http'.touch \in Touch
    BY <1>3 DEF S7Inv, CardsInHand, Serving1, CardsAge
  <2>2. \A t \in Thread : th'[t].pc # "idle" => th'[t].card \in 1..created'
    BY <1>3 DEF S7Inv, CardsInHand, Serving1, CardsAge
  <2> QED
    BY <2>1, <2>2 DEF CardsInHand
<1>5. TouchesInOrder'
  BY <1>3 DEF S7Inv, TouchesInOrder, Serving1, CardsAge
<1>6. RequestsTyped'
  BY <1>2 DEF RequestsTyped, Serving1
<1> QED
  BY <1>1, <1>4, <1>5, <1>6, QuietKeeps DEF Rest

\* Points with nothing established but the claim on the touch.
LEMMA Carries ==
    ASSUME S7Inv, UNCHANGED forCard,
           \/ http'.pc \in {"idle", "fresh", "stale", "block", "refuse", "dialogblock", "seam"}
           \/ http'.pc \in Claiming,
           http'.pc \in Claiming => /\ http.pc \in Claiming
                                    /\ http'.card = http.card /\ http'.touch = http.touch
                                    /\ http'.flag = http.flag
    PROVE  RequestInv'
  BY DEF S7Inv, RequestInv, Claiming

LEMMA ServeKeeps ==
    ASSUME S7Inv, Serve, StoreTypeOK', CardsAge
    PROVE  S7Inv'
<1>1. StoreTypeOK /\ RequestsTyped /\ http \in HttpState
  BY TypesApart DEF S7Inv, RequestsTyped
<1>2. http.pc # "idle" => http.card \in Card /\ http.touch \in Touch
  BY <1>1, InRange DEF S7Inv, CardsInHand
<1>3. faults + 1 \in Nat /\ crashes \in Nat /\ faults \in Nat /\ stage \in [Card -> Stage]
  BY <1>1 DEF RequestsTyped
<1> DEFINE Still == UNCHANGED <<challenge, artifact, forCard, lapsed, th, runs, drift, crashes>>
                    /\ (faults' = faults \/ faults' = faults + 1)
<1>4. ASSUME Still, http.pc # "idle", UNCHANGED stage,
             NEW point \in HttpPoint, Then(point),
             \/ point \in {"stale", "block", "refuse", "dialogblock", "seam"}
             \/ point \in Claiming /\ http.pc \in Claiming
      PROVE  S7Inv'
  <2>1. /\ http' \in HttpState /\ http'.pc = point /\ http'.flag = http.flag
        /\ http'.card = http.card /\ http'.touch = http.touch
    BY <1>1, <1>4, GoesTo
  <2>2. Serving1
    BY <1>3, <1>4, <2>1 DEF Serving1
  <2>3. RequestInv'
    BY <1>4, <2>1, Carries DEF Claiming
  <2> QED
    BY <1>4, <2>2, <2>3, ServingKeeps
<1>5. ASSUME Still, UNCHANGED stage, Respond
      PROVE  S7Inv'
  <2>1. http' \in HttpState /\ http'.pc = "idle"
    BY <1>5, Responds
  <2>2. Serving1
    BY <1>3, <1>5, <2>1 DEF Serving1
  <2>3. RequestInv'
    BY <1>5, <2>1, Carries DEF Claiming
  <2> QED
    BY <1>5, <2>2, <2>3, ServingKeeps
<1>6. ASSUME Still, http.pc # "idle", NEW s \in Stage \ {"executed"}, SetStage(http.card, s),
             Respond \/ (Then("fresh") /\ http.pc = "ratify") \/ Then("refuse")
      PROVE  S7Inv'
  <2>1. /\ stage' \in [Card -> Stage]
        /\ \A c \in Card : stage'[c] = "executed" => stage[c] = "executed"
    BY <1>2, <1>3, <1>6 DEF SetStage
  <2>2. /\ http' \in HttpState
        /\ \/ http'.pc = "idle"
           \/ /\ http'.card = http.card /\ http'.touch = http.touch /\ http'.flag = http.flag
              /\ http'.pc = "refuse" \/ (http'.pc = "fresh" /\ http.pc = "ratify")
    <3>1. "fresh" \in HttpPoint /\ "refuse" \in HttpPoint
      BY DEF HttpPoint
    <3> QED
      BY <1>1, <1>6, <3>1, GoesTo, Responds
  <2>3. Serving1
    BY <1>3, <1>6, <2>1, <2>2 DEF Serving1
  <2>4. RequestInv'
    BY <1>6, <2>2, Carries DEF Claiming
  <2> QED
    BY <2>1, <2>3, <2>4, ServingKeeps
<1>7. CASE ReadDialog \/ Ratify \/ CheckFresh \/ BlockStaleDialog \/ RefuseCard
  <2>1. CASE ReadDialog
    <3>1. Still /\ http.pc = "read" /\ UNCHANGED stage
      BY <2>1 DEF ReadDialog, authority, bounds, Serving
    <3>2. Then("refuse") \/ Respond \/ Then("ratify")
      BY <2>1 DEF ReadDialog
    <3> QED
      BY <1>4, <1>5, <3>1, <3>2 DEF HttpPoint, Claiming
  <2>2. CASE Ratify
    <3>1. Still /\ http.pc = "ratify" /\ SetStage(http.card, "ratified") /\ Then("fresh")
      BY <2>2 DEF Ratify, authority, bounds, Serving
    <3>2. "ratified" \in Stage \ {"executed"} /\ "blocked" \in Stage \ {"executed"} /\ http.pc # "idle"
      BY <3>1 DEF Stage
    <3> QED
      BY <1>6, <3>1, <3>2
  <2>3. CASE CheckFresh
    <3>1. Still /\ http.pc = "fresh" /\ UNCHANGED stage
      BY <2>3 DEF CheckFresh, authority, bounds, Serving
    <3>2. Then("approve") \/ Then("stale")
      BY <2>3 DEF CheckFresh
    <3> QED
      BY <1>4, <3>1, <3>2 DEF HttpPoint, Claiming
  <2>4. CASE BlockStaleDialog
    <3>1. Still /\ http.pc = "stale" /\ SetStage(http.card, "blocked") /\ Then("refuse")
      BY <2>4 DEF BlockStaleDialog, authority, bounds, Serving
    <3>2. "ratified" \in Stage \ {"executed"} /\ "blocked" \in Stage \ {"executed"} /\ http.pc # "idle"
      BY <3>1 DEF Stage
    <3> QED
      BY <1>6, <3>1, <3>2
  <2>5. CASE RefuseCard
    <3>1. Still /\ UNCHANGED stage /\ Respond
      BY <2>5 DEF RefuseCard, authority, bounds
    <3> QED
      BY <1>5, <3>1
  <2> QED
    BY <1>7, <2>1, <2>2, <2>3, <2>4, <2>5
<1>8. CASE Approving \/ WillAndPreflight \/ BlockCard \/ BlockDialog
  <2>1. CASE Approving
    <3>1. Still /\ http.pc = "approve" /\ UNCHANGED stage
      BY <2>1 DEF Approving, authority, bounds, Serving
    <3>2. Then("will") \/ Then("dialogblock") \/ Respond
      BY <2>1 DEF Approving
    <3> QED
      BY <1>4, <1>5, <3>1, <3>2 DEF HttpPoint, Claiming
  <2>2. CASE WillAndPreflight
    <3>1. Still /\ http.pc = "will" /\ UNCHANGED stage
      BY <2>2 DEF WillAndPreflight, authority, bounds, Serving
    <3>2. Then("redeem") \/ Then("dialogblock") \/ Then("block")
      BY <2>2 DEF WillAndPreflight
    <3> QED
      BY <1>4, <3>1, <3>2 DEF HttpPoint, Claiming
  <2>3. CASE BlockCard
    <3>1. Still /\ http.pc = "block" /\ UNCHANGED stage /\ Then("dialogblock")
      BY <2>3 DEF BlockCard, authority, bounds, Serving
    <3> QED
      BY <1>4, <3>1 DEF HttpPoint
  <2>4. CASE BlockDialog
    <3>1. Still /\ http.pc = "dialogblock" /\ SetStage(http.card, "blocked") /\ Respond
      BY <2>4 DEF BlockDialog, authority, bounds, Serving
    <3>2. "ratified" \in Stage \ {"executed"} /\ "blocked" \in Stage \ {"executed"} /\ http.pc # "idle"
      BY <3>1 DEF Stage
    <3> QED
      BY <1>6, <3>1, <3>2
  <2> QED
    BY <1>8, <2>1, <2>2, <2>3, <2>4
<1>9. CASE Redeem
  <2>1. Still /\ http.pc = "redeem" /\ UNCHANGED stage
    BY <1>9 DEF Redeem, authority, bounds, Serving, Fault
  <2>2. CASE Then("block") \/ Then("seam")
    BY <1>4, <2>1, <2>2 DEF HttpPoint
  <2>3. CASE http.flag /\ artifact[http.touch] = "minted" /\ Then("transition")
    <3>1. /\ http' \in HttpState /\ http'.pc = "transition"
          /\ http'.card = http.card /\ http'.touch = http.touch
      BY <1>1, <2>3, GoesTo DEF HttpPoint
    <3>2. Serving1
      BY <1>3, <2>1, <3>1 DEF Serving1
    <3>3. RequestInv'
      BY <2>1, <2>3, <3>1 DEF S7Inv, RequestInv, Claiming
    <3> QED
      BY <2>1, <3>2, <3>3, ServingKeeps
  <2> QED
    BY <1>9, <2>2, <2>3 DEF Redeem
<1>10. CASE TransitionCard
  <2>1. Still /\ http.pc = "transition" /\ UNCHANGED stage
    BY <1>10 DEF TransitionCard, authority, bounds, Serving
  <2>2. CASE Then("seam")
    BY <1>4, <2>1, <2>2 DEF HttpPoint
  <2>3. CASE ~Then("seam")
    <3> DEFINE fresh == Fresh(http.card)
    <3>1. /\ fresh \in BOOLEAN
          /\ Transition(http.card, "approve", IF fresh THEN "running" ELSE "expired")
          /\ http' = [http EXCEPT !.pc = "commit", !.flag = fresh]
      BY <1>10, <2>3 DEF TransitionCard, Fresh
    <3> HIDE DEF fresh
    <3>2. /\ http' \in HttpState /\ http'.pc = "commit"
          /\ http'.card = http.card /\ http'.touch = http.touch
      BY <1>1, <3>1, GoesOn DEF HttpPoint
    <3>3. status[http.card] \in Awaiting /\ status'[http.card] \in Settled
      BY <1>1, <1>2, <2>1, <3>1
         DEF Transition, Allowed, StoreTypeOK, Settled, CardStatus, Awaiting, Terminal
    <3>4. SpentOn(http.card) = {}
      BY <1>2, <2>1, <3>3 DEF S7Inv, Touched, Settled
    <3>5. SpentOn(http.card)' = {}
      BY <2>1, <3>2, <3>4 DEF SpentOn
    <3>6. Serving1
      BY <1>3, <2>1, <3>2 DEF Serving1
    <3>7. RequestInv'
      BY <2>1, <3>2, <3>3, <3>5 DEF S7Inv, RequestInv, Claiming
    <3> QED
      BY <2>1, <3>6, <3>7, ServingKeeps
  <2> QED
    BY <2>2, <2>3
<1>11. CASE FailSeam
  <2>1. Still /\ http.pc = "seam" /\ UNCHANGED stage
        /\ http' = [http EXCEPT !.pc = "dialogend", !.flag = FALSE]
    BY <1>11 DEF FailSeam, authority, bounds, Serving
  <2>2. /\ http' \in HttpState /\ http'.pc = "dialogend" /\ http'.flag = FALSE
        /\ http'.card = http.card /\ http'.touch = http.touch
    BY <1>1, <2>1, GoesOn DEF HttpPoint
  <2>3. Serving1
    BY <1>3, <2>1, <2>2 DEF Serving1
  <2>4. RequestInv'
    BY <2>2 DEF RequestInv, Claiming
  <2> QED
    BY <2>1, <2>3, <2>4, ServingKeeps
<1>12. CASE Recheck
  <2>1. Still /\ http.pc = "recheck" /\ UNCHANGED stage
    BY <1>12 DEF Recheck, authority, bounds, Serving
  <2>2. CASE Then("block")
    BY <1>4, <2>1, <2>2 DEF HttpPoint
  <2>3. CASE Then("execute")
    <3>1. /\ http' \in HttpState /\ http'.pc = "execute"
          /\ http'.card = http.card /\ http'.touch = http.touch
      BY <1>1, <2>3, GoesTo DEF HttpPoint
    <3>2. Serving1
      BY <1>3, <2>1, <3>1 DEF Serving1
    <3>3. SpentOn(http.card)' = SpentOn(http.card)
      BY <2>1, <3>1 DEF SpentOn
    <3>4. RequestInv'
      BY <2>1, <3>1, <3>3 DEF S7Inv, RequestInv, Claiming
    <3> QED
      BY <2>1, <3>2, <3>4, ServingKeeps
  <2> QED
    BY <1>12, <2>2, <2>3 DEF Recheck
<1>13. CASE CloseCard
  <2>1. Still /\ http.pc = "close" /\ UNCHANGED stage /\ Then("dialogend")
    BY <1>13 DEF CloseCard, authority, bounds, Serving
  <2>2. /\ http' \in HttpState /\ http'.pc = "dialogend" /\ http'.flag = http.flag
        /\ http'.card = http.card /\ http'.touch = http.touch
    BY <1>1, <2>1, GoesTo DEF HttpPoint
  <2>3. Serving1
    BY <1>3, <2>1, <2>2 DEF Serving1
  <2>4. RequestInv'
    BY <2>1, <2>2 DEF S7Inv, RequestInv, Claiming
  <2> QED
    BY <2>1, <2>3, <2>4, ServingKeeps
<1>14. CASE EndDialog
  <2>1. Still /\ http.pc = "dialogend" /\ Respond
        /\ stage' = [stage EXCEPT ![http.card] = IF http.flag THEN "executed" ELSE "failed"]
    BY <1>14 DEF EndDialog, authority, bounds, Serving, SetStage
  <2>2. http' \in HttpState /\ http'.pc = "idle" /\ http.card \in Card
    BY <1>2, <2>1, Responds
  <2>3. stage' \in [Card -> Stage]
    BY <1>3, <2>1 DEF Stage
  <2>4. CASE http.flag
    <3>1. runs[http.card] = 1
      BY <2>1, <2>4 DEF S7Inv, RequestInv
    <3>2. ExecutedIsTrue'
      BY <1>3, <2>1, <2>2, <3>1 DEF S7Inv, ExecutedIsTrue
    <3>3. \A c \in Card : SpentOn(c)' = SpentOn(c)
      BY <2>1, SameSpent
    <3>4. Touched' /\ OneTouchPerCard'
      BY <2>1, <3>3 DEF S7Inv, Touched, OneTouchPerCard, CardsAge
    <3>5. RequestInv'
      BY <2>2 DEF RequestInv, Claiming
    <3>6. created \in Nat
      BY <1>1, CardsAssumption DEF StoreTypeOK
    <3>7. CardsInHand' /\ TouchesInOrder'
      BY <2>1, <2>2, <3>6 DEF S7Inv, CardsInHand, TouchesInOrder, CardsAge
    <3>8. RequestsTyped'
      BY <1>1, <1>3, <2>1, <2>2, <2>3 DEF RequestsTyped
    <3> QED
      BY <3>2, <3>4, <3>5, <3>7, <3>8, TypesApart DEF S7Inv, CardsAge, TypeOK, RequestsTyped
  <2>5. CASE ~http.flag
    <3>1. "failed" \in Stage \ {"executed"} /\ http.pc # "idle" /\ SetStage(http.card, "failed")
      BY <2>1, <2>5 DEF Stage, SetStage
    <3> QED
      BY <1>6, <2>1, <3>1
  <2> QED
    BY <2>4, <2>5
<1>15. CASE ConsumeChallenge
  <2>2. CASE Respond
    <3>1. Still /\ UNCHANGED stage
      BY <1>1, <1>15, <2>2 DEF ConsumeChallenge, bounds, Fault, Serving, Then, Respond, NoRequest,
                               HttpState
    <3> QED
      BY <1>5, <2>2, <3>1
  <2>3. CASE ~Respond
    <3>1. /\ http.pc = "consume" /\ Then("mint")
          /\ challenge' = [challenge EXCEPT ![http.touch] = "consumed"]
          /\ UNCHANGED <<stage, artifact, forCard, lapsed, th, runs, drift, bounds>>
      BY <1>15, <2>3 DEF ConsumeChallenge, Serving, bounds
    <3>2. /\ http' \in HttpState /\ http'.pc = "mint"
          /\ http'.card = http.card /\ http'.touch = http.touch
      BY <1>1, <3>1, GoesTo DEF HttpPoint
    <3>3. /\ challenge[http.touch] = "issued" /\ artifact[http.touch] = "none"
      BY <1>1, <1>2, <3>1 DEF S7Inv, RequestInv, TouchesInOrder, RequestsTyped
    <3>4. /\ challenge'[http.touch] = "consumed"
          /\ \A u \in Touch : u # http.touch => challenge'[u] = challenge[u]
      BY <1>1, <1>2, <3>1 DEF RequestsTyped
    <3>5. created \in Nat
      BY <1>1, CardsAssumption DEF StoreTypeOK
    <3>6. TouchesInOrder'
      BY <1>2, <3>1, <3>3, <3>4, <3>5 DEF S7Inv, TouchesInOrder, CardsAge
    <3>7. RequestInv'
      BY <3>1, <3>2, <3>3, <3>4 DEF RequestInv, Claiming
    <3>8. CardsInHand'
      BY <3>1, <3>2, <3>5 DEF S7Inv, CardsInHand, CardsAge
    <3>9. RequestsTyped'
      BY <1>1, <3>1, <3>2 DEF RequestsTyped, bounds
    <3>10. NothingSpent
      BY <3>1, SameSpent DEF NothingSpent
    <3> QED
      BY <3>6, <3>7, <3>8, <3>9, <3>10, QuietKeeps DEF Rest
  <2> QED
    BY <2>2, <2>3
<1>16. CASE Mint
  <2>1. http.pc = "mint" /\ Respond /\ UNCHANGED <<stage, challenge, forCard, lapsed, th, runs, drift>>
    BY <1>16 DEF Mint, Serving
  <2>2. CASE UNCHANGED artifact
    <3>1. Still /\ UNCHANGED stage
      BY <1>16, <2>2 DEF Mint, Fault
    <3> QED
      BY <1>5, <2>1, <3>1
  <2>3. CASE artifact' = [artifact EXCEPT ![http.touch] = "minted"]
    <3>1. http' \in HttpState /\ http'.pc = "idle"
      BY <2>1, Responds
    <3>2. artifact[http.touch] = "none" /\ challenge[http.touch] = "consumed" /\ http.touch \in Touch
      BY <1>2, <2>1 DEF S7Inv, RequestInv
    <3>3. /\ artifact'[http.touch] = "minted" /\ artifact' \in [Touch -> {"none", "minted", "consumed"}]
          /\ \A u \in Touch : u # http.touch => artifact'[u] = artifact[u]
      BY <1>1, <2>3, <3>2 DEF RequestsTyped
    <3>4. \A c \in Card : SpentOn(c)' = SpentOn(c)
      BY <2>1, <3>2, <3>3 DEF SpentOn
    <3>5. created \in Nat
      BY <1>1, CardsAssumption DEF StoreTypeOK
    <3>6. TouchesInOrder' /\ CardsInHand'
      BY <2>1, <3>1, <3>2, <3>3, <3>5 DEF S7Inv, TouchesInOrder, CardsInHand, CardsAge
    <3>7. RequestInv'
      BY <3>1 DEF RequestInv, Claiming
    <3>8. RequestsTyped'
      BY <1>1, <1>3, <1>16, <2>1, <3>1, <3>3 DEF RequestsTyped, Mint, Fault
    <3> QED
      BY <2>1, <3>4, <3>6, <3>7, <3>8, QuietKeeps DEF Rest, NothingSpent
  <2> QED
    BY <1>16, <2>2, <2>3 DEF Mint
<1>17. CASE Commit
  <2>1. http.pc = "commit" /\ UNCHANGED <<stage, challenge, forCard, lapsed, th, runs, drift, crashes>>
    BY <1>17 DEF Commit, Serving
  <2>2. CASE Then("seam") /\ UNCHANGED artifact /\ Fault
    <3>1. Still /\ UNCHANGED stage
      BY <2>1, <2>2 DEF Fault
    <3> QED
      BY <1>4, <2>1, <2>2, <3>1 DEF HttpPoint
  <2>3. CASE artifact' = [artifact EXCEPT ![http.touch] = "consumed"] /\ UNCHANGED faults
             /\ (Then("recheck") \/ Then("dialogblock"))
    <3>0. PICK c \in Card : c = http.card
      BY <1>2, <2>1
    <3>1. PICK u \in Touch : u = http.touch
      BY <1>2, <2>1
    <3>2. /\ http' \in HttpState /\ http'.pc \in {"recheck", "dialogblock"}
          /\ http'.card = c /\ http'.touch = u
      BY <1>1, <2>3, <3>0, <3>1, GoesTo DEF HttpPoint
    <3>3. /\ artifact[u] = "minted" /\ forCard[u] = c /\ SpentOn(c) = {} /\ status[c] \in Settled
          /\ challenge[u] = "consumed"
      BY <2>1, <3>0, <3>1 DEF S7Inv, RequestInv, TouchesInOrder
    <3>4. /\ artifact'[u] = "consumed" /\ artifact' \in [Touch -> {"none", "minted", "consumed"}]
          /\ \A v \in Touch : v # u => artifact'[v] = artifact[v]
      BY <1>1, <2>3, <3>1 DEF RequestsTyped
    <3>5. SpentOn(c)' = {u} /\ \A d \in Card : d # c => SpentOn(d)' = SpentOn(d)
      BY <2>1, <3>3, <3>4 DEF SpentOn
    <3>6. runs[c] = 0 /\ status'[c] \in Settled
      BY <3>3 DEF S7Inv, Touched, CardsAge
    <3>7. Touched'
      BY <2>1, <3>5, <3>6 DEF S7Inv, Touched, CardsAge
    <3>8. OneTouchPerCard'
      BY <3>5 DEF S7Inv, OneTouchPerCard
    <3>9. ExecutedIsTrue'
      BY <2>1 DEF S7Inv, ExecutedIsTrue
    <3>10. created \in Nat
      BY <1>1, CardsAssumption DEF StoreTypeOK
    <3>11. TouchesInOrder' /\ CardsInHand'
      BY <2>1, <3>0, <3>2, <3>3, <3>4, <3>10 DEF S7Inv, TouchesInOrder, CardsInHand, CardsAge
    <3>12. SpentOn(http.card)' = SpentOn(c)'
      BY <3>2 DEF SpentOn
    <3>13. RequestInv'
      BY <2>1, <3>2, <3>5, <3>6, <3>12 DEF RequestInv, Claiming
    <3>14. RequestsTyped'
      BY <1>1, <2>1, <2>3, <3>2, <3>4 DEF RequestsTyped
    <3> QED
      BY <3>7, <3>8, <3>9, <3>11, <3>13, <3>14, TypesApart
         DEF S7Inv, CardsAge, TypeOK, RequestsTyped
  <2> QED
    BY <1>17, <2>2, <2>3 DEF Commit
<1>18. CASE Execute
  <2>0. PICK c \in Card : c = http.card
    BY <1>2, <1>18 DEF Execute, Serving
  <2>1. /\ http.pc = "execute" /\ runs' = [runs EXCEPT ![c] = @ + 1]
        /\ UNCHANGED <<stage, challenge, artifact, forCard, lapsed, th, drift, bounds>>
    BY <1>18, <2>0 DEF Execute, Serving, authority
  <2>2. /\ http' \in HttpState /\ http'.pc = "close"
        /\ http'.card = c /\ http'.touch = http.touch
    <3>1. PICK ok \in BOOLEAN : http' = [http EXCEPT !.pc = "close", !.flag = ok]
      BY <1>18 DEF Execute
    <3> QED
      BY <1>1, <2>0, <3>1, GoesOn DEF HttpPoint
  <2>3. SpentOn(c) # {} /\ runs[c] = 0
    BY <2>0, <2>1 DEF S7Inv, RequestInv
  <2>4. runs'[c] = 1 /\ runs' \in [Card -> Nat] /\ \A d \in Card : d # c => runs'[d] = runs[d]
    BY <1>1, <2>1, <2>3 DEF RequestsTyped
  <2>5. \A d \in Card : SpentOn(d)' = SpentOn(d)
    BY <2>1, SameSpent
  <2>6. Touched'
    BY <2>3, <2>4, <2>5 DEF S7Inv, Touched, CardsAge
  <2>7. OneTouchPerCard'
    BY <2>5 DEF S7Inv, OneTouchPerCard
  <2>8. ExecutedIsTrue'
    BY <2>1, <2>4 DEF S7Inv, ExecutedIsTrue
  <2>9. created \in Nat
    BY <1>1, CardsAssumption DEF StoreTypeOK
  <2>10. TouchesInOrder' /\ CardsInHand'
    BY <2>0, <2>1, <2>2, <2>9 DEF S7Inv, TouchesInOrder, CardsInHand, CardsAge
  <2>11. RequestInv'
    BY <2>2, <2>4 DEF RequestInv, Claiming
  <2>12. RequestsTyped'
    BY <1>1, <2>1, <2>2, <2>4 DEF RequestsTyped, bounds
  <2> QED
    BY <2>6, <2>7, <2>8, <2>10, <2>11, <2>12, TypesApart
       DEF S7Inv, CardsAge, TypeOK, RequestsTyped
<1> QED
  BY <1>7, <1>8, <1>9, <1>10, <1>11, <1>12, <1>13, <1>14, <1>15, <1>16, <1>17, <1>18 DEF Serve

-----------------------------------------------------------------------------
(* Everybody else, and the invariant                                       *)

LEMMA RequestKeeps ==
    ASSUME S7Inv, Request, StoreTypeOK', CardsAge
    PROVE  S7Inv'
<1>1. StoreTypeOK /\ RequestsTyped /\ http.pc = "idle" /\ UNCHANGED cardVars
  BY TypesApart DEF S7Inv, Request, Finish, Begin, ExecuteRequest, Serving
<1>2. created \in Nat /\ created' = created
  BY <1>1, CardsAssumption DEF StoreTypeOK, cardVars
<1>3. \A c \in Card : Exists(c) => c \in 1..created
  BY <1>2, CardsAssumption DEF Exists, S7Inv, CardsInOrder, Card
<1>4. ASSUME UNCHANGED <<stage, authority, th, runs, drift, bounds>>,
             http' \in HttpState, http'.card \in 1..created, http'.touch \in Touch, RequestInv'
      PROVE  S7Inv'
  <2>1. NothingSpent
    BY <1>4, SameSpent DEF NothingSpent, authority
  <2>2. CardsInHand' /\ TouchesInOrder'
    BY <1>2, <1>4 DEF S7Inv, CardsInHand, TouchesInOrder, authority
  <2>3. RequestsTyped'
    BY <1>1, <1>4 DEF RequestsTyped, authority, bounds
  <2> QED
    BY <1>4, <2>1, <2>2, <2>3, QuietKeeps DEF Rest
<1>5. ASSUME NEW u \in Touch, Finish(u) PROVE S7Inv'
  <2>1. /\ challenge[u] = "issued" /\ UNCHANGED <<stage, authority, th, runs, drift, bounds>>
        /\ http' = [NoRequest EXCEPT !.pc = "consume", !.card = forCard[u], !.touch = u]
    BY <1>5 DEF Finish
  <2>2. forCard[u] \in 1..created
    BY <2>1 DEF S7Inv, TouchesInOrder
  <2>3. forCard[u] \in Card
    BY <1>1, <2>2, InRange
  <2>4. http' = [pc |-> "consume", card |-> forCard[u], touch |-> u, flag |-> FALSE]
    BY <2>1 DEF NoRequest
  <2>5. /\ http' \in HttpState /\ http'.pc = "consume"
        /\ http'.card = forCard[u] /\ http'.touch = u
    BY <2>3, <2>4 DEF HttpState, HttpPoint
  <2>6. RequestInv'
    BY <2>1, <2>5 DEF RequestInv, Claiming, authority
  <2> QED
    BY <1>4, <2>1, <2>2, <2>5, <2>6
<1>6. ASSUME NEW u \in Touch, NEW c \in Card, ExecuteRequest(u, c) PROVE S7Inv'
  <2> DEFINE flag == challenge[u] = "consumed" /\ forCard[u] = c /\ ~lapsed[u]
  <2>1. /\ http' = [pc |-> "read", card |-> c, touch |-> u, flag |-> flag]
        /\ UNCHANGED <<stage, authority, th, runs, drift, bounds>> /\ Exists(c)
    BY <1>6 DEF ExecuteRequest
  <2>2. flag \in BOOLEAN /\ (flag => forCard[u] = c)
    OBVIOUS
  <2> HIDE DEF flag
  <2>3. /\ http' \in HttpState /\ http'.pc = "read" /\ http'.flag = flag
        /\ http'.card = c /\ http'.touch = u
    BY <2>1, <2>2 DEF HttpState, HttpPoint
  <2>4. RequestInv'
    BY <2>1, <2>2, <2>3 DEF RequestInv, Claiming, authority
  <2> QED
    BY <1>3, <1>4, <2>1, <2>3, <2>4
<1>7. ASSUME NEW u \in Touch, NEW c \in Card, Begin(u, c) PROVE S7Inv'
  <2>1. /\ challenge[u] = "absent" /\ Exists(c) /\ http' = http
        /\ challenge' = [challenge EXCEPT ![u] = "issued"]
        /\ forCard' = [forCard EXCEPT ![u] = c]
        /\ UNCHANGED <<stage, artifact, lapsed, th, runs, drift, bounds>>
    BY <1>7 DEF Begin
  <2>2. artifact[u] = "none"
    BY <1>1, <2>1 DEF S7Inv, TouchesInOrder
  <2>3. \A d \in Card : SpentOn(d)' = SpentOn(d)
    BY <1>1, <2>1, <2>2 DEF SpentOn, RequestsTyped
  <2>4. TouchesInOrder'
    BY <1>1, <1>2, <1>3, <2>1, <2>2 DEF S7Inv, TouchesInOrder, RequestsTyped
  <2>5. RequestInv' /\ CardsInHand'
    BY <1>1, <1>2, <2>1 DEF RequestInv, Claiming, S7Inv, CardsInHand
  <2>6. RequestsTyped'
    BY <1>1, <2>1 DEF RequestsTyped, bounds
  <2> QED
    BY <2>1, <2>3, <2>4, <2>5, <2>6, QuietKeeps DEF Rest, NothingSpent
<1> QED
  BY <1>5, <1>6, <1>7 DEF Request
\* A thread goes on with a card that exists, or is done.
LEMMA ThreadsKeep ==
    ASSUME S7Inv, CardsAge, NEW t \in Thread, NEW point \in ThreadPoint, NEW c \in 1..created',
           StoreTypeOK',
           th' = [th EXCEPT ![t] = [pc |-> point, card |-> c]] \/ Leave(t)
    PROVE  /\ th' \in [Thread -> ThreadState]
           /\ \A s \in Thread : th'[s].pc # "idle" => th'[s].card \in 1..created'
<1>1. StoreTypeOK /\ RequestsTyped /\ created \in Nat /\ created' \in Nat /\ created <= created'
  BY TypesApart, CardsAssumption DEF S7Inv, StoreTypeOK, CardsAge
<1>2. c \in Card
  BY <1>1, CardsAssumption DEF Card, StoreTypeOK
<1>3. [pc |-> point, card |-> c] \in ThreadState /\ IdleThread \in ThreadState
      /\ IdleThread.pc = "idle"
  BY <1>2 DEF ThreadState, IdleThread, ThreadPoint
<1>4. \A s \in Thread : th[s].pc # "idle" => th[s].card \in 1..created'
  BY <1>1 DEF S7Inv, CardsInHand
<1>5. CASE th' = [th EXCEPT ![t] = [pc |-> point, card |-> c]]
  BY <1>1, <1>3, <1>4, <1>5 DEF RequestsTyped
<1>6. CASE Leave(t)
  <2>1. th' = [th EXCEPT ![t] = IdleThread]
    BY <1>6 DEF Leave
  <2> HIDE DEF IdleThread
  <2> QED
    BY <1>1, <1>3, <1>4, <2>1 DEF RequestsTyped
<1> QED
  BY <1>5, <1>6

\* A step of a thread that starts or goes on with a card, or leaves.
LEMMA ThreadStep ==
    ASSUME S7Inv, StoreTypeOK', CardsAge, NEW t \in Thread, NEW point \in ThreadPoint,
           NEW c \in 1..created',
           th' = [th EXCEPT ![t] = [pc |-> point, card |-> c]] \/ Leave(t),
           UNCHANGED <<authority, http, runs, drift, bounds>>,
           \/ UNCHANGED stage
           \/ \E d \in Card, s \in Stage \ {"executed"} : SetStage(d, s)
    PROVE  S7Inv'
<1>1. StoreTypeOK /\ RequestsTyped /\ created \in Nat /\ created' \in Nat /\ created <= created'
  BY TypesApart, CardsAssumption DEF S7Inv, StoreTypeOK, CardsAge
<1>2. /\ th' \in [Thread -> ThreadState]
      /\ \A s \in Thread : th'[s].pc # "idle" => th'[s].card \in 1..created'
  BY ThreadsKeep
<1>3. /\ stage' \in [Card -> Stage]
      /\ \A d \in Card : stage'[d] = "executed" => stage[d] = "executed"
  BY <1>1 DEF RequestsTyped, SetStage
<1>4. RequestsTyped'
  BY <1>1, <1>2, <1>3 DEF RequestsTyped, authority, bounds
<1>5. TouchesInOrder'
  BY <1>1 DEF S7Inv, TouchesInOrder, authority
<1> QED
  BY <1>2, <1>3, <1>4, <1>5, OthersKeep DEF authority

LEMMA HandleKeeps ==
    ASSUME S7Inv, StoreTypeOK', CardsAge, NEW t \in Thread, Handle(t)
    PROVE  S7Inv'
<1>1. StoreTypeOK /\ RequestsTyped /\ created \in Nat /\ created' \in Nat /\ created <= created'
  BY TypesApart, CardsAssumption DEF S7Inv, StoreTypeOK, CardsAge
<1>2. th[t].card \in 1..created /\ UNCHANGED <<authority, http, runs, drift, bounds>>
  BY DEF Handle, LinkDialog, ReadForReply, Reply, BlockFromThread, DenyFromThread, At, On,
         S7Inv, CardsInHand
<1>3. PICK c \in 1..created' : c = On(t)
  BY <1>1, <1>2 DEF On
<1>4. c \in Card
  BY <1>1, <1>2, <1>3, InRange DEF On
<1>5. /\ {"linkfail", "reply", "block", "deny"} \subseteq ThreadPoint
      /\ \A point \in ThreadPoint : Go(t, point) => th' = [th EXCEPT ![t] = [pc |-> point, card |-> c]]
  BY <1>1, <1>3 DEF ThreadPoint, Go, On, RequestsTyped, ThreadState
<1>6. /\ {"talking", "blocked", "denied"} \subseteq Stage \ {"executed"}
      /\ \A s \in Stage : SetStage(On(t), s) => SetStage(c, s)
  BY <1>3 DEF Stage
<1>7. \/ UNCHANGED stage
      \/ \E d \in Card, s \in Stage \ {"executed"} : SetStage(d, s)
  BY <1>4, <1>6 DEF Handle, LinkDialog, ReadForReply, Reply, BlockFromThread, DenyFromThread
<1>8. \/ Leave(t) /\ "reply" \in ThreadPoint
      \/ \E point \in ThreadPoint : th' = [th EXCEPT ![t] = [pc |-> point, card |-> c]]
  <2>1. Leave(t) \/ \E point \in {"linkfail", "reply", "block", "deny"} : Go(t, point)
    BY DEF Handle, LinkDialog, ReadForReply, Reply, BlockFromThread, DenyFromThread
  <2> QED
    BY <1>5, <2>1
<1> QED
  BY <1>2, <1>7, <1>8, ThreadStep

LEMMA S7Step == S7Inv /\ [Next]_vars => S7Inv'
<1> SUFFICES ASSUME S7Inv, [Next]_vars PROVE S7Inv'
  OBVIOUS
<1>1. StoreTypeOK' /\ CardsAge
  BY StoreStep
<1>2. StoreTypeOK /\ RequestsTyped /\ created \in Nat /\ created' \in Nat /\ created <= created'
  BY <1>1, TypesApart, CardsAssumption DEF S7Inv, StoreTypeOK, CardsAge
<1>3. CASE Request
  BY <1>1, <1>3, RequestKeeps
<1>4. CASE Serve
  BY <1>1, <1>4, ServeKeeps
<1>5. ASSUME NEW t \in Thread, NEW ch \in Chat, NEW b \in BOOLEAN, Propose(t, ch, b)
      PROVE  S7Inv'
  <2>1. /\ th' = [th EXCEPT ![t] = [pc |-> "link", card |-> created + 1]]
        /\ created' = created + 1
        /\ UNCHANGED <<stage, authority, http, runs, drift, bounds>>
    BY <1>5 DEF Propose, CreateCard
  <2>2. created + 1 \in 1..created' /\ "link" \in ThreadPoint
    BY <1>2, <2>1 DEF ThreadPoint
  <2> QED
    BY <1>1, <2>1, <2>2, ThreadStep
<1>6. ASSUME NEW t \in Thread, NEW c \in Card, Hear(t, c) PROVE S7Inv'
  <2>1. /\ th' = [th EXCEPT ![t] = [pc |-> "read", card |-> c]] /\ status[c] \in Awaiting
        /\ UNCHANGED <<cardVars, stage, authority, http, runs, drift, bounds>>
    BY <1>6 DEF Hear
  <2>2. c \in 1..created' /\ "read" \in ThreadPoint
    BY <1>2, <2>1, CardsAssumption
       DEF ThreadPoint, S7Inv, CardsInOrder, Card, Awaiting, cardVars
  <2> QED
    BY <1>1, <2>1, <2>2, ThreadStep
<1>7. ASSUME NEW t \in Thread, Handle(t) PROVE S7Inv'
  BY <1>1, <1>7, HandleKeeps
<1>8. ASSUME UNCHANGED <<stage, challenge, artifact, forCard, http, th, runs, bounds>>,
             lapsed' \in [Touch -> BOOLEAN], drift' \in [Card -> BOOLEAN]
      PROVE  S7Inv'
  <2>1. RequestsTyped'
    BY <1>2, <1>8 DEF RequestsTyped, bounds
  <2>2. TouchesInOrder' /\ \A t \in Thread : th'[t].pc # "idle" => th'[t].card \in 1..created'
    BY <1>2, <1>8 DEF S7Inv, TouchesInOrder, CardsInHand
  <2> QED
    BY <1>1, <1>8, <2>1, <2>2, OthersKeep
<1>9. CASE UNCHANGED vars
  BY <1>2, <1>8, <1>9 DEF vars, authority, RequestsTyped
<1>10. ASSUME NEW c \in Card, WebDeny(c) \/ ExpireAbandoned(c) \/ Drift(c) PROVE S7Inv'
  BY <1>2, <1>8, <1>10 DEF WebDeny, ExpireAbandoned, Drift, authority, RequestsTyped
<1>11. ASSUME NEW u \in Touch, Lapse(u) PROVE S7Inv'
  BY <1>2, <1>8, <1>11 DEF Lapse, RequestsTyped
<1>12. CASE Crash
  <2>1. http' \in HttpState /\ http'.pc = "idle"
    BY <1>12, Responds DEF Crash, Respond
  <2>2. th' \in [Thread -> ThreadState] /\ \A t \in Thread : th'[t].pc = "idle"
    BY <1>12 DEF Crash, IdleThread, ThreadState, ThreadPoint
  <2>3. crashes' \in Nat /\ UNCHANGED <<stage, authority, runs, drift, faults>>
    BY <1>2, <1>12 DEF Crash, RequestsTyped
  <2>4. RequestsTyped'
    BY <1>2, <2>1, <2>2, <2>3 DEF RequestsTyped, authority
  <2>5. CardsInHand' /\ TouchesInOrder' /\ RequestInv'
    BY <1>2, <2>1, <2>2, <2>3 DEF S7Inv, CardsInHand, TouchesInOrder, RequestInv, Claiming, authority
  <2>6. NothingSpent
    BY <2>3, SameSpent DEF NothingSpent, authority
  <2> QED
    BY <1>1, <2>4, <2>5, <2>6, QuietKeeps DEF Rest
<1> QED
  BY <1>3, <1>4, <1>5, <1>6, <1>7, <1>9, <1>10, <1>11, <1>12 DEF Next

LEMMA S7Always == Spec => []S7Inv
<1>1. Init => S7Inv
  BY S7Init
<1>2. S7Inv /\ [Next]_vars => S7Inv'
  BY S7Step
<1> QED
  BY <1>1, <1>2, PTL DEF Spec

-----------------------------------------------------------------------------
(* Theorems                                                                *)

\* What the three databases hold, and what requests and threads carry, keeps
\* its type whoever moves a card.
THEOREM S7Types == Spec => []TypeOK
<1>1. S7Inv => TypeOK
  BY DEF S7Inv
<1> QED
  BY <1>1, S7Always, PTL

\* A protected action runs once at most, and only after a touch for its own
\* card was durably spent: runtime_gate.py's condition and what
\* consume_for_execution's transaction around approve_and_mark_running is for.
THEOREM ActionsAreTouched == Spec => []RunsAreTouched
<1>1. S7Inv => RunsAreTouched
  BY DEF S7Inv, Touched, RunsAreTouched
<1> QED
  BY <1>1, S7Always, PTL

\* No two touches are spent on a card, in whichever order requests, replies,
\* denials, crashes and failed commits come.
THEOREM TouchesAreNotDoubled == Spec => []OneTouchPerCard
<1>1. S7Inv => OneTouchPerCard
  BY DEF S7Inv
<1> QED
  BY <1>1, S7Always, PTL

\* A card whose touch was spent awaits nobody any more: the owner is never
\* asked to touch again for what was authorized already.
THEOREM SpentIsSettled == Spec => []SpentMeansSettled
<1>1. S7Inv => SpentMeansSettled
  BY DEF S7Inv, Touched, SpentMeansSettled, Settled
<1> QED
  BY <1>1, S7Always, PTL

\* The dialog says EXECUTED of nothing that was not, although every handler
\* writes its stage without looking.
THEOREM ExecutedDialogs == Spec => []ExecutedIsTrue
<1>1. S7Inv => ExecutedIsTrue
  BY DEF S7Inv
<1> QED
  BY <1>1, S7Always, PTL
-----------------------------------------------------------------------------
(* Refinement: every step is one of OneShotApproval's or a stutter         *)

\* What the invariant says of a card, whatever its phase.
LEMMA CardFacts ==
    ASSUME S7Inv, NEW c \in Card
    PROVE  /\ runs[c] = 0 \/ runs[c] = 1
           /\ runs[c] = 1 => SpentOn(c) # {}
           /\ SpentOn(c) # {} => status[c] # "absent" /\ status[c] \notin Awaiting
           /\ Granting(c) => status[c] # "absent" /\ status[c] \notin Awaiting /\ SpentOn(c) = {}
           /\ InHand(c) => SpentOn(c) # {} /\ runs[c] = 0
           /\ "absent" \notin Awaiting
<1>1. /\ runs[c] # 0 => runs[c] = 1 /\ SpentOn(c) # {}
      /\ SpentOn(c) # {} => status[c] \in Settled
  BY DEF S7Inv, Touched
<1>2. Granting(c) => status[c] \in Settled /\ SpentOn(c) = {}
  BY DEF S7Inv, RequestInv, Granting, Serving
<1>3. InHand(c) => SpentOn(c) # {} /\ runs[c] = 0
  BY DEF S7Inv, RequestInv, InHand, Serving
<1> QED
  BY <1>1, <1>2, <1>3 DEF Settled, CardStatus, Awaiting, Terminal

\* The phases, from what the invariant leaves of the definition.
LEMMA Phases ==
    ASSUME S7Inv, NEW c \in Card
    PROVE  /\ status[c] = "absent" => PhaseOf(c) = "none"
           /\ status[c] \in Awaiting => PhaseOf(c) = "asked"
           /\ (runs[c] = 1 \/ InHand(c) \/ (status[c] = "running" /\ SpentOn(c) # {}))
                => PhaseOf(c) = "spent"
           /\ SpentOn(c) = {} /\ (status[c] = "running" \/ Granting(c)) => PhaseOf(c) = "granted"
           /\ (/\ status[c] # "absent" /\ status[c] \notin Awaiting /\ status[c] # "running"
               /\ runs[c] = 0 /\ ~InHand(c) /\ ~Granting(c)) => PhaseOf(c) = "closed"
  BY CardFacts DEF PhaseOf, Exists, Awaiting

\* The same of the state after a step.
LEMMA PhasesAfter ==
    ASSUME S7Inv', NEW c \in Card
    PROVE  /\ status'[c] = "absent" => PhaseOf(c)' = "none"
           /\ status'[c] \in Awaiting => PhaseOf(c)' = "asked"
           /\ (runs'[c] = 1 \/ InHand(c)' \/ (status'[c] = "running" /\ SpentOn(c)' # {}))
                => PhaseOf(c)' = "spent"
           /\ SpentOn(c)' = {} /\ (status'[c] = "running" \/ Granting(c)') => PhaseOf(c)' = "granted"
           /\ (/\ status'[c] # "absent" /\ status'[c] \notin Awaiting /\ status'[c] # "running"
               /\ runs'[c] = 0 /\ ~InHand(c)' /\ ~Granting(c)') => PhaseOf(c)' = "closed"
<1>1. /\ runs'[c] # 0 => runs'[c] = 1 /\ SpentOn(c)' # {}
      /\ SpentOn(c)' # {} => status'[c] \in Settled
  BY DEF S7Inv, Touched
<1>2. /\ Granting(c)' => status'[c] \in Settled /\ SpentOn(c)' = {}
      /\ InHand(c)' => SpentOn(c)' # {} /\ runs'[c] = 0
  <2>1. \A d \in Card : http'.card = d => SpentOn(http.card)' = SpentOn(d)'
    BY DEF SpentOn
  <2> QED
    BY <2>1 DEF S7Inv, RequestInv, Granting, InHand, Serving
<1>3. PhaseOf(c)' = IF status'[c] = "absent" THEN "none"
                    ELSE IF \/ runs'[c] = 1 \/ InHand(c)'
                            \/ (status'[c] = "running" /\ SpentOn(c)' # {}) THEN "spent"
                    ELSE IF status'[c] \in Awaiting THEN "asked"
                    ELSE IF status'[c] = "running" \/ Granting(c)' THEN "granted"
                    ELSE "closed"
  BY DEF PhaseOf, Exists, Awaiting
<1> QED
  BY <1>1, <1>2, <1>3 DEF Settled, CardStatus, Awaiting, Terminal

\* A step that takes no card further: cards stay, or settle, and the request
\* lets go of its card or keeps it.
NoProgress ==
    /\ UNCHANGED runs
    /\ \A c \in Card : /\ SpentOn(c)' = SpentOn(c)
                       /\ status'[c] = "absent" <=> status[c] = "absent"
                       /\ status'[c] \in Awaiting => status[c] \in Awaiting
                       /\ status'[c] = "running" => status[c] = "running"
                       /\ Granting(c)' => Granting(c)
                       /\ InHand(c)' => InHand(c)

\* What such a step does to one card.
LEMMA StaysOrCloses ==
    ASSUME S7Inv, S7Inv', NoProgress, NEW c \in Card
    PROVE  \/ PhaseOf(c)' = PhaseOf(c)
           \/ PhaseOf(c)' = "closed" /\ PhaseOf(c) \in {"asked", "granted", "spent"} /\ runs[c] = 0
<1>1. /\ runs'[c] = runs[c] /\ SpentOn(c)' = SpentOn(c)
      /\ status'[c] = "absent" <=> status[c] = "absent"
      /\ status'[c] \in Awaiting => status[c] \in Awaiting
      /\ status'[c] = "running" => status[c] = "running"
      /\ Granting(c)' => Granting(c)
      /\ InHand(c)' => InHand(c)
  BY DEF NoProgress
<1> QED
  BY <1>1, CardFacts, Phases, PhasesAfter

LEMMA NoProgressRefines ==
    ASSUME S7Inv, S7Inv', NoProgress
    PROVE  OneShot!Next
<1> DEFINE S == {c \in Card : PhaseOf(c)' # PhaseOf(c)}
<1>1. \A c \in S : PhaseOf(c) \in {"asked", "granted", "spent"} /\ runs[c] = 0
  BY StaysOrCloses
<1>2. \A c \in Card : PhaseOf(c)' = IF c \in S THEN "closed" ELSE PhaseOf(c)
  BY StaysOrCloses
<1>3. UNCHANGED runs /\ S \in SUBSET Card
  BY DEF NoProgress
<1> HIDE DEF S
<1>4. OneShot!Close(S)
  BY <1>1, <1>2, <1>3 DEF OneShot!Close
<1> QED
  BY <1>3, <1>4 DEF OneShot!Next

\* A card whose status, touches, runs and request stay is where it was.
SameCard(c) ==
    /\ status'[c] = status[c] /\ runs'[c] = runs[c] /\ SpentOn(c)' = SpentOn(c)
    /\ (Granting(c)' <=> Granting(c)) /\ (InHand(c)' <=> InHand(c))

LEMMA SamePhase ==
    ASSUME NEW c \in Card, SameCard(c)
    PROVE  PhaseOf(c)' = PhaseOf(c)
<1>1. (status[c] \in Awaiting)' <=> status[c] \in Awaiting
  BY DEF SameCard, Awaiting
<1> QED
  BY <1>1 DEF SameCard, PhaseOf, Exists

\* A transaction that settles one card at most, while the request stays or
\* lets go of its card.
Settles(c) ==
    /\ status[c] \in CardStatus
    /\ \E s \in Terminal : status' = [status EXCEPT ![c] = s]

LEMMA Settling ==
    /\ \A c : Deny(c) \/ Expire(c) \/ Block(c) => Settles(c)
    /\ \A c : \A ok \in BOOLEAN : MarkClosed(c, ok) => Settles(c)
    /\ \A c : Transition(c, "block", "failed") => Settles(c)
    /\ \A c : Transition(c, "approve", "expired") => Settles(c)
    /\ \A c : \A move : Refused(c, move) => UNCHANGED status
  BY DEF Deny, Expire, Block, MarkClosed, Transition, Refused, Allowed, Settles, cardVars,
         CardStatus, Awaiting, Terminal

LEMMA SettlingRefines ==
    ASSUME S7Inv, S7Inv', UNCHANGED <<artifact, forCard, runs>>,
           UNCHANGED status \/ \E c \in Card : Settles(c),
           \A c \in Card : (Granting(c)' => Granting(c)) /\ (InHand(c)' => InHand(c))
    PROVE  [OneShot!Next]_OneShot!avars
<1>1. \A c \in Card : SpentOn(c)' = SpentOn(c)
  BY SameSpent
<1>2. \A d \in Card : /\ status'[d] = "absent" <=> status[d] = "absent"
                      /\ status'[d] \in Awaiting => status[d] \in Awaiting
                      /\ status'[d] = "running" => status[d] = "running"
  <2>1. CASE UNCHANGED status
    BY <2>1
  <2>2. ASSUME NEW c \in Card, Settles(c),
               NEW d \in Card
        PROVE  /\ status'[d] = "absent" <=> status[d] = "absent"
               /\ status'[d] \in Awaiting => status[d] \in Awaiting
               /\ status'[d] = "running" => status[d] = "running"
    <3>1. status \in [Card -> CardStatus \cup {"absent"}]
      BY DEF S7Inv, TypeOK, StoreTypeOK
    <3> QED
      BY <2>2, <3>1 DEF Settles, CardStatus, Awaiting, Terminal
  <2> QED
    BY <2>1, <2>2
<1> QED
  BY <1>1, <1>2, NoProgressRefines DEF NoProgress

\* A step during which the request neither grants nor holds a card afterwards.
LEMMA LetsGo ==
    ASSUME http'.pc \notin {"commit", "recheck", "execute"}
    PROVE  \A c \in Card : (Granting(c)' => Granting(c)) /\ (InHand(c)' => InHand(c))
  BY DEF Granting, InHand, Serving

LEMMA HoldsOn ==
    ASSUME UNCHANGED http
    PROVE  \A c \in Card : /\ (Granting(c)' => Granting(c)) /\ (InHand(c)' => InHand(c))
                           /\ (Granting(c)' <=> Granting(c)) /\ (InHand(c)' <=> InHand(c))
  BY DEF Granting, InHand, Serving

\* The steps of a request that only settle a card, if anything.
LEMMA ServeRefines ==
    ASSUME S7Inv, S7Inv', Serve
    PROVE  [OneShot!Next]_OneShot!avars
<1>1. StoreTypeOK /\ RequestsTyped /\ http \in HttpState
  BY TypesApart DEF S7Inv, RequestsTyped
<1>2. http.pc # "idle" => http.card \in Card /\ http.touch \in Touch
  BY <1>1, InRange DEF S7Inv, CardsInHand
<1>3. \A point \in HttpPoint : Then(point) => http'.pc = point /\ http'.card = http.card
                                              /\ http'.flag = http.flag
  BY <1>1, GoesTo
<1>4. Respond => http'.pc = "idle"
  BY Responds
<1>5. ASSUME http'.pc \notin {"commit", "recheck", "execute"},
             UNCHANGED <<artifact, forCard, runs>>,
             UNCHANGED status \/ \E c \in Card : Settles(c)
      PROVE  [OneShot!Next]_OneShot!avars
  BY <1>5, LetsGo, SettlingRefines
<1>6. CASE ConsumeChallenge \/ ReadDialog \/ Ratify \/ CheckFresh \/ BlockStaleDialog
           \/ Redeem \/ BlockDialog \/ EndDialog
  <2>1. /\ UNCHANGED <<artifact, forCard, runs, status>>
        /\ \/ Respond
           \/ \E point \in {"mint", "refuse", "ratify", "fresh", "approve", "stale", "transition",
                            "block", "seam"} : Then(point)
    BY <1>6 DEF ConsumeChallenge, ReadDialog, Ratify, CheckFresh, BlockStaleDialog, Redeem,
                BlockDialog, EndDialog, authority, cardVars
  <2>2. http'.pc \notin {"commit", "recheck", "execute"}
    BY <1>3, <1>4, <2>1 DEF HttpPoint
  <2> QED
    BY <1>5, <2>1, <2>2
<1>7. CASE RefuseCard \/ Approving \/ WillAndPreflight \/ CloseCard \/ BlockCard
  <2>1. http.card \in Card /\ http.flag \in BOOLEAN
    BY <1>1, <1>2, <1>7
       DEF RefuseCard, Approving, WillAndPreflight, CloseCard, BlockCard, Serving, HttpState
  <2>2. /\ UNCHANGED <<artifact, forCard, runs>>
        /\ \/ Respond
           \/ \E point \in {"will", "redeem", "block", "dialogblock", "dialogend"} : Then(point)
    BY <1>7 DEF RefuseCard, Approving, WillAndPreflight, CloseCard, BlockCard, authority
  <2>3. UNCHANGED status \/ Settles(http.card)
    BY <1>7, <2>1, Settling
       DEF RefuseCard, Approving, WillAndPreflight, CloseCard, BlockCard, cardVars
  <2>4. http'.pc \notin {"commit", "recheck", "execute"}
    BY <1>3, <1>4, <2>2 DEF HttpPoint
  <2> QED
    BY <1>5, <2>1, <2>2, <2>3, <2>4
<1>8. CASE FailSeam
  <2>1. /\ http.card \in Card /\ http'.pc = "dialogend" /\ UNCHANGED <<artifact, forCard, runs>>
    BY <1>1, <1>2, <1>8, GoesOn DEF FailSeam, Serving, HttpPoint, authority
  <2>2. UNCHANGED status \/ Settles(http.card)
    BY <1>8, Settling DEF FailSeam
  <2> QED
    BY <1>5, <2>1, <2>2
<1>9. CASE Mint
  <2>1. /\ http.pc = "mint" /\ http'.pc = "idle" /\ UNCHANGED <<status, forCard, runs>>
        /\ artifact' = [artifact EXCEPT ![http.touch] = "minted"] \/ UNCHANGED artifact
    BY <1>4, <1>9 DEF Mint, Serving, cardVars
  <2>2. \A c \in Card : SpentOn(c)' = SpentOn(c)
    <3>1. artifact[http.touch] = "none" /\ http.touch \in Touch
      BY <1>2, <2>1 DEF S7Inv, RequestInv
    <3> QED
      BY <1>1, <2>1, <3>1 DEF SpentOn, RequestsTyped
  <2>3. \A c \in Card : (Granting(c)' => Granting(c)) /\ (InHand(c)' => InHand(c))
    BY <2>1, LetsGo
  <2> QED
    BY <2>1, <2>2, <2>3, NoProgressRefines DEF NoProgress
<1>10. CASE Recheck
  <2>1. /\ http.pc = "recheck" /\ UNCHANGED <<status, artifact, forCard, runs>>
        /\ http'.pc \in {"execute", "block"} /\ http'.card = http.card
    BY <1>3, <1>10 DEF Recheck, Serving, authority, cardVars, HttpPoint
  <2>2. \A c \in Card : (Granting(c)' => Granting(c)) /\ (InHand(c)' => InHand(c))
    BY <2>1 DEF Granting, InHand, Serving
  <2> QED
    BY <2>1, <2>2, SettlingRefines
<1>11. CASE TransitionCard
  <2>1. /\ http.pc = "transition" /\ http.card \in Card
        /\ UNCHANGED <<artifact, forCard, runs>>
    BY <1>2, <1>11 DEF TransitionCard, Serving, authority
  <2>2. CASE Then("seam") /\ UNCHANGED status
    BY <1>3, <1>5, <2>1, <2>2 DEF HttpPoint
  <2>3. CASE ~(Then("seam") /\ UNCHANGED status)
    <3>0. PICK c \in Card : c = http.card
      BY <2>1
    <3> DEFINE fresh == Fresh(c)
    <3>1. /\ fresh \in BOOLEAN
          /\ Transition(c, "approve", IF fresh THEN "running" ELSE "expired")
          /\ http' = [http EXCEPT !.pc = "commit", !.flag = fresh]
      BY <1>11, <2>3, <3>0 DEF TransitionCard, Fresh, Refused, cardVars
    <3> HIDE DEF fresh
    <3>2. http'.pc = "commit" /\ http'.card = c /\ http'.flag = fresh
      BY <1>1, <3>0, <3>1, GoesOn DEF HttpPoint
    <3>3. CASE ~fresh
      <4>1. Settles(c)
        BY <3>1, <3>3, Settling
      <4>2. \A d \in Card : (Granting(d)' => Granting(d)) /\ (InHand(d)' => InHand(d))
        BY <3>2, <3>3 DEF Granting, InHand, Serving
      <4> QED
        BY <2>1, <4>1, <4>2, SettlingRefines
    <3>4. CASE fresh
      <4>1. /\ status[c] \in Awaiting /\ status'[c] = "running"
            /\ \A d \in Card : d # c => status'[d] = status[d]
        BY <1>1, <3>1, <3>4 DEF Transition, Allowed, StoreTypeOK
      <4>2. \A d \in Card : SpentOn(d)' = SpentOn(d)
        BY <2>1, SameSpent
      <4>3. \A d \in Card : d # c => (Granting(d)' <=> Granting(d)) /\ (InHand(d)' <=> InHand(d))
        BY <2>1, <3>0, <3>2 DEF Granting, InHand, Serving
      <4>4. \A d \in Card : d # c => PhaseOf(d)' = PhaseOf(d)
        BY <2>1, <4>1, <4>2, <4>3, SamePhase DEF SameCard
      <4>5. PhaseOf(c) = "asked"
        BY <4>1, Phases
      <4>6. SpentOn(c)' = {}
        BY <4>1, <4>2, CardFacts
      <4>7. PhaseOf(c)' = "granted"
        BY <4>1, <4>6, PhasesAfter
      <4>8. OneShot!Grant(c)
        BY <2>1, <4>4, <4>5, <4>7 DEF OneShot!Grant
      <4> QED
        BY <4>8 DEF OneShot!Next
    <3> QED
      BY <3>3, <3>4
  <2> QED
    BY <2>2, <2>3
<1>12. CASE Commit
  <2>0. PICK c \in Card : c = http.card
    BY <1>2, <1>12 DEF Commit, Serving
  <2>1. /\ http.pc = "commit" /\ UNCHANGED <<status, forCard, runs>>
    BY <1>12 DEF Commit, Serving, cardVars
  <2>2. CASE Then("seam") /\ UNCHANGED artifact
    BY <1>3, <1>5, <2>1, <2>2 DEF HttpPoint
  <2>3. CASE /\ artifact' = [artifact EXCEPT ![http.touch] = "consumed"]
             /\ Then(IF http.flag THEN "recheck" ELSE "dialogblock")
    <3>0. PICK u \in Touch : u = http.touch
      BY <1>2, <2>1
    <3>1. /\ forCard[u] = c /\ SpentOn(c) = {} /\ status[c] \in Settled
      BY <2>0, <2>1, <3>0 DEF S7Inv, RequestInv
    <3>2. artifact'[u] = "consumed" /\ \A v \in Touch : v # u => artifact'[v] = artifact[v]
      BY <1>1, <2>3, <3>0 DEF RequestsTyped
    <3>3. SpentOn(c)' # {} /\ \A d \in Card : d # c => SpentOn(d)' = SpentOn(d)
      BY <2>1, <3>1, <3>2 DEF SpentOn
    <3>4. /\ http'.card = c /\ http'.flag = http.flag
          /\ http'.pc = IF http.flag THEN "recheck" ELSE "dialogblock"
      BY <1>3, <2>0, <2>3 DEF HttpPoint
    <3>5. \A d \in Card : d # c => (Granting(d)' <=> Granting(d)) /\ (InHand(d)' <=> InHand(d))
      BY <2>0, <2>1, <3>4 DEF Granting, InHand, Serving
    <3>6. \A d \in Card : d # c => PhaseOf(d)' = PhaseOf(d)
      BY <2>1, <3>3, <3>5, SamePhase DEF SameCard
    <3>7. runs[c] = 0 /\ ~InHand(c) /\ status[c] # "absent" /\ status[c] \notin Awaiting
      BY <3>1, CardFacts DEF Settled, CardStatus, Awaiting, Terminal
    <3>8. CASE http.flag \/ status[c] = "running"
      <4>1. Granting(c) \/ status[c] = "running"
        BY <2>0, <2>1, <3>8 DEF Granting, Serving
      <4>2. PhaseOf(c) = "granted"
        BY <3>1, <4>1, Phases
      <4>3. InHand(c)' \/ (status'[c] = "running" /\ SpentOn(c)' # {})
        BY <2>1, <3>3, <3>4, <3>8 DEF InHand, Serving
      <4>4. PhaseOf(c)' = "spent"
        BY <4>3, PhasesAfter
      <4>5. OneShot!Spend(c)
        BY <2>1, <3>6, <4>2, <4>4 DEF OneShot!Spend
      <4> QED
        BY <4>5 DEF OneShot!Next
    <3>9. CASE ~http.flag /\ status[c] # "running"
      <4>1. ~Granting(c) /\ ~Granting(c)' /\ ~InHand(c)'
        BY <3>4, <3>9 DEF Granting, InHand, Serving
      <4>2. PhaseOf(c) = "closed" /\ PhaseOf(c)' = "closed"
        BY <2>1, <3>7, <3>9, <4>1, Phases, PhasesAfter
      <4>3. \A d \in Card : PhaseOf(d)' = PhaseOf(d)
        BY <3>6, <4>2
      <4> QED
        BY <2>1, <4>3 DEF OneShot!avars
    <3> QED
      BY <3>8, <3>9
  <2> QED
    BY <1>12, <2>2, <2>3 DEF Commit
<1>13. CASE Execute
  <2>0. PICK c \in Card : c = http.card
    BY <1>2, <1>13 DEF Execute, Serving
  <2>1. /\ http.pc = "execute" /\ runs' = [runs EXCEPT ![c] = @ + 1]
        /\ UNCHANGED <<status, artifact, forCard>>
    BY <1>13, <2>0 DEF Execute, Serving, authority, cardVars
  <2>2. http'.pc = "close"
    <3>1. PICK ok \in BOOLEAN : http' = [http EXCEPT !.pc = "close", !.flag = ok]
      BY <1>13 DEF Execute
    <3> QED
      BY <1>1, <3>1, GoesOn DEF HttpPoint
  <2>3. InHand(c) /\ runs[c] = 0
    BY <2>0, <2>1 DEF InHand, Serving, S7Inv, RequestInv
  <2>4. runs' = [runs EXCEPT ![c] = 1] /\ runs'[c] = 1
    BY <1>1, <2>1, <2>3 DEF RequestsTyped
  <2>5. \A d \in Card : SpentOn(d)' = SpentOn(d)
    BY <2>1, SameSpent
  <2>6. \A d \in Card : d # c => (Granting(d)' <=> Granting(d)) /\ (InHand(d)' <=> InHand(d))
    BY <2>0, <2>1, <2>2 DEF Granting, InHand, Serving
  <2>7. \A d \in Card : d # c => PhaseOf(d)' = PhaseOf(d)
    BY <1>1, <2>1, <2>4, <2>5, <2>6, SamePhase DEF SameCard, RequestsTyped
  <2>8. PhaseOf(c) = "spent" /\ PhaseOf(c)' = "spent"
    BY <2>3, <2>4, Phases, PhasesAfter
  <2>9. OneShot!Act(c)
    BY <2>3, <2>4, <2>7, <2>8 DEF OneShot!Act
  <2> QED
    BY <2>9 DEF OneShot!Next
<1> QED
  BY <1>6, <1>7, <1>8, <1>9, <1>10, <1>11, <1>12, <1>13 DEF Serve

\* A proposal asks for its card and closes the ones it supersedes.
LEMMA ProposeRefines ==
    ASSUME S7Inv, S7Inv', NEW t \in Thread, NEW ch \in Chat, NEW b \in BOOLEAN, Propose(t, ch, b)
    PROVE  OneShot!Next
<1>1. PICK c \in Card : c = created + 1
  BY DEF Propose, CreateCard
<1> DEFINE S == Superseded(ch)
<1>2. /\ \A d \in Card : status'[d] = IF d = c THEN "open" ELSE IF d \in S THEN "expired" ELSE status[d]
      /\ UNCHANGED <<http, artifact, forCard, runs>>
  BY <1>1 DEF Propose, CreateCard, authority
<1>3. S \in SUBSET Card /\ \A d \in S : status[d] \in Awaiting
  BY DEF Superseded
<1>4. created \in Nat
  BY CardsAssumption DEF S7Inv, TypeOK, StoreTypeOK
<1>5. status[c] = "absent"
  BY <1>1, <1>4 DEF S7Inv, CardsInOrder
<1>6. c \notin S
  BY <1>3, <1>5, CardFacts
<1> HIDE DEF S
<1>7. \A d \in Card : SpentOn(d)' = SpentOn(d)
  BY <1>2, SameSpent
<1>8. \A d \in Card : (Granting(d)' <=> Granting(d)) /\ (InHand(d)' <=> InHand(d))
  BY <1>2, HoldsOn
<1>9. \A d \in Card : d # c /\ d \notin S => PhaseOf(d)' = PhaseOf(d)
  BY <1>2, <1>7, <1>8, SamePhase DEF SameCard
<1>10. PhaseOf(c) = "none" /\ PhaseOf(c)' = "asked"
  BY <1>2, <1>5, Phases, PhasesAfter DEF Awaiting
<1>11. ASSUME NEW d \in S PROVE PhaseOf(d) = "asked" /\ PhaseOf(d)' = "closed"
  <2>1. d \in Card /\ status[d] \in Awaiting /\ status'[d] = "expired" /\ runs'[d] = runs[d]
    BY <1>2, <1>3, <1>6
  <2>2. runs[d] = 0 /\ ~InHand(d) /\ ~Granting(d)
    BY <2>1, CardFacts
  <2> QED
    BY <1>8, <2>1, <2>2, Phases, PhasesAfter DEF Awaiting
<1>12. OneShot!Ask(c, S)
  BY <1>2, <1>6, <1>9, <1>10, <1>11, <1>3 DEF OneShot!Ask
<1> QED
  BY <1>3, <1>12 DEF OneShot!Next

LEMMA StepRefines ==
    ASSUME S7Inv, S7Inv', [Next]_vars
    PROVE  [OneShot!Next]_OneShot!avars
<1>1. StoreTypeOK /\ RequestsTyped
  BY TypesApart DEF S7Inv
<1>2. CASE Serve
  BY <1>2, ServeRefines
<1>3. ASSUME NEW t \in Thread, NEW ch \in Chat, NEW b \in BOOLEAN, Propose(t, ch, b)
      PROVE  [OneShot!Next]_OneShot!avars
  BY <1>3, ProposeRefines
<1>4. ASSUME UNCHANGED <<http, artifact, forCard, runs>>,
             UNCHANGED status \/ \E c \in Card : Settles(c)
      PROVE  [OneShot!Next]_OneShot!avars
  BY <1>4, HoldsOn, SettlingRefines
<1>5. CASE UNCHANGED vars
  BY <1>4, <1>5 DEF vars, authority, cardVars
<1>6. ASSUME NEW c \in Card, WebDeny(c) \/ ExpireAbandoned(c) \/ Drift(c)
      PROVE  [OneShot!Next]_OneShot!avars
  BY <1>4, <1>6, Settling DEF WebDeny, ExpireAbandoned, Drift, authority, cardVars
<1>7. ASSUME NEW u \in Touch, Lapse(u) PROVE [OneShot!Next]_OneShot!avars
  BY <1>4, <1>7 DEF Lapse, cardVars
<1>8. ASSUME NEW t \in Thread, Handle(t) \/ \E c \in Card : Hear(t, c)
      PROVE  [OneShot!Next]_OneShot!avars
  <2>1. UNCHANGED <<http, artifact, forCard, runs>>
    BY <1>8 DEF Handle, LinkDialog, ReadForReply, Reply, BlockFromThread, DenyFromThread, Hear,
                authority
  <2>2. CASE BlockFromThread(t) \/ DenyFromThread(t)
    <3>1. On(t) \in Card
      BY <1>1, <2>2, InRange DEF BlockFromThread, DenyFromThread, At, On, S7Inv, CardsInHand
    <3>2. UNCHANGED status \/ Settles(On(t))
      BY <2>2, Settling DEF BlockFromThread, DenyFromThread
    <3> QED
      BY <1>4, <2>1, <3>1, <3>2
  <2>3. CASE UNCHANGED cardVars
    BY <1>4, <2>1, <2>3 DEF cardVars
  <2> QED
    BY <1>8, <2>2, <2>3 DEF Handle, LinkDialog, ReadForReply, Reply, Hear
<1>9. CASE Request
  <2>1. UNCHANGED <<artifact, runs, status>> /\ http.pc = "idle"
    BY <1>9 DEF Request, Finish, Begin, ExecuteRequest, authority, cardVars, Serving
  <2>2. http'.pc \notin {"commit", "recheck", "execute"}
    <3>1. CASE \E u \in Touch : Finish(u)
      <4>1. PICK u \in Touch : http' = [NoRequest EXCEPT !.pc = "consume", !.card = forCard[u],
                                                        !.touch = u]
        BY <3>1 DEF Finish
      <4> QED
        BY <4>1 DEF NoRequest
    <3>2. CASE UNCHANGED http
      BY <2>1, <3>2
    <3>3. CASE \E u \in Touch, c \in Card : ExecuteRequest(u, c)
      BY <3>3 DEF ExecuteRequest
    <3> QED
      BY <1>9, <3>1, <3>2, <3>3 DEF Request, Begin
  <2>3. \A c \in Card : SpentOn(c)' = SpentOn(c)
    <3>1. CASE UNCHANGED forCard
      BY <2>1, <3>1, SameSpent
    <3>2. ASSUME NEW u \in Touch, NEW c \in Card, Begin(u, c)
          PROVE  \A d \in Card : SpentOn(d)' = SpentOn(d)
      <4>1. artifact[u] # "consumed" /\ forCard' = [forCard EXCEPT ![u] = c]
        BY <1>1, <3>2 DEF Begin, S7Inv, TouchesInOrder, RequestsTyped
      <4> QED
        BY <1>1, <2>1, <4>1 DEF SpentOn, RequestsTyped
    <3> QED
      BY <1>9, <3>1, <3>2 DEF Request, Finish, ExecuteRequest, authority
  <2> QED
    BY <2>1, <2>2, <2>3, LetsGo, NoProgressRefines DEF NoProgress
<1>10. CASE Crash
  <2>1. UNCHANGED <<artifact, forCard, runs, status>> /\ http'.pc = "idle"
    BY <1>10 DEF Crash, authority, cardVars, NoRequest
  <2> QED
    BY <2>1, LetsGo, SettlingRefines
<1> QED
  BY <1>2, <1>3, <1>5, <1>6, <1>7, <1>8, <1>9, <1>10 DEF Next

\* At first no card has been asked for.
LEMMA InitRefines == Init => OneShot!Init
<1> SUFFICES ASSUME Init PROVE OneShot!Init
  OBVIOUS
<1>1. \A c \in Card : PhaseOf(c) = "none"
  BY DEF Init, StoreInit, PhaseOf, Exists
<1> QED
  BY <1>1 DEF Init, OneShot!Init

\* The card store and the authority store, which share no transaction, keep
\* between them the promise of OneShotApproval: asked, granted once, spent
\* once, and only a spent touch has its one effect.
THEOREM TouchesAreOneShot == Spec => ImplementsOneShot
<1>1. S7Inv /\ S7Inv' /\ [Next]_vars => [OneShot!Next]_OneShot!avars
  BY StepRefines
<1> QED
  BY <1>1, InitRefines, S7Always, PTL DEF Spec, ImplementsOneShot, OneShot!Spec

-----------------------------------------------------------------------------
(* What a request leaves behind                                            *)

\* No card rests in "approved", which the transition skips, and the card of a
\* consumption that is committed with the card found stale has expired.
StrandInv ==
    /\ \A c \in Card : status[c] # "approved"
    /\ http.pc = "commit" /\ ~http.flag => status[http.card] \in Terminal
    /\ OnlyACrashStrands

\* No card is set running, and none that is closed comes back.
Calm ==
    \A c \in Card : /\ status'[c] # "approved"
                    /\ status'[c] = "running" => status[c] = "running"
                    /\ status[c] \in Terminal => status'[c] \in Terminal

LEMMA SettlingIsCalm ==
    ASSUME S7Inv, StrandInv, UNCHANGED status \/ \E c \in Card : Settles(c)
    PROVE  Calm
<1>1. status \in [Card -> CardStatus \cup {"absent"}]
  BY DEF S7Inv, TypeOK, StoreTypeOK
<1>2. CASE UNCHANGED status
  BY <1>2 DEF Calm, StrandInv
<1>3. ASSUME NEW d \in Card, Settles(d) PROVE Calm
  <2>1. PICK s \in Terminal : status' = [status EXCEPT ![d] = s]
    BY <1>3 DEF Settles
  <2>2. s \in Terminal /\ s # "approved" /\ s # "running"
    BY <2>1 DEF Terminal
  <2> QED
    BY <1>1, <2>1, <2>2 DEF Calm, StrandInv
<1> QED
  BY <1>2, <1>3

LEMMA ProposingIsCalm ==
    ASSUME S7Inv, StrandInv, NEW t \in Thread, NEW ch \in Chat, NEW b \in BOOLEAN, Propose(t, ch, b)
    PROVE  Calm
<1> DEFINE c == created + 1
<1>1. /\ c \in Card
      /\ \A d \in Card : status'[d] = IF d = c THEN "open"
                                      ELSE IF d \in Superseded(ch) THEN "expired" ELSE status[d]
  BY DEF Propose, CreateCard
<1>2. status[c] = "absent"
  <2>1. created \in Nat
    BY CardsAssumption DEF S7Inv, TypeOK, StoreTypeOK
  <2> QED
    BY <1>1, <2>1 DEF S7Inv, CardsInOrder
<1> HIDE DEF c
<1> QED
  BY <1>1, <1>2 DEF Calm, StrandInv, Terminal

\* An awaiting card in hand that is found settled is closed, if nobody is
\* running it.
LEMMA FoundSettled ==
    ASSUME S7Inv, StrandInv, http.pc # "idle", status[http.card] \notin Awaiting \cup {"running"}
    PROVE  status[http.card] \in Terminal
<1>1. http.card \in 1..created /\ http.card \in Card
  BY InRange DEF S7Inv, CardsInHand, TypeOK
<1>2. status[http.card] \in CardStatus \cup {"absent"}
  BY <1>1 DEF S7Inv, TypeOK, StoreTypeOK
<1>3. status[http.card] # "absent"
  <2>1. created \in Nat
    BY CardsAssumption DEF S7Inv, TypeOK, StoreTypeOK
  <2> QED
    BY <1>1, <2>1 DEF S7Inv, CardsInOrder
<1> QED
  BY <1>1, <1>2, <1>3 DEF StrandInv, CardStatus

\* Where a step of the server leaves a card, if there was no crash: closed, or in
\* the server's hands, or with no claim on it.
Lands(c) ==
    crashes = 0 =>
    \/ status'[c] \in Terminal
    \/ http'.card = c /\ http'.pc \in Running
    \/ status'[c] # "running" /\ http'.card = c /\ http'.pc \in Unsettled
    \/ status'[c] # "running" /\ stage'[c] # "ratified"

\* Off the points of Running and Unsettled nothing depends on the server.
LEMMA NothingHangs ==
    ASSUME StrandInv, NEW c \in Card, crashes = 0
    PROVE  /\ http.card # c \/ http.pc \notin Running => status[c] # "running"
           /\ http.card # c \/ http.pc \notin Unsettled
              => status[c] \in Terminal \/ stage[c] # "ratified"
           /\ http.card # c => status[c] # "running"
                               /\ (status[c] \in Terminal \/ stage[c] # "ratified")
  BY DEF StrandInv, OnlyACrashStrands

\* A step that moves neither card nor dialog, with the server not at its points.
LEMMA LandsAsBefore ==
    ASSUME StrandInv, NEW c \in Card,
           http.card # c \/ http.pc \notin Unsettled,
           status'[c] \in Terminal \/ status'[c] = status[c],
           stage'[c] # "ratified" \/ stage'[c] = stage[c]
    PROVE  Lands(c)
<1>1. crashes = 0 => status[c] # "running" /\ (status[c] \in Terminal \/ stage[c] # "ratified")
  BY NothingHangs DEF Unsettled
<1> QED
  BY <1>1 DEF Lands

LEMMA ServeLands ==
    ASSUME S7Inv, StrandInv, Serve, NEW c \in Card
    PROVE  /\ Lands(c)
           /\ status'[c] # "approved"
           /\ status[c] \in Terminal => status'[c] \in Terminal
           /\ http'.pc = "commit" /\ ~http'.flag => status'[http'.card] \in Terminal
           /\ crashes' = crashes
<1>1. /\ status \in [Card -> CardStatus \cup {"absent"}] /\ stage \in [Card -> Stage]
      /\ http \in HttpState
  BY DEF S7Inv, TypeOK, StoreTypeOK
<1>2. http.pc # "idle" => http.card \in Card
  BY InRange DEF S7Inv, CardsInHand, TypeOK
<1>3. \A point \in HttpPoint : Then(point) => http'.pc = point /\ http'.card = http.card
                                              /\ http'.flag = http.flag
  BY <1>1, GoesTo
<1>4. Respond => http'.pc = "idle"
  BY Responds
<1>5. crashes' = crashes
  BY DEF Serve, ConsumeChallenge, Mint, ReadDialog, Ratify, CheckFresh, BlockStaleDialog, RefuseCard,
         Approving, WillAndPreflight, Redeem, TransitionCard, Commit, FailSeam, Recheck, Execute,
         CloseCard, BlockCard, BlockDialog, EndDialog, bounds
<1> DEFINE Good == /\ Lands(c)
                   /\ status'[c] # "approved"
                   /\ status[c] \in Terminal => status'[c] \in Terminal
                   /\ http'.pc = "commit" /\ ~http'.flag => status'[http'.card] \in Terminal
\* Steps that settle a card at most, or leave all cards alone.
<1>6. ASSUME UNCHANGED status \/ Settles(http.card), http.pc # "idle", http'.pc # "commit", Lands(c)
      PROVE  Good
  <2>1. Calm
    BY <1>2, <1>6, SettlingIsCalm
  <2> QED
    BY <1>6, <2>1 DEF Calm
\* The card another request has nothing to do with.
<1>7. ASSUME UNCHANGED status \/ Settles(http.card), http.card # c, http.pc # "idle",
             stage'[c] = stage[c]
      PROVE  Lands(c)
  <2>1. status'[c] = status[c]
    BY <1>1, <1>2, <1>7 DEF Settles
  <2> QED
    BY <1>7, <2>1, LandsAsBefore
<1>8. CASE ConsumeChallenge \/ Mint \/ ReadDialog
  <2>1. /\ http.pc \in {"consume", "mint", "read"} /\ UNCHANGED <<status, stage>>
        /\ Respond \/ \E point \in {"mint", "refuse", "ratify"} : Then(point)
    BY <1>8 DEF ConsumeChallenge, Mint, ReadDialog, Serving, cardVars
  <2>2. Lands(c)
    BY <2>1, LandsAsBefore DEF Unsettled, Running
  <2>3. http'.pc # "commit"
    BY <1>3, <1>4, <2>1 DEF HttpPoint
  <2> QED
    BY <1>5, <1>6, <2>1, <2>2, <2>3
<1>9. CASE Ratify \/ CheckFresh
  <2>1. /\ http.pc \in {"ratify", "fresh"} /\ UNCHANGED status
        /\ stage' = [stage EXCEPT ![http.card] = "ratified"] \/ UNCHANGED stage
        /\ \E point \in {"fresh", "approve", "stale"} : Then(point)
    BY <1>9 DEF Ratify, CheckFresh, Serving, cardVars, SetStage
  <2>2. http'.pc \in {"fresh", "approve", "stale"} /\ http'.card = http.card
    BY <1>3, <2>1 DEF HttpPoint
  <2>3. Lands(c)
    <3>1. CASE http.card # c
      BY <1>1, <1>7, <2>1, <3>1
    <3>2. CASE http.card = c
      BY <2>1, <2>2, <3>2, NothingHangs DEF Lands, Unsettled, Running
    <3> QED
      BY <3>1, <3>2
  <2> QED
    BY <1>5, <1>6, <2>1, <2>2, <2>3
<1>10. CASE BlockStaleDialog \/ BlockDialog \/ EndDialog
  <2>1. /\ http.pc \in {"stale", "dialogblock", "dialogend"} /\ UNCHANGED status
        /\ \E s \in Stage \ {"ratified"} : stage' = [stage EXCEPT ![http.card] = s]
        /\ Respond \/ Then("refuse")
    BY <1>10 DEF BlockStaleDialog, BlockDialog, EndDialog, Serving, cardVars, SetStage, Stage
  <2>2. http'.pc # "commit"
    BY <1>3, <1>4, <2>1 DEF HttpPoint
  <2>3. Lands(c)
    <3>1. CASE http.card # c
      BY <1>1, <1>7, <2>1, <3>1
    <3>2. CASE http.card = c
      BY <1>1, <2>1, <3>2, NothingHangs DEF Lands, Running
    <3> QED
      BY <3>1, <3>2
  <2> QED
    BY <1>5, <1>6, <2>1, <2>2, <2>3
<1>11. CASE RefuseCard
  <2>1. http.pc = "refuse" /\ UNCHANGED stage /\ http'.pc = "idle"
    BY <1>4, <1>11 DEF RefuseCard, Serving
  <2>2. UNCHANGED status \/ Settles(http.card)
    BY <1>11, Settling DEF RefuseCard
  <2>3. status'[c] \in Terminal \/ status'[c] = status[c]
    BY <1>1, <1>2, <2>1, <2>2 DEF Settles
  <2>4. Lands(c)
    BY <2>1, <2>3, LandsAsBefore DEF Unsettled, Running
  <2> QED
    BY <1>5, <1>6, <2>1, <2>2, <2>4
<1>12. CASE Approving \/ WillAndPreflight
  <2>1. /\ http.pc \in {"approve", "will"} /\ UNCHANGED stage
        /\ \/ UNCHANGED status /\ \E point \in {"will", "redeem", "block"} : Then(point)
           \/ \E new \in {"expired", "denied"} :
                /\ status' = [status EXCEPT ![http.card] = new]
                /\ status[http.card] \in Awaiting /\ Then("dialogblock")
           \/ /\ status[http.card] \notin Awaiting /\ UNCHANGED status
              /\ Then("dialogblock") \/ Respond
    BY <1>12 DEF Approving, WillAndPreflight, Serving, Expire, Deny, Transition, Refused, Allowed,
                 cardVars
  <2>2. UNCHANGED status \/ Settles(http.card)
    BY <2>1 DEF Settles, Terminal, CardStatus
  <2>3. http'.pc # "commit"
    BY <1>3, <1>4, <2>1 DEF HttpPoint
  <2>4. Lands(c)
    <3>1. CASE http.card # c
      BY <1>7, <2>1, <2>2, <3>1
    <3>2. CASE http.card = c
      <4>1. crashes = 0 => status[c] # "running"
        BY <2>1, NothingHangs DEF Running
      <4>2. CASE UNCHANGED status /\ \E point \in {"will", "redeem", "block"} : Then(point)
        <5>1. http'.card = c /\ http'.pc \in {"will", "redeem", "block"}
          BY <1>3, <3>2, <4>2 DEF HttpPoint
        <5> QED
          BY <4>1, <4>2, <5>1 DEF Lands, Unsettled, Running
      <4>3. ASSUME NEW new \in {"expired", "denied"}, status' = [status EXCEPT ![c] = new]
            PROVE  Lands(c)
        BY <1>1, <4>3 DEF Lands, Terminal
      <4>4. CASE status[c] \notin Awaiting /\ UNCHANGED status
        <5>1. crashes = 0 => status[c] \in Terminal
          BY <2>1, <3>2, <4>1, <4>4, FoundSettled
        <5> QED
          BY <4>4, <5>1 DEF Lands
      <4> QED
        BY <2>1, <3>2, <4>2, <4>3, <4>4
    <3> QED
      BY <3>1, <3>2
  <2> QED
    BY <1>5, <1>6, <2>1, <2>2, <2>3, <2>4
<1>13. CASE Redeem
  <2>1. /\ http.pc = "redeem" /\ UNCHANGED <<status, stage>>
        /\ \E point \in {"transition", "block", "seam"} : Then(point)
    BY <1>13 DEF Redeem, Serving, cardVars
  <2>2. http'.pc \in {"transition", "block", "seam"} /\ http'.card = http.card
    BY <1>3, <2>1 DEF HttpPoint
  <2>3. Lands(c)
    <3>1. CASE http.card # c
      BY <1>7, <2>1, <3>1
    <3>2. CASE http.card = c
      BY <2>1, <2>2, <3>2, NothingHangs DEF Lands, Unsettled, Running
    <3> QED
      BY <3>1, <3>2
  <2> QED
    BY <1>5, <1>6, <2>1, <2>2, <2>3
<1>14. CASE TransitionCard
  <2>1. /\ http.pc = "transition" /\ http.card \in Card /\ UNCHANGED stage
    BY <1>2, <1>14 DEF TransitionCard, Serving
  <2>2. CASE Then("seam") /\ UNCHANGED status
    <3>1. http'.pc = "seam" /\ http'.card = http.card
      BY <1>3, <2>2 DEF HttpPoint
    <3>2. Lands(c)
      <4>1. CASE http.card # c
        BY <1>7, <2>1, <2>2, <4>1
      <4>2. CASE http.card = c
        BY <3>1, <4>2 DEF Lands, Running
      <4> QED
        BY <4>1, <4>2
    <3> QED
      BY <1>5, <1>6, <2>1, <2>2, <3>1, <3>2
  <2>3. CASE ~(Then("seam") /\ UNCHANGED status)
    <3> DEFINE fresh == Fresh(http.card)
               new == IF fresh THEN "running" ELSE "expired"
    <3>1. /\ fresh \in BOOLEAN
          /\ status[http.card] \in Awaiting /\ status' = [status EXCEPT ![http.card] = new]
          /\ http' = [http EXCEPT !.pc = "commit", !.flag = fresh]
      BY <1>14, <2>3 DEF TransitionCard, Fresh, Refused, Transition, Allowed, cardVars
    <3> HIDE DEF fresh
    <3>2. http'.pc = "commit" /\ http'.card = http.card /\ http'.flag = fresh
      BY <1>1, <3>1, GoesOn DEF HttpPoint
    <3>3. status'[http.card] = new /\ \A d \in Card : d # http.card => status'[d] = status[d]
      BY <1>1, <2>1, <3>1
    <3>4. Lands(c)
      <4>1. CASE http.card # c
        BY <2>1, <3>3, <4>1, LandsAsBefore
      <4>2. CASE http.card = c
        BY <3>2, <4>2 DEF Lands, Running
      <4> QED
        BY <4>1, <4>2
    <3>5. status'[c] # "approved" /\ (status[c] \in Terminal => status'[c] \in Terminal)
      BY <3>1, <3>3 DEF StrandInv, Awaiting, Terminal
    <3>6. ~http'.flag => status'[http'.card] \in Terminal
      BY <3>2, <3>3 DEF Terminal
    <3> QED
      BY <1>5, <3>4, <3>5, <3>6
  <2> QED
    BY <2>2, <2>3
<1>15. CASE Commit
  <2>1. /\ http.pc = "commit" /\ UNCHANGED <<status, stage>>
        /\ Then("seam") \/ Then(IF http.flag THEN "recheck" ELSE "dialogblock")
    BY <1>15 DEF Commit, Serving, cardVars
  <2>2. /\ http'.card = http.card
        /\ http'.pc \in {"seam", "recheck"} \/ (http'.pc = "dialogblock" /\ ~http.flag)
    BY <1>3, <2>1 DEF HttpPoint
  <2>3. Lands(c)
    <3>1. CASE http.card # c
      BY <1>7, <2>1, <3>1
    <3>2. CASE http.card = c
      BY <2>1, <2>2, <3>2 DEF Lands, Running, StrandInv
    <3> QED
      BY <3>1, <3>2
  <2> QED
    BY <1>5, <1>6, <2>1, <2>2, <2>3
<1>16. CASE Recheck \/ Execute
  <2>1. http.pc \in {"recheck", "execute"} /\ UNCHANGED <<status, stage>>
    BY <1>16 DEF Recheck, Execute, Serving, cardVars
  <2>2. http'.pc \in {"execute", "block", "close"} /\ http'.card = http.card
    <3>1. CASE Recheck
      BY <1>3, <3>1 DEF Recheck, HttpPoint
    <3>2. CASE Execute
      BY <1>1, <3>2, GoesOn DEF Execute, HttpPoint
    <3> QED
      BY <1>16, <3>1, <3>2
  <2>3. Lands(c)
    <3>1. CASE http.card # c
      BY <1>7, <2>1, <3>1
    <3>2. CASE http.card = c
      BY <2>2, <3>2 DEF Lands, Running
    <3> QED
      BY <3>1, <3>2
  <2> QED
    BY <1>5, <1>6, <2>1, <2>2, <2>3
<1>17. CASE FailSeam \/ CloseCard \/ BlockCard
  <2>1. http.pc \in {"seam", "close", "block"} /\ UNCHANGED stage
    BY <1>17 DEF FailSeam, CloseCard, BlockCard, Serving
  <2>2. UNCHANGED status \/ Settles(http.card)
    BY <1>1, <1>17, Settling DEF FailSeam, CloseCard, BlockCard, HttpState
  <2>3. http'.pc # "commit"
    <3>1. CASE FailSeam
      BY <1>1, <3>1, GoesOn DEF FailSeam, HttpPoint
    <3>2. CASE CloseCard \/ BlockCard
      BY <1>3, <3>2 DEF CloseCard, BlockCard, HttpPoint
    <3> QED
      BY <1>17, <3>1, <3>2
  <2>4. Lands(c)
    <3>1. CASE http.card # c
      BY <1>7, <2>1, <2>2, <3>1
    <3>2. CASE http.card = c /\ Settles(c)
      <4>1. status'[c] \in Terminal
        BY <1>1, <3>2 DEF Settles
      <4> QED
        BY <4>1 DEF Lands
    <3>3. CASE http.card = c /\ UNCHANGED status /\ ~Settles(c)
      <4>1. status[c] \notin Awaiting \cup {"running"}
        <5>1. CASE FailSeam
          BY <1>1, <3>3, <5>1, Settling DEF FailSeam, Refused, Allowed
        <5>2. CASE BlockCard
          BY <1>1, <3>3, <5>2, Settling DEF BlockCard, Refused, Allowed
        <5>3. CASE CloseCard
          <6>1. status[c] # "running"
            BY <1>1, <3>3, <5>3, Settling DEF CloseCard, Refused, Allowed, HttpState
          <6>2. runs[c] = 1
            BY <3>3, <5>3 DEF CloseCard, Serving, S7Inv, RequestInv
          <6> QED
            BY <6>1, <6>2, CardFacts
        <5> QED
          BY <1>17, <5>1, <5>2, <5>3
      <4>2. status[c] \in Terminal
        BY <2>1, <3>3, <4>1, FoundSettled
      <4> QED
        BY <3>3, <4>2 DEF Lands
    <3> QED
      BY <2>2, <3>1, <3>2, <3>3
  <2> QED
    BY <1>5, <1>6, <2>1, <2>2, <2>3, <2>4
<1> QED
  BY <1>8, <1>9, <1>10, <1>11, <1>12, <1>13, <1>14, <1>15, <1>16, <1>17 DEF Serve

\* A step of anybody else that is no crash: calm, and no dialog is ratified.
LEMMA OthersAreCalm ==
    ASSUME S7Inv, StrandInv, Calm, crashes' = crashes,
           http' = http \/ (http.pc = "idle" /\ http'.pc # "commit"),
           \A c \in Card : stage'[c] = "ratified" => stage[c] = "ratified"
    PROVE  StrandInv'
<1>1. http'.pc = "commit" => http' = http /\ http.card \in Card
  BY InRange DEF S7Inv, CardsInHand, TypeOK
<1>2. http'.pc = "commit" /\ ~http'.flag => status'[http'.card] \in Terminal
  BY <1>1 DEF StrandInv, Calm
<1>3. ASSUME crashes' = 0, NEW c \in Card
      PROVE  /\ status'[c] = "running" => http'.card = c /\ http'.pc \in Running
             /\ stage'[c] = "ratified" /\ status'[c] \notin Terminal
                => http'.card = c /\ http'.pc \in Unsettled
  <2>1. CASE http' = http
    BY <1>3, <2>1 DEF Calm, StrandInv, OnlyACrashStrands
  <2>2. CASE http.pc = "idle"
    <3>1. status[c] # "running" /\ (status[c] \in Terminal \/ stage[c] # "ratified")
      BY <1>3, <2>2, NothingHangs DEF Unsettled, Running
    <3> QED
      BY <3>1 DEF Calm
  <2> QED
    BY <2>1, <2>2
<1> QED
  BY <1>2, <1>3 DEF StrandInv, OnlyACrashStrands, Calm

LEMMA StrandStep ==
    ASSUME S7Inv, StrandInv, [Next]_vars
    PROVE  StrandInv'
<1>1. StoreTypeOK /\ RequestsTyped
  BY TypesApart DEF S7Inv
<1>2. UNCHANGED status => Calm
  BY SettlingIsCalm
<1>3. CASE UNCHANGED vars
  BY <1>2, <1>3, OthersAreCalm DEF vars, cardVars, bounds
<1>4. CASE Serve
  <2>1. \A c \in Card : /\ Lands(c) /\ status'[c] # "approved"
                        /\ http'.pc = "commit" /\ ~http'.flag => status'[http'.card] \in Terminal
                        /\ crashes' = crashes
    BY <1>4, ServeLands
  <2>2. http'.pc = "commit" => \E c \in Card : TRUE
    <3>1. http.pc # "idle"
      BY <1>4 DEF Serve, ConsumeChallenge, Mint, ReadDialog, Ratify, CheckFresh, BlockStaleDialog,
                  RefuseCard, Approving, WillAndPreflight, Redeem, TransitionCard, Commit, FailSeam,
                  Recheck, Execute, CloseCard, BlockCard, BlockDialog, EndDialog, Serving
    <3> QED
      BY <1>1, <3>1, InRange DEF S7Inv, CardsInHand
  <2>3. Running \subseteq Unsettled
    BY DEF Unsettled
  <2>4. OnlyACrashStrands'
    BY <2>1, <2>3 DEF OnlyACrashStrands, Lands, Terminal
  <2>5. http'.pc = "commit" /\ ~http'.flag => status'[http'.card] \in Terminal
    BY <2>1, <2>2
  <2> QED
    BY <2>1, <2>4, <2>5 DEF StrandInv
<1>5. ASSUME NEW c \in Card, WebDeny(c) \/ ExpireAbandoned(c) \/ Drift(c)
      PROVE  StrandInv'
  <2>1. UNCHANGED status \/ Settles(c)
    BY <1>5, Settling DEF WebDeny, ExpireAbandoned, Drift, cardVars
  <2>2. UNCHANGED <<http, stage, crashes>>
    BY <1>5 DEF WebDeny, ExpireAbandoned, Drift, bounds
  <2> QED
    BY <2>1, <2>2, SettlingIsCalm, OthersAreCalm
<1>6. ASSUME NEW u \in Touch, Lapse(u) PROVE StrandInv'
  BY <1>2, <1>6, OthersAreCalm DEF Lapse, cardVars, bounds
<1>7. ASSUME NEW t \in Thread, NEW ch \in Chat, NEW b \in BOOLEAN, Propose(t, ch, b)
      PROVE  StrandInv'
  <2>1. UNCHANGED <<http, stage, crashes>>
    BY <1>7 DEF Propose, bounds
  <2> QED
    BY <1>7, <2>1, ProposingIsCalm, OthersAreCalm
<1>8. ASSUME NEW t \in Thread, Handle(t) \/ \E c \in Card : Hear(t, c)
      PROVE  StrandInv'
  <2>1. UNCHANGED <<http, crashes>>
    BY <1>8 DEF Handle, LinkDialog, ReadForReply, Reply, BlockFromThread, DenyFromThread, Hear, bounds
  <2>2. On(t) \in Card \/ At(t, "idle")
    BY <1>1, InRange DEF On, At, S7Inv, CardsInHand
  <2>3. \A c \in Card : stage'[c] = "ratified" => stage[c] = "ratified"
    <3>1. UNCHANGED stage \/ \E s \in {"talking", "blocked", "denied"} :
                               stage' = [stage EXCEPT ![On(t)] = s]
      BY <1>8 DEF Handle, LinkDialog, ReadForReply, Reply, BlockFromThread, DenyFromThread, Hear,
                  SetStage
    <3> QED
      BY <1>1, <3>1 DEF RequestsTyped
  <2>4. UNCHANGED status \/ (On(t) \in Card /\ Settles(On(t)))
    <3>1. CASE BlockFromThread(t) \/ DenyFromThread(t)
      BY <2>2, <3>1, Settling DEF BlockFromThread, DenyFromThread, At
    <3> QED
      BY <1>8, <3>1 DEF Handle, LinkDialog, ReadForReply, Reply, Hear, cardVars
  <2> QED
    BY <2>1, <2>3, <2>4, SettlingIsCalm, OthersAreCalm
<1>9. CASE Request
  <2>1. http.pc = "idle" /\ UNCHANGED <<status, stage, crashes>>
    BY <1>9 DEF Request, Finish, Begin, ExecuteRequest, Serving, cardVars, bounds
  <2>2. http' = http \/ http'.pc \in {"consume", "read"}
    <3>1. ASSUME NEW u \in Touch, Finish(u) PROVE http'.pc = "consume"
      <4>1. http' = [NoRequest EXCEPT !.pc = "consume", !.card = forCard[u], !.touch = u]
        BY <3>1 DEF Finish
      <4> QED
        BY <4>1 DEF NoRequest
    <3>2. ASSUME NEW u \in Touch, NEW c \in Card, ExecuteRequest(u, c) PROVE http'.pc = "read"
      BY <3>2 DEF ExecuteRequest
    <3> QED
      BY <1>9, <3>1, <3>2 DEF Request, Begin
  <2> QED
    BY <1>2, <2>1, <2>2, OthersAreCalm
<1>10. CASE Crash
  <2>1. http'.pc = "idle" /\ crashes' # 0 /\ UNCHANGED status
    BY <1>1, <1>10 DEF Crash, NoRequest, RequestsTyped, cardVars
  <2> QED
    BY <2>1 DEF StrandInv, OnlyACrashStrands
<1> QED
  BY <1>3, <1>4, <1>5, <1>6, <1>7, <1>8, <1>9, <1>10 DEF Next

\* Nothing looks for a running card, or for a card whose dialog takes no reply
\* any more: two databases, a third for the dialog, and the web process and the
\* sweep in between notwithstanding, the request that made it so brings it to
\* an end (decision_pipeline.py, _on_approve and its S7 seam).
THEOREM OnlyCrashesStrand == Spec => []OnlyACrashStrands
<1>1. Init => StrandInv
  BY DEF Init, StoreInit, NoRequest, StrandInv, OnlyACrashStrands
<1>2. S7Inv /\ StrandInv /\ [Next]_vars => StrandInv'
  BY StrandStep
<1>3. StrandInv => OnlyACrashStrands
  BY DEF StrandInv
<1> QED
  BY <1>1, <1>2, <1>3, S7Always, PTL DEF Spec
=============================================================================
