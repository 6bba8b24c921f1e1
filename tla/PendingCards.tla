---------------------------- MODULE PendingCards ----------------------------
(***************************************************************************)
(* The pending-cards store (core/decision/pending_cards.py): one SQLite    *)
(* row per approval card, every method its own transaction on its own      *)
(* connection.  Cards are never deleted, only moved between statuses, and  *)
(* each move is one guarded UPDATE: it either finds the row in one of the  *)
(* statuses it allows, or raises CardStoreError and changes nothing.       *)
(*                                                                         *)
(* The module has no Next of its own: threads and processes that call the  *)
(* store are in the modules that extend it.  Cards are numbered in the     *)
(* order they are created, which is the order of created_at.               *)
(***************************************************************************)
EXTENDS Naturals, FiniteSets

CONSTANTS
    MaxCards,   \* bound on the cards ever created
    Chat,       \* chats a card can belong to
    NoChat,     \* the chat_id None of a card proposed outside any chat
    Kind        \* the kinds of card to propose, a subset of CardKind

Card == 1..MaxCards

\* What a card's action, params and audit verdict amount to for the pipeline:
\* "plain" runs, the will-I check refuses "impersonation", "want" is a
\* terminal-want proposal, "guarded" needs S7 authorization, "dialog" is an
\* ESCALATE card that is settled in a self-mod dialog.
CardKind == {"plain", "impersonation", "want", "guarded", "dialog"}

ASSUME CardsAssumption ==
    /\ MaxCards \in Nat
    /\ NoChat \notin Chat
    /\ Kind \subseteq CardKind

VARIABLES
    created,    \* how many cards exist
    status,     \* the status column; "absent" before the card is created
    kind,       \* action, params_json, audit_decision and lane
    chatOf,     \* chat_id
    bound,      \* state_hash is not the sentinel "empty"
    posts,      \* channel_message_id: the number of the last message posted
    remind,     \* remind_at: none, in the future, or already due
    deferCount  \* defer_count

columns == <<kind, chatOf, bound>>
cardVars == <<created, status, kind, chatOf, bound, posts, remind, deferCount>>

-----------------------------------------------------------------------------
(* Statuses                                                                *)

Awaiting == {"open", "deferred"}
Terminal == {"blocked", "denied", "expired", "done", "failed"}
CardStatus == Awaiting \cup {"approved", "running"} \cup Terminal

Exists(c) == status[c] # "absent"

\* The awaiting cards of one chat, or of the user when there is no chat.
OpenCards(ch) ==
    {c \in Card : status[c] \in Awaiting /\ (ch = NoChat \/ chatOf[c] = ch)}

StoreInit ==
    /\ created = 0
    /\ status = [c \in Card |-> "absent"]
    /\ kind = [c \in Card |-> "plain"]
    /\ chatOf = [c \in Card |-> NoChat]
    /\ bound = [c \in Card |-> FALSE]
    /\ posts = [c \in Card |-> 0]
    /\ remind = [c \in Card |-> "none"]
    /\ deferCount = [c \in Card |-> 0]

StoreTypeOK ==
    /\ created \in 0..MaxCards
    /\ status \in [Card -> CardStatus \cup {"absent"}]
    /\ kind \in [Card -> CardKind]
    /\ chatOf \in [Card -> Chat \cup {NoChat}]
    /\ bound \in [Card -> BOOLEAN]
    /\ posts \in [Card -> Nat]
    /\ remind \in [Card -> {"none", "later", "due"}]
    /\ deferCount \in [Card -> Nat]

-----------------------------------------------------------------------------
(* Transactions                                                            *)

\* A mutant of Superseded: a card that was never posted stays.
SupersededIfPosted(ch) == {c \in Card : status[c] \in Awaiting /\ chatOf[c] = ch /\ posts[c] > 0}

\* The cards a new proposal in chat ch expires: a card proposed outside any
\* chat supersedes nothing.
Superseded(ch) ==
    IF ch = NoChat THEN {} ELSE {c \in Card : status[c] \in Awaiting /\ chatOf[c] = ch}

\* create_card: supersession and INSERT are one BEGIN IMMEDIATE transaction.
CreateCard(c, k, ch, b) ==
    /\ c = created + 1
    /\ c \in Card
    /\ created' = c
    /\ status' = [d \in Card |-> IF d = c THEN "open"
                                 ELSE IF d \in Superseded(ch) THEN "expired"
                                 ELSE status[d]]
    /\ kind' = [kind EXCEPT ![c] = k]
    /\ chatOf' = [chatOf EXCEPT ![c] = ch]
    /\ bound' = [bound EXCEPT ![c] = b]
    /\ UNCHANGED <<posts, remind, deferCount>>

\* A mutant of Allowed: every move is a plain UPDATE without a status guard.
AllowedFromAnywhere(move) == CardStatus

\* A mutant of Allowed: an approved card can be approved again.
AllowedTwice(move) ==
    CASE move \in {"approve", "deny", "expire", "defer"} -> Awaiting \cup {"approved"}
      [] move = "reopen" -> {"deferred"}
      [] move = "start" -> {"approved", "running"}
      [] move = "close" -> {"approved", "running"}
      [] move = "block" -> Awaiting \cup {"approved", "running"}

\* allow_from of each transition.
Allowed(move) ==
    CASE move \in {"approve", "deny", "expire", "defer"} -> Awaiting
      [] move = "reopen" -> {"deferred"}
      [] move = "start" -> {"approved"}
      [] move = "close" -> {"approved", "running"}
      [] move = "block" -> Awaiting \cup {"approved", "running"}

\* The UPDATE of a transition that finds its row.
Transition(c, move, new) ==
    /\ status[c] \in Allowed(move)
    /\ status' = [status EXCEPT ![c] = new]
    /\ UNCHANGED <<created, columns, posts>>

\* CardStoreError: the row is in no status the transition allows.
Refused(c, move) ==
    /\ status[c] \notin Allowed(move)
    /\ UNCHANGED cardVars

\* approve: the fingerprint the caller took is compared with the card's own;
\* a stale card expires instead of being approved.
Approve(c, fresh) ==
    /\ Transition(c, "approve", IF fresh THEN "approved" ELSE "expired")
    /\ UNCHANGED <<remind, deferCount>>

Deny(c) == Transition(c, "deny", "denied") /\ UNCHANGED <<remind, deferCount>>

Expire(c) == Transition(c, "expire", "expired") /\ UNCHANGED <<remind, deferCount>>

Block(c) == Transition(c, "block", "blocked") /\ UNCHANGED <<remind, deferCount>>

MarkRunning(c) == Transition(c, "start", "running") /\ UNCHANGED <<remind, deferCount>>

\* mark_done and mark_failed.
MarkClosed(c, ok) ==
    /\ Transition(c, "close", IF ok THEN "done" ELSE "failed")
    /\ UNCHANGED <<remind, deferCount>>

\* defer writes the counter computed from an earlier read of the row.
Defer(c, count, when) ==
    /\ Transition(c, "defer", "deferred")
    /\ remind' = [remind EXCEPT ![c] = when]
    /\ deferCount' = [deferCount EXCEPT ![c] = count + 1]

ReOpen(c) ==
    /\ Transition(c, "reopen", "open")
    /\ remind' = [remind EXCEPT ![c] = "none"]
    /\ UNCHANGED deferCount

\* attach_channel_message has no status guard.
AttachMessage(c) ==
    /\ posts' = [posts EXCEPT ![c] = @ + 1]
    /\ UNCHANGED <<created, status, columns, remind, deferCount>>

\* A mutant of DueReminders: it looks for reminders on open cards.
DueRemindersOfOpen == {c \in Card : status[c] = "open" /\ remind[c] = "due"}

\* find_due_reminders.
DueReminders == {c \in Card : status[c] = "deferred" /\ remind[c] = "due"}
=============================================================================
