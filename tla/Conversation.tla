---------------------------- MODULE Conversation ----------------------------
(***************************************************************************)
(* Inbound messages and conversation control over Postgres: InboxService,  *)
(* AcceptInboundMessage and PostgresInboundStore.commit, and               *)
(* SetConversationControl with PostgresConversationControlStore.           *)
(*                                                                         *)
(* Every statement of a transaction is a step.  A transaction's own rows   *)
(* stay in its request until it commits; a statement that meets a lock or  *)
(* another transaction's uncommitted unique value waits; one that meets a  *)
(* committed unique value fails.  The two advisory locks of an inbound     *)
(* message, the row lock of a control request and the share lock that the  *)
(* message's foreign key takes on its conversation are the states that     *)
(* hold them.  Each request is sent once: a repeated delivery or a retry   *)
(* is another request with the same content.                               *)
(***************************************************************************)
EXTENDS Naturals, FiniteSets

CONSTANTS
  Requests,    \* requests, each sent once; also the rows' generated ids
  Leads,       \* leads
  Phones,      \* their telephones
  PhoneOf,     \* the telephone of a lead
  MessageIds,  \* providerMessageId
  Bodies,      \* texts of messages
  ControlKeys, \* Idempotency-Key of control requests
  Inbound,     \* what is delivered: lead, providerMessageId, body
  Control,     \* what operators ask for: key, mode
  Switch       \* values of AUTOMATION_PAUSED

Nil == "nil"

ASSUME ConversationAssumption ==
  /\ Nil \notin Requests
  /\ PhoneOf \in [Leads -> Phones]
  /\ Inbound \subseteq Leads \X MessageIds \X Bodies
  /\ Switch \subseteq BOOLEAN

VARIABLES
  customers,      \* customer.customers
  links,          \* customer.customer_leads
  conversations,  \* conversation.conversations
  messages,       \* conversation.messages
  changes,        \* conversation.control_changes
  controlKeys,    \* platform.idempotency_keys of conversation.control
  request         \* where each request is

store == <<customers, links, conversations, messages, changes, controlKeys>>
vars == <<store, request>>

Modes == {"AI_ACTIVE", "HUMAN_CONTROL", "PAUSED"}

ASSUME ControlAssumption == Control \subseteq ControlKeys \X Modes

-----------------------------------------------------------------------------
(* Requests *)

Unsent == [pc |-> "unsent"]

\* customer, conversation: the ids of InboundWrite replaced by those found;
\* mode: of InboundWrite, then the conversation's.
InboundRequests ==
  [pc: {"phone", "message", "lookup", "customer", "newCustomer", "conversation",
        "newConversation", "insert", "commit"},
   lead: Leads, message: MessageIds, body: Bodies,
   customer: Requests, conversation: Requests, mode: Modes]

ControlRequests ==
  [pc: {"replay", "row", "claim", "publish"},
   key: ControlKeys, conversation: Requests, mode: Modes, expected: Nat \ {0},
   paused: BOOLEAN]

\* `row` is the message answered.  Refused: a failure, a conflict or a crash.
Answers ==
  [pc: {"stored"}, row: Requests, message: MessageIds, body: Bodies]
  \cup [pc: {"controlled"}, mode: Modes, version: Nat \ {0}, allowed: BOOLEAN]
  \cup [pc: {"refused"}]

TypeOK ==
  /\ customers \subseteq [id: Requests, phone: Phones]
  /\ links \subseteq [customer: Requests, lead: Leads]
  /\ conversations \subseteq
       [id: Requests, customer: Requests, mode: Modes, version: Nat \ {0}]
  /\ messages \subseteq
       [id: Requests, conversation: Requests, customer: Requests, lead: Leads,
        message: MessageIds, body: Bodies, mode: Modes]
  /\ changes \subseteq
       [id: Requests, conversation: Requests, mode: Modes, version: Nat \ {0}]
  /\ controlKeys \subseteq
       [key: ControlKeys, conversation: Requests, mode: Modes, expected: Nat \ {0},
        change: Requests]
  /\ request \in [Requests -> {Unsent} \cup InboundRequests \cup ControlRequests \cup Answers]

Phone(q) == PhoneOf[q.lead]

\* The name an advisory lock is taken on.
LockNameUnprefixed(class, value) == value
LockName(class, value) == <<class, value>>

Phased(r, pcs) == request[r].pc \in pcs

\* Advisory locks are held to the end of the transaction.
Locks(r) ==
  LET q == request[r]
  IN (IF Phased(r, {"message", "lookup", "customer", "newCustomer", "conversation",
                    "newConversation", "insert", "commit"})
      THEN {LockName("phone", Phone(q))} ELSE {})
     \cup
     (IF Phased(r, {"lookup", "customer", "newCustomer", "conversation",
                    "newConversation", "insert", "commit"})
      THEN {LockName("message", q.message)} ELSE {})

MayLockAlways(r, name) == TRUE
MayLock(r, name) == \A s \in Requests \ {r} : name \notin Locks(s)

\* The conversation rows a request has locked for update.
RowLock(r) == IF Phased(r, {"claim", "publish"}) THEN {request[r].conversation} ELSE {}

\* An inserted message keeps its conversation from being locked for update.
ShareLock(r) == IF Phased(r, {"commit"}) THEN {request[r].conversation} ELSE {}

\* r's own uncommitted customer and conversation.
MadeCustomer(r) ==
  /\ Phased(r, {"conversation", "newConversation", "insert", "commit"})
  /\ request[r].customer = r
MadeConversation(r) ==
  Phased(r, {"insert", "commit"}) /\ request[r].conversation = r

-----------------------------------------------------------------------------

Init ==
  /\ customers = {} /\ links = {} /\ conversations = {}
  /\ messages = {} /\ changes = {} /\ controlKeys = {}
  /\ request = [r \in Requests |-> Unsent]

\* The request moves to pc, with nothing else changed.
Go(r, pc) == request' = [request EXCEPT ![r].pc = pc]

Answer(r, answer) == request' = [request EXCEPT ![r] = answer]

(***************************************************************************)
(* AcceptInboundMessage.execute: a write with fresh ids, in the mode of    *)
(* the kill switch.                                                        *)
(***************************************************************************)
Deliver(r) ==
  /\ request[r] = Unsent
  /\ \E w \in Inbound, paused \in Switch :
       Answer(r, [pc |-> "phone", lead |-> w[1], message |-> w[2], body |-> w[3],
                  customer |-> r, conversation |-> r,
                  mode |-> IF paused THEN "PAUSED" ELSE "AI_ACTIVE"])
  /\ UNCHANGED store

LockPhone(r) ==
  /\ Phased(r, {"phone"})
  /\ MayLock(r, LockName("phone", Phone(request[r])))
  /\ Go(r, "message")
  /\ UNCHANGED store

LockMessage(r) ==
  /\ Phased(r, {"message"})
  /\ MayLock(r, LockName("message", request[r].message))
  /\ Go(r, "lookup")
  /\ UNCHANGED store

\* The stored message is the one delivered: its text and telephone.
SameContent(m, q) == m.body = q.body /\ PhoneOf[m.lead] = Phone(q)

Stored(row, q) == [pc |-> "stored", row |-> row, message |-> q.message, body |-> q.body]

\* A message id stored before: DUPLICATE or CONFLICT.
FindMessage(r) ==
  LET q == request[r]
  IN /\ Phased(r, {"lookup"})
     /\ \/ \E m \in messages :
             /\ m.message = q.message
             /\ Answer(r, IF SameContent(m, q) THEN Stored(m.id, q) ELSE [pc |-> "refused"])
        \/ /\ \A m \in messages : m.message # q.message
           /\ Go(r, "customer")
     /\ UNCHANGED store

FindCustomer(r) ==
  LET q == request[r]
  IN /\ Phased(r, {"customer"})
     /\ \/ \E c \in customers :
             /\ c.phone = Phone(q)
             /\ request' = [request EXCEPT ![r].pc = "conversation", ![r].customer = c.id]
        \/ /\ \A c \in customers : c.phone # Phone(q)
           /\ Go(r, "newCustomer")
     /\ UNCHANGED store

\* phone_hash is unique, also among uncommitted rows.
InsertCustomer(r) ==
  LET q == request[r]
  IN /\ Phased(r, {"newCustomer"})
     /\ \A c \in customers : c.phone # Phone(q)
     /\ \A s \in Requests \ {r} : ~(MadeCustomer(s) /\ Phone(request[s]) = Phone(q))
     /\ Go(r, "conversation")
     /\ UNCHANGED store

\* The mode is read here and used when the message is inserted.
FindConversation(r) ==
  LET q == request[r]
  IN /\ Phased(r, {"conversation"})
     /\ \/ \E c \in conversations :
             /\ c.customer = q.customer
             /\ request' = [request EXCEPT ![r].pc = "insert", ![r].conversation = c.id,
                                           ![r].mode = c.mode]
        \/ /\ \A c \in conversations : c.customer # q.customer
           /\ Go(r, "newConversation")
     /\ UNCHANGED store

InsertConversation(r) ==
  LET q == request[r]
  IN /\ Phased(r, {"newConversation"})
     /\ \A c \in conversations : c.customer # q.customer
     /\ \A s \in Requests \ {r} : ~(MadeConversation(s) /\ request[s].customer = q.customer)
     /\ Go(r, "insert")
     /\ UNCHANGED store

\* The message, its inbox row, its event and its audit entry.
InsertMessage(r) ==
  LET q == request[r]
  IN /\ Phased(r, {"insert"})
     /\ \A m \in messages : m.message # q.message
     /\ \A s \in Requests \ {r} :
          /\ q.conversation \notin RowLock(s)
          /\ ~(Phased(s, {"commit"}) /\ request[s].message = q.message)
     /\ Go(r, "commit")
     /\ UNCHANGED store

\* Every lead of a customer is linked, not only the first.
LinksFirst(r, q) ==
  IF q.customer = r THEN {[customer |-> r, lead |-> q.lead]} ELSE {}
Links(r, q) == {[customer |-> q.customer, lead |-> q.lead]}

FirstVersionZero == 0
FirstVersion == 1

CommitMessage(r) ==
  LET q == request[r]
  IN /\ Phased(r, {"commit"})
     /\ customers' = customers \cup
          (IF q.customer = r THEN {[id |-> r, phone |-> Phone(q)]} ELSE {})
     /\ links' = links \cup Links(r, q)
     /\ conversations' = conversations \cup
          (IF q.conversation = r
           THEN {[id |-> r, customer |-> q.customer, mode |-> q.mode, version |-> FirstVersion]}
           ELSE {})
     /\ messages' = messages \cup
          {[id |-> r, conversation |-> q.conversation, customer |-> q.customer,
            lead |-> q.lead, message |-> q.message, body |-> q.body, mode |-> q.mode]}
     /\ Answer(r, Stored(r, q))
     /\ UNCHANGED <<changes, controlKeys>>

-----------------------------------------------------------------------------

\* SetConversationControl.execute, for a version the operator has seen.
Command(r) ==
  /\ request[r] = Unsent
  /\ \E w \in Control, c \in conversations, paused \in Switch :
       \E expected \in 1..c.version :
         Answer(r, [pc |-> "replay", key |-> w[1], conversation |-> c.id, mode |-> w[2],
                    expected |-> expected, paused |-> paused])
  /\ UNCHANGED store

\* allowsAutomatedReply
Allows(mode, paused) == mode = "AI_ACTIVE" /\ ~paused

Controlled(mode, version, q) ==
  [pc |-> "controlled", mode |-> mode, version |-> version, allowed |-> Allows(mode, q.paused)]

SameControl(row, q) ==
  row.conversation = q.conversation /\ row.mode = q.mode /\ row.expected = q.expected

\* A key used before is answered with the change it made.
FindKey(r) ==
  LET q == request[r]
  IN /\ Phased(r, {"replay"})
     /\ \/ \E row \in controlKeys :
             /\ row.key = q.key
             /\ \/ /\ SameControl(row, q)
                   /\ \E h \in changes :
                        h.id = row.change /\ Answer(r, Controlled(h.mode, h.version, q))
                \/ ~SameControl(row, q) /\ Answer(r, [pc |-> "refused"])
        \/ /\ \A row \in controlKeys : row.key # q.key
           /\ Go(r, "row")
     /\ UNCHANGED store

InModeNever(c, q) == FALSE
InMode(c, q) == c.mode = q.mode

ExpectedAny(c, q) == TRUE
Expected(c, q) == c.version = q.expected

\* SELECT FOR UPDATE, then the checks in their order.
LockConversation(r) ==
  LET q == request[r]
  IN /\ Phased(r, {"row"})
     /\ \A s \in Requests \ {r} : q.conversation \notin RowLock(s) \cup ShareLock(s)
     /\ \E c \in conversations :
          /\ c.id = q.conversation
          /\ \/ ~Expected(c, q) /\ Answer(r, [pc |-> "refused"])
             \/ /\ Expected(c, q)
                /\ q.paused /\ q.mode = "AI_ACTIVE"
                /\ Answer(r, [pc |-> "refused"])
             \/ /\ Expected(c, q)
                /\ ~(q.paused /\ q.mode = "AI_ACTIVE")
                /\ IF InMode(c, q)
                   THEN Answer(r, Controlled(c.mode, c.version, q))
                   ELSE Go(r, "claim")
     /\ UNCHANGED store

\* The update and the inserts up to the key, which must be new.
KeyFree(r) ==
  /\ \A row \in controlKeys : row.key # request[r].key
  /\ \A s \in Requests \ {r} : ~(Phased(s, {"publish"}) /\ request[s].key = request[r].key)

ClaimKey(r) ==
  /\ Phased(r, {"claim"})
  /\ KeyFree(r)
  /\ Go(r, "publish")
  /\ UNCHANGED store

CommitControl(r) ==
  LET q == request[r]
  IN /\ Phased(r, {"publish"})
     /\ \E c \in conversations :
          /\ c.id = q.conversation
          /\ conversations' = (conversations \ {c})
               \cup {[c EXCEPT !.mode = q.mode, !.version = c.version + 1]}
          /\ changes' = changes \cup
               {[id |-> r, conversation |-> c.id, mode |-> q.mode, version |-> c.version + 1]}
          /\ Answer(r, Controlled(q.mode, c.version + 1, q))
     /\ controlKeys' = controlKeys \cup
          {[key |-> q.key, conversation |-> q.conversation, mode |-> q.mode,
            expected |-> q.expected, change |-> r]}
     /\ UNCHANGED <<customers, links, messages>>

-----------------------------------------------------------------------------

Over == {"unsent", "stored", "controlled", "refused"}

\* A statement or a connection fails, or the process dies: rolled back.
Fail(r) ==
  /\ request[r].pc \notin Over
  /\ Answer(r, [pc |-> "refused"])
  /\ UNCHANGED store

Proceed(r) ==
  \/ LockPhone(r) \/ LockMessage(r) \/ FindMessage(r)
  \/ FindCustomer(r) \/ InsertCustomer(r)
  \/ FindConversation(r) \/ InsertConversation(r)
  \/ InsertMessage(r) \/ CommitMessage(r)
  \/ FindKey(r) \/ LockConversation(r) \/ ClaimKey(r) \/ CommitControl(r)

Next == \E r \in Requests : Deliver(r) \/ Command(r) \/ Proceed(r) \/ Fail(r)

Spec == Init /\ [][Next]_vars

\* A transaction runs on as long as no lock keeps it waiting.
LiveSpec == Spec /\ \A r \in Requests : WF_vars(Proceed(r))

-----------------------------------------------------------------------------
(* Properties *)

(***************************************************************************)
(* The store keeps the promise of the contract: every transaction has the  *)
(* effect of one step of the in-memory store.                              *)
(***************************************************************************)
Contract ==
  INSTANCE ConversationContract
    WITH Ids <- Requests,
         messages <- {[id |-> m.id, conversation |-> m.conversation, customer |-> m.customer,
                       lead |-> m.lead, message |-> m.message, body |-> m.body] :
                      m \in messages}

ImplementsContract == Contract!Spec

\* The history that the contract promises.
ControlHistory == Contract!ControlHistory

(***************************************************************************)
(* What a transaction has found missing stays missing until it commits, so *)
(* none of its inserts can meet a unique value.  Only the advisory locks   *)
(* see to that, taken before the first read.                               *)
(***************************************************************************)
MissingStaysMissing ==
  \A r \in Requests :
    LET q == request[r]
        Past(pcs) == Phased(r, pcs \cup {"insert", "commit"})
    IN /\ Past({"customer", "newCustomer", "conversation", "newConversation"}) =>
            \A m \in messages : m.message # q.message
       /\ Past({"newCustomer", "conversation", "newConversation"}) /\ q.customer = r =>
            \A c \in customers : c.phone # Phone(q)
       /\ Past({"newConversation"}) /\ q.conversation = r =>
            \A c \in conversations : c.customer # q.customer

(***************************************************************************)
(* Identity, as the contract states it; and however often a provider       *)
(* delivers a message, and however the deliveries overlap, all that are    *)
(* acknowledged name the same stored message, which has the text that was  *)
(* delivered.                                                              *)
(***************************************************************************)
OneThread ==
  /\ Contract!OneThread
  /\ \A r, s \in {r \in Requests : Phased(r, {"stored"})} :
       /\ \E m \in messages : /\ m.id = request[r].row
                              /\ m.message = request[r].message /\ m.body = request[r].body
       /\ request[r].message = request[s].message => request[r].row = request[s].row

(***************************************************************************)
(* Nobody waits for ever: message and control requests take their locks in *)
(* an order that lets every one of them end.                               *)
(***************************************************************************)
EveryRequestEnds ==
  \A r \in Requests : ~Phased(r, Over) ~> Phased(r, Over)

-----------------------------------------------------------------------------
(* What the documents say and the code does not do *)

ModeOf(c) == (CHOOSE row \in conversations : row.id = c).mode

(***************************************************************************)
(* INTEGRATION_CONTRACTS: "A later message keeps the current mode,         *)
(* including `HUMAN_CONTROL`": it is recorded, and announced, in the mode  *)
(* that its conversation has when it is recorded.                          *)
(***************************************************************************)
RecordedInCurrentMode ==
  [][\A m \in messages' \ messages :
       \A c \in conversations : c.id = m.conversation => m.mode = c.mode]_vars

(***************************************************************************)
(* INTEGRATION_CONTRACTS: "Automated reply is allowed only when the mode   *)
(* is `AI_ACTIVE` and automation is not paused."                           *)
(***************************************************************************)
AllowedOnlyWhileActive ==
  [][\A r \in Requests :
       Phased(r, {"replay", "row", "publish"}) /\ request'[r].pc = "controlled"
         /\ request'[r].allowed =>
           \E c \in conversations' :
             c.id = request[r].conversation /\ c.mode = "AI_ACTIVE"]_vars

=============================================================================
