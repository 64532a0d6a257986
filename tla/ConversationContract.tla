------------------------ MODULE ConversationContract ------------------------
(***************************************************************************)
(* What the conversation store promises, as InMemoryInboundStore keeps it: *)
(* commit and commitControl run one after the other (`exclusive`), so each *)
(* is one step.  An operation that stores nothing is no step at all.       *)
(***************************************************************************)
EXTENDS Naturals, FiniteSets

CONSTANTS
  Ids,         \* identifiers of the rows a request creates
  Leads,       \* leads
  Phones,      \* their telephones
  PhoneOf,     \* the telephone of a lead: [Leads -> Phones]
  MessageIds,  \* providerMessageId
  Bodies,      \* texts of messages
  ControlKeys  \* Idempotency-Key of control requests

VARIABLES
  customers,      \* [id, phone]
  links,          \* [customer, lead]
  conversations,  \* [id, customer, mode, version]
  messages,       \* [id, conversation, customer, lead, message, body]
  changes,        \* control changes: [id, conversation, mode, version]
  controlKeys     \* [key, conversation, mode, expected, change]

vars == <<customers, links, conversations, messages, changes, controlKeys>>

Modes == {"AI_ACTIVE", "HUMAN_CONTROL", "PAUSED"}

TypeOK ==
  /\ customers \subseteq [id: Ids, phone: Phones]
  /\ links \subseteq [customer: Ids, lead: Leads]
  /\ conversations \subseteq [id: Ids, customer: Ids, mode: Modes, version: Nat \ {0}]
  /\ messages \subseteq [id: Ids, conversation: Ids, customer: Ids, lead: Leads,
                         message: MessageIds, body: Bodies]
  /\ changes \subseteq [id: Ids, conversation: Ids, mode: Modes, version: Nat \ {0}]
  /\ controlKeys \subseteq [key: ControlKeys, conversation: Ids, mode: Modes,
                            expected: Nat \ {0}, change: Ids]

Init ==
  /\ customers = {} /\ links = {} /\ conversations = {}
  /\ messages = {} /\ changes = {} /\ controlKeys = {}

Used == {c.id : c \in customers} \cup {c.id : c \in conversations}
        \cup {m.id : m \in messages} \cup {c.id : c \in changes}

-----------------------------------------------------------------------------
(* commit *)

\* linkLead: the customer with this telephone, or a new one.
CustomerFor(id, phone) ==
  IF \E c \in customers : c.phone = phone
  THEN CHOOSE c \in customers : c.phone = phone
  ELSE [id |-> id, phone |-> phone]

FirstVersion == 1

\* The customer's conversation, or a new one in the mode of the write.
ConversationFor(id, customer, mode) ==
  IF \E c \in conversations : c.customer = customer
  THEN CHOOSE c \in conversations : c.customer = customer
  ELSE [id |-> id, customer |-> customer, mode |-> mode, version |-> FirstVersion]

\* A message whose provider id is new is stored with all that it needs.
Record(id, l, message, body, mode) ==
  LET customer == CustomerFor(id, PhoneOf[l])
      conversation == ConversationFor(id, customer.id, mode)
  IN /\ id \notin Used
     /\ \A m \in messages : m.message # message
     /\ customers' = customers \cup {customer}
     /\ links' = links \cup {[customer |-> customer.id, lead |-> l]}
     /\ conversations' = conversations \cup {conversation}
     /\ messages' = messages \cup
          {[id |-> id, conversation |-> conversation.id, customer |-> customer.id,
            lead |-> l, message |-> message, body |-> body]}
     /\ UNCHANGED <<changes, controlKeys>>

-----------------------------------------------------------------------------
(* commitControl *)

\* A request for the mode that the conversation is in changes nothing.
NewMode(c, mode) == c.mode # mode

\* A new mode for the version the client saw, unless the kill switch is on.
Change(id, k, c, mode, paused) ==
  /\ id \notin Used
  /\ \A row \in controlKeys : row.key # k
  /\ c \in conversations
  /\ NewMode(c, mode)
  /\ ~(paused /\ mode = "AI_ACTIVE")
  /\ conversations' = (conversations \ {c})
       \cup {[c EXCEPT !.mode = mode, !.version = c.version + 1]}
  /\ changes' = changes \cup
       {[id |-> id, conversation |-> c.id, mode |-> mode, version |-> c.version + 1]}
  /\ controlKeys' = controlKeys \cup
       {[key |-> k, conversation |-> c.id, mode |-> mode, expected |-> c.version,
         change |-> id]}
  /\ UNCHANGED <<customers, links, messages>>

Next ==
  \E id \in Ids :
    \/ \E l \in Leads, message \in MessageIds, body \in Bodies,
          mode \in {"AI_ACTIVE", "PAUSED"} : Record(id, l, message, body, mode)
    \/ \E k \in ControlKeys, c \in conversations, mode \in Modes, paused \in BOOLEAN :
          Change(id, k, c, mode, paused)

Spec == Init /\ [][Next]_vars

-----------------------------------------------------------------------------
(* Properties *)

(***************************************************************************)
(* Identity: one customer per telephone, one conversation per customer,    *)
(* and every message is in the conversation of the customer who has the    *)
(* telephone of its lead, to which that lead is linked.                    *)
(***************************************************************************)
OneThread ==
  /\ \A c, d \in customers : c.phone = d.phone => c = d
  /\ \A c, d \in conversations : c.customer = d.customer => c = d
  /\ \A m, n \in messages : m.message = n.message => m = n
  /\ \A m \in messages :
       /\ [id |-> m.customer, phone |-> PhoneOf[m.lead]] \in customers
       /\ [customer |-> m.customer, lead |-> m.lead] \in links
       /\ \E c \in conversations : c.id = m.conversation /\ c.customer = m.customer

(***************************************************************************)
(* The control changes of a conversation are its history: one for every    *)
(* version after the first, none without an effect, each under a key that  *)
(* made no other, and the last one is the mode it is in.                   *)
(***************************************************************************)
ControlHistory ==
  /\ \A c \in conversations :
       LET own == {h \in changes : h.conversation = c.id}
       IN /\ {h.version : h \in own} = 2..c.version
          /\ Cardinality(own) = c.version - 1
          /\ \A h \in own : h.version = c.version => h.mode = c.mode
          /\ \A h, g \in own : h.version = g.version + 1 => h.mode # g.mode
  /\ \A h \in changes : \E row \in controlKeys : row.change = h.id
  /\ \A row, other \in controlKeys :
       row.key = other.key \/ row.change = other.change => row = other

=============================================================================
