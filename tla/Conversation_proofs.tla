------------------------- MODULE Conversation_proofs -------------------------
(***************************************************************************)
(* Theorems about Conversation, for every set of requests, leads, messages *)
(* and control keys.                                                       *)
(***************************************************************************)
EXTENDS Conversation, FiniteSetTheorems, TLAPS

-----------------------------------------------------------------------------
(* The inductive invariant: what each transaction knows of the store *)

MessageHeld == {"lookup", "customer", "newCustomer", "conversation", "newConversation",
                "insert", "commit"}
PhoneHeld == MessageHeld \cup {"message"}
RowHeld == {"claim", "publish"}

\* No two transactions hold one lock, or one uncommitted key.
Exclusive(r) ==
  \A s \in Requests \ {r} :
    /\ Phased(r, PhoneHeld) /\ Phased(s, PhoneHeld) =>
         Phone(request[r]) # Phone(request[s])
    /\ Phased(r, MessageHeld) /\ Phased(s, MessageHeld) =>
         request[r].message # request[s].message
    /\ Phased(r, RowHeld) /\ Phased(s, RowHeld) =>
         request[r].conversation # request[s].conversation
    /\ Phased(r, {"publish"}) /\ Phased(s, {"publish"}) =>
         request[r].key # request[s].key

Past(r, pcs) == Phased(r, pcs \cup {"insert", "commit"})

MissingMessage(r) ==
  Past(r, {"customer", "newCustomer", "conversation", "newConversation"}) =>
    \A m \in messages : m.message # request[r].message

MissingCustomer(r) ==
  Past(r, {"newCustomer", "conversation", "newConversation"}) /\ request[r].customer = r =>
    \A c \in customers : c.phone # Phone(request[r])

MissingConversation(r) ==
  Past(r, {"newConversation"}) /\ request[r].conversation = r =>
    \A c \in conversations : c.customer # request[r].customer

\* The ids a write comes with are its own until it finds others.
OwnIds(r) ==
  /\ Phased(r, {"phone", "message", "lookup", "customer", "newCustomer"}) =>
       request[r].customer = r
  /\ Phased(r, {"phone", "message", "lookup", "customer", "newCustomer", "conversation",
                "newConversation"}) =>
       request[r].conversation = r
  /\ Phased(r, PhoneHeld \cup {"phone"}) /\ request[r].conversation = r =>
       request[r].mode \in {"AI_ACTIVE", "PAUSED"}

\* What it has found is the one of its telephone, and of its customer.
FoundCustomer(r) ==
  Past(r, {"conversation", "newConversation"}) /\ request[r].customer # r =>
    [id |-> request[r].customer, phone |-> Phone(request[r])] \in customers

FoundConversation(r) ==
  Past(r, {}) /\ request[r].conversation # r =>
    \E c \in conversations :
      c.id = request[r].conversation /\ c.customer = request[r].customer

\* An acknowledged message is stored as it was delivered.
Acknowledged(r) ==
  Phased(r, {"stored"}) =>
    \E m \in messages :
      /\ m.id = request[r].row
      /\ m.message = request[r].message /\ m.body = request[r].body

\* The conversation stays as the control request found it, its key unused.
ControlKnows(r) ==
  /\ Phased(r, RowHeld) =>
       \E c \in conversations :
         /\ c.id = request[r].conversation
         /\ c.version = request[r].expected /\ c.mode # request[r].mode
         /\ ~(request[r].paused /\ request[r].mode = "AI_ACTIVE")
  /\ Phased(r, {"publish"}) => \A row \in controlKeys : row.key # request[r].key

Knows(r) ==
  /\ MissingMessage(r) /\ MissingCustomer(r) /\ MissingConversation(r)
  /\ OwnIds(r) /\ FoundCustomer(r) /\ FoundConversation(r)
  /\ Acknowledged(r) /\ ControlKnows(r)

\* A row has the id of a request that has been answered.
RowsAreDone ==
  /\ \A c \in customers : Phased(c.id, {"stored"})
  /\ \A c \in conversations : Phased(c.id, {"stored"}) /\ Phased(c.customer, {"stored"})
  /\ \A m \in messages : Phased(m.id, {"stored"})
  /\ \A h \in changes : Phased(h.id, {"controlled"})

UniqueIds ==
  /\ \A c, d \in customers : c.id = d.id => c = d
  /\ \A c, d \in conversations : c.id = d.id => c = d

\* Identity, as the contract states it.
Identity ==
  /\ \A c, d \in customers : c.phone = d.phone => c = d
  /\ \A c, d \in conversations : c.customer = d.customer => c = d
  /\ \A m, n \in messages : m.message = n.message => m = n
  /\ \A m \in messages :
       /\ [id |-> m.customer, phone |-> PhoneOf[m.lead]] \in customers
       /\ [customer |-> m.customer, lead |-> m.lead] \in links
       /\ \E c \in conversations : c.id = m.conversation /\ c.customer = m.customer

IInv ==
  /\ TypeOK /\ RowsAreDone /\ UniqueIds /\ Identity
  /\ \A r \in Requests : Exclusive(r) /\ Knows(r)

-----------------------------------------------------------------------------

LEMMA InboundFields ==
  ASSUME TypeOK, NEW r \in Requests, Phased(r, PhoneHeld \cup {"phone"})
  PROVE  request[r] \in InboundRequests
BY DEF TypeOK, Phased, PhoneHeld, MessageHeld, Unsent, ControlRequests, Answers

LEMMA ControlFields ==
  ASSUME TypeOK, NEW r \in Requests, Phased(r, {"replay", "row", "claim", "publish"})
  PROVE  request[r] \in ControlRequests
BY DEF TypeOK, Phased, Unsent, InboundRequests, Answers

\* The states a request can be in.
Phases == {Unsent} \cup InboundRequests \cup ControlRequests \cup Answers

LEMMA OneRequest ==
  ASSUME TypeOK, NEW r \in Requests, NEW p \in Phases,
         request' = [request EXCEPT ![r] = p]
  PROVE  /\ request'[r] = p
         /\ \A s \in Requests \ {r} : request'[s] = request[s]
         /\ request' \in [Requests -> Phases]
BY DEF TypeOK, Phases

\* A statement that commits nothing.
LEMMA QuietStep ==
  ASSUME IInv, UNCHANGED store, NEW r \in Requests, NEW p \in Phases,
         request' = [request EXCEPT ![r] = p],
         ~Phased(r, {"stored", "controlled"}), Exclusive(r)', Knows(r)'
  PROVE  IInv'
<1>1. /\ customers' = customers /\ links' = links /\ conversations' = conversations
      /\ messages' = messages /\ changes' = changes /\ controlKeys' = controlKeys
  BY DEF store
<1>2. /\ \A s \in Requests \ {r} : request'[s] = request[s]
      /\ request' \in [Requests -> Phases]
  BY OneRequest DEF IInv
<1>3. TypeOK'
  BY <1>1, <1>2 DEF IInv, TypeOK, Phases
<1>4. RowsAreDone'
  <2>1. /\ \A c \in customers : c.id \in Requests
        /\ \A c \in conversations : c.id \in Requests /\ c.customer \in Requests
        /\ \A m \in messages : m.id \in Requests
        /\ \A h \in changes : h.id \in Requests
    BY DEF IInv, TypeOK
  <2>2. \A i \in Requests, pc \in {"stored", "controlled"} : Phased(i, {pc}) => Phased(i, {pc})'
    BY <1>2 DEF Phased
  <2>3. QED
    BY <1>1, <2>1, <2>2 DEF IInv, RowsAreDone
<1>5. UniqueIds' /\ Identity'
  BY <1>1 DEF IInv, UniqueIds, Identity
<1>6. ASSUME NEW s \in Requests \ {r} PROVE Knows(s)'
  <2>1. Knows(s) /\ request'[s] = request[s]
    BY <1>2 DEF IInv
  <2>2. MissingMessage(s)' /\ MissingCustomer(s)' /\ MissingConversation(s)'
    BY <1>1, <2>1 DEF Knows, MissingMessage, MissingCustomer, MissingConversation, Past, Phased, Phone
  <2>3. OwnIds(s)' /\ FoundCustomer(s)' /\ FoundConversation(s)'
    BY <1>1, <2>1 DEF Knows, OwnIds, FoundCustomer, FoundConversation, Past, Phased, Phone
  <2>4. Acknowledged(s)' /\ ControlKnows(s)'
    BY <1>1, <2>1 DEF Knows, Acknowledged, ControlKnows, Phased
  <2>5. QED
    BY <2>2, <2>3, <2>4 DEF Knows
<1>7. ASSUME NEW s \in Requests \ {r} PROVE Exclusive(s)'
  BY <1>2 DEF IInv, Exclusive, Phased, Phone
<1>8. QED
  BY <1>3, <1>4, <1>5, <1>6, <1>7 DEF IInv

\* A request that holds no lock is in nobody's way.
LEMMA NoLock ==
  ASSUME NEW r \in Requests, NEW p, request'[r] = p, p.pc \notin PhoneHeld \cup RowHeld
  PROVE  Exclusive(r)'
BY DEF Exclusive, Phased, PhoneHeld, MessageHeld, RowHeld

\* A request that keeps its locks stays out of the way.
LEMMA SameLocks ==
  ASSUME IInv, NEW r \in Requests, NEW p \in Phases, request' = [request EXCEPT ![r] = p],
         Phased(r, MessageHeld), p.pc \in MessageHeld,
         p.lead = request[r].lead, p.message = request[r].message
  PROVE  Exclusive(r)'
<1>1. request'[r] = p /\ \A s \in Requests \ {r} : request'[s] = request[s]
  BY OneRequest DEF IInv
<1>2. QED
  BY <1>1 DEF IInv, Exclusive, Phased, PhoneHeld, MessageHeld, RowHeld, Phone

\* A message request that ends without a row.
LEMMA Refused ==
  ASSUME IInv, UNCHANGED store, NEW r \in Requests, ~Phased(r, {"stored", "controlled"}),
         request' = [request EXCEPT ![r] = [pc |-> "refused"]]
  PROVE  IInv'
<1> DEFINE p == [pc |-> "refused"]
<1>1. p \in Phases /\ p.pc = "refused"
  BY DEF Phases, Answers
<1> HIDE DEF p
<1>2. request' = [request EXCEPT ![r] = p]
  BY DEF p
<1>3. request'[r] = p
  BY <1>1, <1>2, OneRequest DEF IInv
<1>4. Exclusive(r)'
  BY <1>1, <1>3, NoLock DEF PhoneHeld, MessageHeld, RowHeld
<1>5. Knows(r)'
  BY <1>1, <1>3 DEF Knows, MissingMessage, MissingCustomer, MissingConversation, OwnIds,
     FoundCustomer, FoundConversation, Acknowledged, ControlKnows, Past, Phased, PhoneHeld,
     MessageHeld, RowHeld
<1>6. QED
  BY <1>1, <1>2, <1>4, <1>5, QuietStep

LEMMA FailStep == ASSUME IInv, NEW r \in Requests, Fail(r) PROVE IInv'
BY Refused DEF Fail, Answer, Over, Phased

-----------------------------------------------------------------------------
(* Inbound messages *)

LEMMA DeliverStep == ASSUME IInv, NEW r \in Requests, Deliver(r) PROVE IInv'
<1>1. PICK w \in Inbound, paused \in Switch :
        request' = [request EXCEPT ![r] =
          [pc |-> "phone", lead |-> w[1], message |-> w[2], body |-> w[3],
           customer |-> r, conversation |-> r,
           mode |-> IF paused THEN "PAUSED" ELSE "AI_ACTIVE"]]
  BY DEF Deliver, Answer
<1> DEFINE mode == IF paused THEN "PAUSED" ELSE "AI_ACTIVE"
           p == [pc |-> "phone", lead |-> w[1], message |-> w[2], body |-> w[3],
                 customer |-> r, conversation |-> r, mode |-> mode]
<1>2. w[1] \in Leads /\ w[2] \in MessageIds /\ w[3] \in Bodies
  BY ConversationAssumption
<1>3. mode \in {"AI_ACTIVE", "PAUSED"}
  OBVIOUS
<1>4. request' = [request EXCEPT ![r] = p] /\ UNCHANGED store /\ request[r].pc = "unsent"
  BY <1>1 DEF Deliver, Unsent
<1> HIDE DEF mode
<1>5. p \in InboundRequests /\ p.pc = "phone" /\ p.customer = r /\ p.conversation = r
      /\ p.mode = mode
  BY <1>2, <1>3 DEF InboundRequests, Modes
<1> HIDE DEF p
<1>6. p \in Phases
  BY <1>5 DEF Phases
<1>7. request'[r] = p
  BY <1>4, <1>6, OneRequest DEF IInv
<1>8. Exclusive(r)'
  BY <1>5, <1>7, NoLock DEF PhoneHeld, MessageHeld, RowHeld
<1>9. Knows(r)'
  BY <1>3, <1>5, <1>7 DEF Knows, MissingMessage, MissingCustomer, MissingConversation, OwnIds,
     FoundCustomer, FoundConversation, Acknowledged, ControlKnows, Past, Phased, PhoneHeld,
     MessageHeld, RowHeld
<1>10. QED
  BY <1>4, <1>6, <1>8, <1>9, QuietStep DEF Phased

LEMMA LockPhoneStep == ASSUME IInv, NEW r \in Requests, LockPhone(r) PROVE IInv'
<1> DEFINE q == request[r]
           p == [q EXCEPT !.pc = "message"]
<1>1. q \in InboundRequests /\ q.pc = "phone"
  BY InboundFields DEF LockPhone, Phased, IInv
<1>2. /\ p \in InboundRequests /\ p.pc = "message" /\ p.lead = q.lead
      /\ p.message = q.message /\ p.customer = q.customer
      /\ p.conversation = q.conversation /\ p.mode = q.mode
  BY <1>1 DEF InboundRequests
<1>3. request' = [request EXCEPT ![r] = p] /\ UNCHANGED store
  BY DEF LockPhone, Go
<1> HIDE DEF p
<1>4. p \in Phases
  BY <1>2 DEF Phases
<1>5. request'[r] = p /\ \A s \in Requests \ {r} : request'[s] = request[s]
  BY <1>3, <1>4, OneRequest DEF IInv
<1>6. ASSUME NEW s \in Requests \ {r}, Phased(s, PhoneHeld)
      PROVE  Phone(request[s]) # Phone(q)
  <2>1. LockName("phone", Phone(q)) \notin Locks(s)
    BY DEF LockPhone, MayLock
  <2>2. LockName("phone", Phone(request[s])) \in Locks(s)
    BY <1>6 DEF Locks, Phased, PhoneHeld, MessageHeld
  <2>3. QED
    BY <2>1, <2>2
<1>7. Exclusive(r)'
  BY <1>2, <1>5, <1>6 DEF Exclusive, Phased, PhoneHeld, MessageHeld, RowHeld, Phone
<1>8. Knows(r)
  BY DEF IInv
<1>9. Knows(r)'
  BY <1>1, <1>2, <1>5, <1>8 DEF Knows, MissingMessage, MissingCustomer, MissingConversation, OwnIds,
     FoundCustomer, FoundConversation, Acknowledged, ControlKnows, Past, Phased, PhoneHeld,
     MessageHeld, RowHeld
<1>10. QED
  BY <1>1, <1>3, <1>4, <1>7, <1>9, QuietStep DEF Phased

LEMMA LockMessageStep == ASSUME IInv, NEW r \in Requests, LockMessage(r) PROVE IInv'
<1> DEFINE q == request[r]
           p == [q EXCEPT !.pc = "lookup"]
<1>1. q \in InboundRequests /\ q.pc = "message"
  BY InboundFields DEF LockMessage, Phased, IInv, PhoneHeld
<1>2. /\ p \in InboundRequests /\ p.pc = "lookup" /\ p.lead = q.lead
      /\ p.message = q.message /\ p.customer = q.customer
      /\ p.conversation = q.conversation /\ p.mode = q.mode
  BY <1>1 DEF InboundRequests
<1>3. request' = [request EXCEPT ![r] = p] /\ UNCHANGED store
  BY DEF LockMessage, Go
<1> HIDE DEF p
<1>4. p \in Phases
  BY <1>2 DEF Phases
<1>5. request'[r] = p /\ \A s \in Requests \ {r} : request'[s] = request[s]
  BY <1>3, <1>4, OneRequest DEF IInv
<1>6. ASSUME NEW s \in Requests \ {r}, Phased(s, MessageHeld)
      PROVE  request[s].message # q.message
  <2>1. LockName("message", q.message) \notin Locks(s)
    BY DEF LockMessage, MayLock
  <2>2. LockName("message", request[s].message) \in Locks(s)
    BY <1>6 DEF Locks, Phased, MessageHeld
  <2>3. QED
    BY <2>1, <2>2
<1>7. \A s \in Requests \ {r} : Phased(s, PhoneHeld) => Phone(request[s]) # Phone(q)
  BY <1>1 DEF IInv, Exclusive, Phased, PhoneHeld, MessageHeld
<1>8. Exclusive(r)'
  BY <1>2, <1>5, <1>6, <1>7 DEF Exclusive, Phased, PhoneHeld, MessageHeld, RowHeld, Phone
<1>9. Knows(r)
  BY DEF IInv
<1>10. Knows(r)'
  BY <1>1, <1>2, <1>5, <1>9 DEF Knows, MissingMessage, MissingCustomer, MissingConversation, OwnIds,
     FoundCustomer, FoundConversation, Acknowledged, ControlKnows, Past, Phased, PhoneHeld,
     MessageHeld, RowHeld
<1>11. QED
  BY <1>1, <1>3, <1>4, <1>8, <1>10, QuietStep DEF Phased

\* A statement of a message's transaction, after its locks.
LEMMA MessageStep ==
  ASSUME IInv, UNCHANGED store, NEW r \in Requests, NEW p \in InboundRequests,
         request' = [request EXCEPT ![r] = p],
         Phased(r, MessageHeld), p.pc \in MessageHeld,
         p.lead = request[r].lead, p.message = request[r].message,
         Knows(r)'
  PROVE  IInv'
<1>1. p \in Phases /\ ~Phased(r, {"stored", "controlled"})
  BY DEF Phases, Phased, MessageHeld
<1>2. Exclusive(r)'
  BY <1>1, SameLocks
<1>3. QED
  BY <1>1, <1>2, QuietStep

LEMMA FindMessageStep == ASSUME IInv, NEW r \in Requests, FindMessage(r) PROVE IInv'
<1> DEFINE q == request[r]
<1>1. q \in InboundRequests /\ q.pc = "lookup" /\ Phased(r, MessageHeld) /\ UNCHANGED store
  BY InboundFields DEF FindMessage, Phased, IInv, PhoneHeld, MessageHeld
<1>2. messages' = messages /\ customers' = customers /\ conversations' = conversations
  BY <1>1 DEF store
<1>3. ASSUME NEW m \in messages, m.message = q.message, SameContent(m, q),
             request' = [request EXCEPT ![r] = Stored(m.id, q)]
      PROVE  IInv'
  <2> DEFINE p == Stored(m.id, q)
  <2>1. /\ p \in Answers /\ p.pc = "stored" /\ p.row = m.id /\ p.message = q.message
        /\ p.body = m.body
    BY <1>1, <1>3 DEF Stored, SameContent, Answers, InboundRequests, IInv, TypeOK
  <2>2. request' = [request EXCEPT ![r] = p]
    BY <1>3
  <2> HIDE DEF p
  <2>3. p \in Phases
    BY <2>1 DEF Phases
  <2>4. request'[r] = p
    BY <2>2, <2>3, OneRequest DEF IInv
  <2>5. Exclusive(r)'
    BY <2>1, <2>4, NoLock DEF PhoneHeld, MessageHeld, RowHeld
  <2>6. Knows(r)'
    BY <1>2, <1>3, <2>1, <2>4 DEF Knows, MissingMessage, MissingCustomer, MissingConversation, OwnIds,
     FoundCustomer, FoundConversation, Acknowledged, ControlKnows, Past, Phased, PhoneHeld,
     MessageHeld, RowHeld
  <2>7. QED
    BY <1>1, <2>2, <2>3, <2>5, <2>6, QuietStep DEF Phased
<1>4. ASSUME \A m \in messages : m.message # q.message, Go(r, "customer")
      PROVE  IInv'
  <2> DEFINE p == [q EXCEPT !.pc = "customer"]
  <2>1. /\ p \in InboundRequests /\ p.pc = "customer" /\ p.lead = q.lead
        /\ p.message = q.message /\ p.customer = q.customer
        /\ p.conversation = q.conversation /\ p.mode = q.mode
    BY <1>1 DEF InboundRequests
  <2>2. request' = [request EXCEPT ![r] = p]
    BY <1>4 DEF Go
  <2> HIDE DEF p
  <2>3. request'[r] = p /\ Knows(r)
    BY <1>1, <1>2, <1>4, <2>1, <2>2, OneRequest DEF IInv, Phases
  <2>4. Knows(r)'
    BY <1>1, <1>2, <1>4, <2>1, <2>2, <2>3 DEF Knows, MissingMessage, MissingCustomer, MissingConversation, OwnIds,
     FoundCustomer, FoundConversation, Acknowledged, ControlKnows, Past, Phased, PhoneHeld,
     MessageHeld, RowHeld
  <2>5. QED
    BY <1>1, <1>2, <1>4, <2>1, <2>2, <2>4, MessageStep DEF MessageHeld
<1>5. QED
  BY <1>1, <1>3, <1>4, Refused DEF FindMessage, Answer, Phased, MessageHeld

LEMMA FindCustomerStep == ASSUME IInv, NEW r \in Requests, FindCustomer(r) PROVE IInv'
<1> DEFINE q == request[r]
<1>1. q \in InboundRequests /\ q.pc = "customer" /\ Phased(r, MessageHeld) /\ UNCHANGED store
  BY InboundFields DEF FindCustomer, Phased, IInv, PhoneHeld, MessageHeld
<1>2. messages' = messages /\ customers' = customers /\ conversations' = conversations
  BY <1>1 DEF store
<1>3. ASSUME NEW c \in customers, c.phone = Phone(q),
             request' = [request EXCEPT ![r].pc = "conversation", ![r].customer = c.id]
      PROVE  IInv'
  <2> DEFINE p == [q EXCEPT !.pc = "conversation", !.customer = c.id]
  <2>1. c \in [id: Requests, phone: Phones] /\ c.id # r
    BY <1>1 DEF IInv, TypeOK, RowsAreDone, Phased
  <2>2. /\ p \in InboundRequests /\ p.pc = "conversation" /\ p.lead = q.lead
        /\ p.message = q.message /\ p.customer = c.id
        /\ p.conversation = q.conversation /\ p.mode = q.mode
    BY <1>1, <2>1 DEF InboundRequests
  <2>3. request' = [request EXCEPT ![r] = p]
    BY <1>3
  <2> HIDE DEF p
  <2>4. [id |-> p.customer, phone |-> Phone(p)] \in customers
    BY <1>3, <2>1, <2>2 DEF Phone
  <2>5. request'[r] = p /\ Knows(r)
    BY <1>1, <1>2, <2>1, <2>2, <2>3, <2>4, OneRequest DEF IInv, Phases
  <2>6. Knows(r)'
    BY <1>1, <1>2, <2>1, <2>2, <2>3, <2>4, <2>5 DEF Knows, MissingMessage, MissingCustomer, MissingConversation, OwnIds,
     FoundCustomer, FoundConversation, Acknowledged, ControlKnows, Past, Phased, PhoneHeld,
     MessageHeld, RowHeld
  <2>7. QED
    BY <1>1, <1>2, <2>1, <2>2, <2>3, <2>4, <2>6, MessageStep DEF MessageHeld
<1>4. ASSUME \A c \in customers : c.phone # Phone(q), Go(r, "newCustomer")
      PROVE  IInv'
  <2> DEFINE p == [q EXCEPT !.pc = "newCustomer"]
  <2>1. /\ p \in InboundRequests /\ p.pc = "newCustomer" /\ p.lead = q.lead
        /\ p.message = q.message /\ p.customer = q.customer
        /\ p.conversation = q.conversation /\ p.mode = q.mode
    BY <1>1 DEF InboundRequests
  <2>2. request' = [request EXCEPT ![r] = p]
    BY <1>4 DEF Go
  <2> HIDE DEF p
  <2>3. Phone(p) = Phone(q)
    BY <2>1 DEF Phone
  <2>4. request'[r] = p /\ Knows(r)
    BY <1>1, <1>2, <1>4, <2>1, <2>2, <2>3, OneRequest DEF IInv, Phases
  <2>5. Knows(r)'
    BY <1>1, <1>2, <1>4, <2>1, <2>2, <2>3, <2>4 DEF Knows, MissingMessage, MissingCustomer, MissingConversation, OwnIds,
     FoundCustomer, FoundConversation, Acknowledged, ControlKnows, Past, Phased, PhoneHeld,
     MessageHeld, RowHeld
  <2>6. QED
    BY <1>1, <1>2, <1>4, <2>1, <2>2, <2>3, <2>5, MessageStep DEF MessageHeld
<1>5. QED
  BY <1>3, <1>4 DEF FindCustomer

LEMMA InsertCustomerStep == ASSUME IInv, NEW r \in Requests, InsertCustomer(r) PROVE IInv'
<1> DEFINE q == request[r]
           p == [q EXCEPT !.pc = "conversation"]
<1>1. /\ q \in InboundRequests /\ q.pc = "newCustomer" /\ Phased(r, MessageHeld)
      /\ UNCHANGED store /\ q.customer = r
  BY InboundFields DEF InsertCustomer, Phased, IInv, Knows, OwnIds, PhoneHeld, MessageHeld
<1>2. messages' = messages /\ customers' = customers /\ conversations' = conversations
  BY <1>1 DEF store
<1>3. /\ p \in InboundRequests /\ p.pc = "conversation" /\ p.lead = q.lead
      /\ p.message = q.message /\ p.customer = q.customer
      /\ p.conversation = q.conversation /\ p.mode = q.mode
  BY <1>1 DEF InboundRequests
<1>4. request' = [request EXCEPT ![r] = p]
  BY DEF InsertCustomer, Go
<1> HIDE DEF p
<1>5. Phone(p) = Phone(q)
  BY <1>3 DEF Phone
<1>6. request'[r] = p /\ Knows(r)
  BY <1>1, <1>2, <1>3, <1>4, <1>5, OneRequest DEF IInv, Phases
<1>7. Knows(r)'
  BY <1>1, <1>2, <1>3, <1>4, <1>5, <1>6 DEF Knows, MissingMessage, MissingCustomer, MissingConversation, OwnIds,
     FoundCustomer, FoundConversation, Acknowledged, ControlKnows, Past, Phased, PhoneHeld,
     MessageHeld, RowHeld
<1>8. QED
  BY <1>1, <1>2, <1>3, <1>4, <1>5, <1>7, MessageStep DEF MessageHeld

LEMMA FindConversationStep ==
  ASSUME IInv, NEW r \in Requests, FindConversation(r)
  PROVE  IInv'
<1> DEFINE q == request[r]
<1>1. /\ q \in InboundRequests /\ q.pc = "conversation" /\ Phased(r, MessageHeld)
      /\ UNCHANGED store
  BY InboundFields DEF FindConversation, Phased, IInv, PhoneHeld, MessageHeld
<1>2. messages' = messages /\ customers' = customers /\ conversations' = conversations
  BY <1>1 DEF store
<1>3. ASSUME NEW c \in conversations, c.customer = q.customer,
             request' = [request EXCEPT ![r].pc = "insert", ![r].conversation = c.id,
                                        ![r].mode = c.mode]
      PROVE  IInv'
  <2> DEFINE p == [q EXCEPT !.pc = "insert", !.conversation = c.id, !.mode = c.mode]
  <2>1. c.id \in Requests /\ c.mode \in Modes /\ c.id # r /\ c.customer # r
    BY <1>1 DEF IInv, TypeOK, RowsAreDone, Phased
  <2>2. /\ p \in InboundRequests /\ p.pc = "insert" /\ p.lead = q.lead
        /\ p.message = q.message /\ p.customer = q.customer
        /\ p.conversation = c.id /\ p.mode = c.mode
    BY <1>1, <2>1 DEF InboundRequests
  <2>3. request' = [request EXCEPT ![r] = p]
    BY <1>3
  <2> HIDE DEF p
  <2>4. Phone(p) = Phone(q)
    BY <2>2 DEF Phone
  <2>5. request'[r] = p /\ Knows(r)
    BY <1>1, <1>2, <1>3, <2>1, <2>2, <2>3, <2>4, OneRequest DEF IInv, Phases
  <2>6. Knows(r)'
    BY <1>1, <1>2, <1>3, <2>1, <2>2, <2>3, <2>4, <2>5 DEF Knows, MissingMessage, MissingCustomer, MissingConversation, OwnIds,
     FoundCustomer, FoundConversation, Acknowledged, ControlKnows, Past, Phased, PhoneHeld,
     MessageHeld, RowHeld
  <2>7. QED
    BY <1>1, <1>2, <1>3, <2>1, <2>2, <2>3, <2>4, <2>6, MessageStep DEF MessageHeld
<1>4. ASSUME \A c \in conversations : c.customer # q.customer, Go(r, "newConversation")
      PROVE  IInv'
  <2> DEFINE p == [q EXCEPT !.pc = "newConversation"]
  <2>1. /\ p \in InboundRequests /\ p.pc = "newConversation" /\ p.lead = q.lead
        /\ p.message = q.message /\ p.customer = q.customer
        /\ p.conversation = q.conversation /\ p.mode = q.mode
    BY <1>1 DEF InboundRequests
  <2>2. request' = [request EXCEPT ![r] = p]
    BY <1>4 DEF Go
  <2> HIDE DEF p
  <2>3. Phone(p) = Phone(q)
    BY <2>1 DEF Phone
  <2>4. request'[r] = p /\ Knows(r)
    BY <1>1, <1>2, <1>4, <2>1, <2>2, <2>3, OneRequest DEF IInv, Phases
  <2>5. Knows(r)'
    BY <1>1, <1>2, <1>4, <2>1, <2>2, <2>3, <2>4 DEF Knows, MissingMessage, MissingCustomer, MissingConversation, OwnIds,
     FoundCustomer, FoundConversation, Acknowledged, ControlKnows, Past, Phased, PhoneHeld,
     MessageHeld, RowHeld
  <2>6. QED
    BY <1>1, <1>2, <1>4, <2>1, <2>2, <2>3, <2>5, MessageStep DEF MessageHeld
<1>5. QED
  BY <1>3, <1>4 DEF FindConversation

LEMMA InsertConversationStep ==
  ASSUME IInv, NEW r \in Requests, InsertConversation(r)
  PROVE  IInv'
<1> DEFINE q == request[r]
           p == [q EXCEPT !.pc = "insert"]
<1>1. /\ q \in InboundRequests /\ q.pc = "newConversation" /\ Phased(r, MessageHeld)
      /\ UNCHANGED store /\ q.conversation = r
  BY InboundFields DEF InsertConversation, Phased, IInv, Knows, OwnIds, PhoneHeld, MessageHeld
<1>2. messages' = messages /\ customers' = customers /\ conversations' = conversations
  BY <1>1 DEF store
<1>3. /\ p \in InboundRequests /\ p.pc = "insert" /\ p.lead = q.lead
      /\ p.message = q.message /\ p.customer = q.customer
      /\ p.conversation = q.conversation /\ p.mode = q.mode
  BY <1>1 DEF InboundRequests
<1>4. request' = [request EXCEPT ![r] = p]
  BY DEF InsertConversation, Go
<1> HIDE DEF p
<1>5. Phone(p) = Phone(q)
  BY <1>3 DEF Phone
<1>6. request'[r] = p /\ Knows(r)
  BY <1>1, <1>2, <1>3, <1>4, <1>5, OneRequest DEF IInv, Phases
<1>7. Knows(r)'
  BY <1>1, <1>2, <1>3, <1>4, <1>5, <1>6 DEF Knows, MissingMessage, MissingCustomer, MissingConversation, OwnIds,
     FoundCustomer, FoundConversation, Acknowledged, ControlKnows, Past, Phased, PhoneHeld,
     MessageHeld, RowHeld
<1>8. QED
  BY <1>1, <1>2, <1>3, <1>4, <1>5, <1>7, MessageStep DEF MessageHeld

LEMMA InsertMessageStep ==
  ASSUME IInv, NEW r \in Requests, InsertMessage(r)
  PROVE  IInv'
<1> DEFINE q == request[r]
           p == [q EXCEPT !.pc = "commit"]
<1>1. /\ q \in InboundRequests /\ q.pc = "insert" /\ Phased(r, MessageHeld)
      /\ UNCHANGED store
  BY InboundFields DEF InsertMessage, Phased, IInv, PhoneHeld, MessageHeld
<1>2. messages' = messages /\ customers' = customers /\ conversations' = conversations
  BY <1>1 DEF store
<1>3. /\ p \in InboundRequests /\ p.pc = "commit" /\ p.lead = q.lead
      /\ p.message = q.message /\ p.customer = q.customer
      /\ p.conversation = q.conversation /\ p.mode = q.mode
  BY <1>1 DEF InboundRequests
<1>4. request' = [request EXCEPT ![r] = p]
  BY DEF InsertMessage, Go
<1> HIDE DEF p
<1>5. Phone(p) = Phone(q)
  BY <1>3 DEF Phone
<1>6. request'[r] = p /\ Knows(r)
  BY <1>1, <1>2, <1>3, <1>4, <1>5, OneRequest DEF IInv, Phases
<1>7. Knows(r)'
  BY <1>1, <1>2, <1>3, <1>4, <1>5, <1>6 DEF Knows, MissingMessage, MissingCustomer, MissingConversation, OwnIds,
     FoundCustomer, FoundConversation, Acknowledged, ControlKnows, Past, Phased, PhoneHeld,
     MessageHeld, RowHeld
<1>8. QED
  BY <1>1, <1>2, <1>3, <1>4, <1>5, <1>7, MessageStep DEF MessageHeld

LEMMA CommitMessageStep ==
  ASSUME IInv, NEW r \in Requests, CommitMessage(r)
  PROVE  IInv'
<1> DEFINE q == request[r]
           phone == Phone(q)
           customer == [id |-> r, phone |-> phone]
           conversation == [id |-> r, customer |-> q.customer, mode |-> q.mode, version |-> 1]
           message == [id |-> r, conversation |-> q.conversation, customer |-> q.customer,
                       lead |-> q.lead, message |-> q.message, body |-> q.body, mode |-> q.mode]
           link == [customer |-> q.customer, lead |-> q.lead]
           p == Stored(r, q)
<1>1. q \in InboundRequests /\ q.pc = "commit"
  BY InboundFields DEF CommitMessage, Phased, IInv, PhoneHeld, MessageHeld
<1>2. /\ customers \subseteq customers'
      /\ \A c \in customers' : c \in customers \/ (q.customer = r /\ c = customer)
      /\ q.customer = r => customer \in customers'
  BY DEF CommitMessage
<1>3. /\ conversations \subseteq conversations'
      /\ \A c \in conversations' : c \in conversations \/ (q.conversation = r /\ c = conversation)
      /\ q.conversation = r => conversation \in conversations'
  BY DEF CommitMessage, FirstVersion
<1>4. /\ messages' = messages \cup {message} /\ links' = links \cup {link}
      /\ changes' = changes /\ controlKeys' = controlKeys
      /\ request' = [request EXCEPT ![r] = p]
  BY DEF CommitMessage, Links, Answer
<1>5. /\ p \in Answers /\ p.pc = "stored" /\ p.row = r /\ p.message = q.message
      /\ p.body = q.body
  BY <1>1 DEF Stored, Answers, InboundRequests
<1>6. /\ q.customer \in Requests /\ q.conversation \in Requests /\ q.lead \in Leads
      /\ q.message \in MessageIds /\ q.body \in Bodies /\ q.mode \in Modes
      /\ phone \in Phones /\ phone = PhoneOf[q.lead]
  BY <1>1, ConversationAssumption DEF InboundRequests, Phone
<1> HIDE DEF p, phone
<1>7. p \in Phases
  BY <1>5 DEF Phases
<1>8. /\ request'[r] = p /\ \A s \in Requests \ {r} : request'[s] = request[s]
      /\ request' \in [Requests -> Phases]
  BY <1>4, <1>7, OneRequest DEF IInv
<1>9. /\ customer \in [id: Requests, phone: Phones] /\ link \in [customer: Requests, lead: Leads]
      /\ conversation \in [id: Requests, customer: Requests, mode: Modes, version: Nat \ {0}]
      /\ message \in [id: Requests, conversation: Requests, customer: Requests, lead: Leads,
                       message: MessageIds, body: Bodies, mode: Modes]
  BY <1>6
<1>10. /\ customer.id = r /\ customer.phone = phone
       /\ conversation.id = r /\ conversation.customer = q.customer
       /\ message.id = r /\ message.conversation = q.conversation /\ message.body = q.body
       /\ message.customer = q.customer /\ message.lead = q.lead /\ message.message = q.message
  OBVIOUS
<1> HIDE DEF customer, conversation, message
<1>11. TypeOK'
  <2>1. TypeOK
    BY DEF IInv
  <2>2. customers' \subseteq [id: Requests, phone: Phones]
    BY <1>2, <1>9, <2>1 DEF TypeOK
  <2>3. conversations' \subseteq
          [id: Requests, customer: Requests, mode: Modes, version: Nat \ {0}]
    BY <1>3, <1>9, <2>1 DEF TypeOK
  <2>4. messages' \subseteq
          [id: Requests, conversation: Requests, customer: Requests, lead: Leads,
           message: MessageIds, body: Bodies, mode: Modes]
    BY <1>4, <1>9, <2>1 DEF TypeOK
  <2>5. links' \subseteq [customer: Requests, lead: Leads]
    BY <1>4, <1>9, <2>1 DEF TypeOK
  <2>6. QED
    BY <1>4, <1>8, <2>1, <2>2, <2>3, <2>4, <2>5 DEF TypeOK, Phases
<1>12. /\ MissingMessage(r) /\ MissingCustomer(r) /\ MissingConversation(r)
       /\ FoundCustomer(r) /\ FoundConversation(r)
  BY DEF IInv, Knows
<1>13. /\ \A m \in messages : m.message # q.message
       /\ q.customer = r => \A c \in customers : c.phone # phone
       /\ q.conversation = r => \A c \in conversations : c.customer # q.customer
       /\ q.customer # r => [id |-> q.customer, phone |-> phone] \in customers
       /\ q.conversation # r =>
            \E c \in conversations : c.id = q.conversation /\ c.customer = q.customer
  BY <1>1, <1>12 DEF MissingMessage, MissingCustomer, MissingConversation, FoundCustomer,
     FoundConversation, Past, Phased, phone
<1>14. q.customer # r => Phased(q.customer, {"stored"}) /\ q.customer \in Requests \ {r}
  BY <1>6, <1>13 DEF IInv, RowsAreDone
<1>15. /\ \A c \in customers : c.id # r
       /\ \A c \in conversations : c.id # r /\ c.customer # r
  BY <1>1 DEF IInv, RowsAreDone, Phased
<1>16. RowsAreDone'
  <2>1. \A i \in Requests, pc \in {"stored", "controlled"} : Phased(i, {pc}) => Phased(i, {pc})'
    BY <1>1, <1>8 DEF Phased
  <2>2. request'[r].pc = "stored" /\ request'[q.customer].pc = "stored"
    BY <1>5, <1>6, <1>8, <1>14 DEF Phased
  <2>3. /\ \A c \in customers : c.id \in Requests
        /\ \A c \in conversations : c.id \in Requests /\ c.customer \in Requests
        /\ \A m \in messages : m.id \in Requests
        /\ \A h \in changes : h.id \in Requests
    BY DEF IInv, TypeOK
  <2>4. \A c \in customers' : Phased(c.id, {"stored"})'
    BY <1>2, <1>10, <2>1, <2>2, <2>3 DEF IInv, RowsAreDone, Phased
  <2>5. \A c \in conversations' : Phased(c.id, {"stored"})' /\ Phased(c.customer, {"stored"})'
    BY <1>3, <1>10, <2>1, <2>2, <2>3 DEF IInv, RowsAreDone, Phased
  <2>6. \A m \in messages' : Phased(m.id, {"stored"})'
    BY <1>4, <1>10, <2>1, <2>2, <2>3 DEF IInv, RowsAreDone, Phased
  <2>7. \A h \in changes' : Phased(h.id, {"controlled"})'
    BY <1>4, <2>1, <2>3 DEF IInv, RowsAreDone
  <2>8. QED
    BY <2>4, <2>5, <2>6, <2>7 DEF RowsAreDone
<1>17. UniqueIds'
  BY <1>2, <1>3, <1>10, <1>15 DEF IInv, UniqueIds
<1>18. Identity'
  <2>1. \A c, d \in customers' : c.phone = d.phone => c = d
    BY <1>2, <1>10, <1>13 DEF IInv, Identity
  <2>2. \A c, d \in conversations' : c.customer = d.customer => c = d
    BY <1>3, <1>10, <1>13 DEF IInv, Identity
  <2>3. \A m, n \in messages' : m.message = n.message => m = n
    BY <1>4, <1>10, <1>13 DEF IInv, Identity
  <2>4. [id |-> q.customer, phone |-> phone] \in customers'
    BY <1>2, <1>13 DEF customer
  <2>5. \E c \in conversations' : c.id = q.conversation /\ c.customer = q.customer
    BY <1>3, <1>10, <1>13
  <2>6. \A m \in messages' :
          /\ [id |-> m.customer, phone |-> PhoneOf[m.lead]] \in customers'
          /\ [customer |-> m.customer, lead |-> m.lead] \in links'
          /\ \E c \in conversations' : c.id = m.conversation /\ c.customer = m.customer
    BY <1>2, <1>3, <1>4, <1>6, <1>10, <2>4, <2>5 DEF IInv, Identity
  <2>7. QED
    BY <2>1, <2>2, <2>3, <2>6 DEF Identity
<1>19. ASSUME NEW s \in Requests \ {r} PROVE Knows(s)'
  <2>1. Knows(s) /\ request'[s] = request[s] /\ Exclusive(s)
    BY <1>8 DEF IInv
  <2>2. /\ Phased(s, MessageHeld) => request[s].message # q.message
        /\ Phased(s, PhoneHeld) => Phone(request[s]) # phone
    BY <1>1, <2>1 DEF Exclusive, Phased, PhoneHeld, MessageHeld, phone
  <2>3. MissingMessage(s)'
    BY <1>4, <1>10, <2>1, <2>2 DEF Knows, MissingMessage, Past, Phased, MessageHeld
  <2>4. MissingCustomer(s)'
    BY <1>2, <1>10, <2>1, <2>2
       DEF Knows, MissingCustomer, Past, Phased, PhoneHeld, MessageHeld, Phone
  <2>5. Past(s, {"newConversation"}) => q.customer # request[s].customer
    <3>1. SUFFICES ASSUME Past(s, {"newConversation"}), q.customer = request[s].customer
                   PROVE  FALSE
      OBVIOUS
    <3>2. Phone(request[s]) # phone
      BY <2>2, <3>1 DEF Past, Phased, PhoneHeld, MessageHeld
    <3>3. ~Phased(s, {"stored"}) /\ ~Phased(r, {"stored"})
      BY <1>1, <3>1 DEF Past, Phased
    <3>4. q.customer # s
      BY <1>14, <3>3
    <3>5. [id |-> request[s].customer, phone |-> Phone(request[s])] \in customers
      BY <2>1, <3>1, <3>4 DEF Knows, FoundCustomer, Past, Phased
    <3>6. q.customer # r
      BY <1>15, <3>1, <3>5
    <3>7. [id |-> q.customer, phone |-> phone] = [id |-> request[s].customer, phone |-> Phone(request[s])]
      BY <1>13, <3>1, <3>5, <3>6 DEF IInv, UniqueIds
    <3>8. QED
      BY <3>2, <3>7
  <2>6. MissingConversation(s)'
    BY <1>3, <1>10, <2>1, <2>5 DEF Knows, MissingConversation, Past, Phased
  <2>7. OwnIds(s)' /\ FoundCustomer(s)' /\ FoundConversation(s)'
    BY <1>2, <1>3, <2>1 DEF Knows, OwnIds, FoundCustomer, FoundConversation, Past, Phased, Phone
  <2>8. Acknowledged(s)'
    BY <1>4, <2>1 DEF Knows, Acknowledged, Phased
  <2>9. ControlKnows(s)'
    BY <1>3, <1>4, <2>1 DEF Knows, ControlKnows, Phased
  <2>10. QED
    BY <2>3, <2>4, <2>6, <2>7, <2>8, <2>9 DEF Knows
<1>20. Knows(r)'
  <2>1. \E m \in messages' : m.id = p.row /\ m.message = p.message /\ m.body = p.body
    BY <1>4, <1>5, <1>10
  <2>2. QED
    BY <1>5, <1>8, <2>1 DEF Knows, MissingMessage, MissingCustomer, MissingConversation, OwnIds,
     FoundCustomer, FoundConversation, Acknowledged, ControlKnows, Past, Phased, PhoneHeld,
     MessageHeld, RowHeld
<1>21. \A s \in Requests : Exclusive(s)'
  <2>1. Exclusive(r)'
    BY <1>5, <1>8, NoLock DEF PhoneHeld, MessageHeld, RowHeld
  <2>2. QED
    BY <1>8, <2>1 DEF IInv, Exclusive, Phased, Phone
<1>22. QED
  BY <1>11, <1>16, <1>17, <1>18, <1>19, <1>20, <1>21 DEF IInv

-----------------------------------------------------------------------------
(* Control requests *)

\* A control request that answers, or has no lock yet, with nothing stored.
LEMMA UnlockedStep ==
  ASSUME IInv, UNCHANGED store, NEW r \in Requests, NEW p \in Phases,
         request' = [request EXCEPT ![r] = p], ~Phased(r, {"stored", "controlled"}),
         p.pc \in {"replay", "row", "controlled", "refused"}
  PROVE  IInv'
<1>1. request'[r] = p
  BY OneRequest DEF IInv
<1>2. Exclusive(r)'
  BY <1>1, NoLock DEF PhoneHeld, MessageHeld, RowHeld
<1>3. Knows(r)'
  BY <1>1 DEF Knows, MissingMessage, MissingCustomer, MissingConversation, OwnIds,
     FoundCustomer, FoundConversation, Acknowledged, ControlKnows, Past, Phased, PhoneHeld,
     MessageHeld, RowHeld
<1>4. QED
  BY <1>2, <1>3, QuietStep

LEMMA CommandStep == ASSUME IInv, NEW r \in Requests, Command(r) PROVE IInv'
<1>1. PICK w \in Control, c \in conversations, paused \in Switch :
        \E expected \in 1..c.version :
          request' = [request EXCEPT ![r] =
            [pc |-> "replay", key |-> w[1], conversation |-> c.id, mode |-> w[2],
             expected |-> expected, paused |-> paused]]
  BY DEF Command, Answer
<1>2. PICK expected \in 1..c.version :
        request' = [request EXCEPT ![r] =
          [pc |-> "replay", key |-> w[1], conversation |-> c.id, mode |-> w[2],
           expected |-> expected, paused |-> paused]]
  BY <1>1
<1> DEFINE p == [pc |-> "replay", key |-> w[1], conversation |-> c.id, mode |-> w[2],
                 expected |-> expected, paused |-> paused]
<1>3. w[1] \in ControlKeys /\ w[2] \in Modes /\ paused \in BOOLEAN
  BY ConversationAssumption, ControlAssumption
<1>4. c.id \in Requests /\ c.version \in Nat \ {0}
  BY DEF IInv, TypeOK
<1>5. expected \in Nat \ {0}
  BY <1>4
<1>6. p \in ControlRequests /\ p.pc = "replay"
  BY <1>3, <1>4, <1>5 DEF ControlRequests
<1>7. request' = [request EXCEPT ![r] = p] /\ UNCHANGED store /\ request[r].pc = "unsent"
  BY <1>2 DEF Command, Unsent
<1> HIDE DEF p
<1>8. p \in Phases
  BY <1>6 DEF Phases
<1>9. QED
  BY <1>6, <1>7, <1>8, UnlockedStep DEF Phased

\* What a control request is answered with.
LEMMA ControlledType ==
  ASSUME NEW mode \in Modes, NEW version \in Nat \ {0}, NEW q \in ControlRequests
  PROVE  /\ Controlled(mode, version, q) \in Phases
         /\ Controlled(mode, version, q).pc = "controlled"
<1>1. Allows(mode, q.paused) \in BOOLEAN
  BY DEF Allows
<1>2. QED
  BY <1>1 DEF Controlled, Phases, Answers

LEMMA FindKeyStep == ASSUME IInv, NEW r \in Requests, FindKey(r) PROVE IInv'
<1> DEFINE q == request[r]
<1>1. /\ q \in ControlRequests /\ q.pc = "replay" /\ UNCHANGED store
      /\ ~Phased(r, {"stored", "controlled"})
  BY ControlFields DEF FindKey, Phased, IInv
<1>2. ASSUME NEW h \in changes, Answer(r, Controlled(h.mode, h.version, q))
      PROVE  IInv'
  <2>1. h.mode \in Modes /\ h.version \in Nat \ {0}
    BY DEF IInv, TypeOK
  <2> DEFINE p == Controlled(h.mode, h.version, q)
  <2>2. p \in Phases /\ p.pc = "controlled"
    BY <1>1, <2>1, ControlledType
  <2>3. request' = [request EXCEPT ![r] = p]
    BY <1>2 DEF Answer
  <2> HIDE DEF p
  <2>4. QED
    BY <1>1, <2>2, <2>3, UnlockedStep
<1>3. ASSUME Go(r, "row") PROVE IInv'
  <2> DEFINE p == [q EXCEPT !.pc = "row"]
  <2>1. p \in ControlRequests /\ p.pc = "row"
    BY <1>1 DEF ControlRequests
  <2>2. request' = [request EXCEPT ![r] = p]
    BY <1>3 DEF Go
  <2> HIDE DEF p
  <2>3. p \in Phases
    BY <2>1 DEF Phases
  <2>4. QED
    BY <1>1, <2>1, <2>2, <2>3, UnlockedStep
<1>4. QED
  BY <1>1, <1>2, <1>3, Refused DEF FindKey, Answer

LEMMA LockConversationStep ==
  ASSUME IInv, NEW r \in Requests, LockConversation(r)
  PROVE  IInv'
<1> DEFINE q == request[r]
<1>1. /\ q \in ControlRequests /\ q.pc = "row" /\ UNCHANGED store
      /\ ~Phased(r, {"stored", "controlled"})
  BY ControlFields DEF LockConversation, Phased, IInv
<1>2. PICK c \in conversations :
        /\ c.id = q.conversation
        /\ \/ Answer(r, [pc |-> "refused"])
           \/ Answer(r, Controlled(c.mode, c.version, q))
           \/ /\ c.version = q.expected /\ c.mode # q.mode
              /\ ~(q.paused /\ q.mode = "AI_ACTIVE")
              /\ Go(r, "claim")
  BY DEF LockConversation, Expected, InMode
<1>3. CASE Answer(r, [pc |-> "refused"])
  BY <1>1, <1>3, Refused DEF Answer
<1>4. CASE Answer(r, Controlled(c.mode, c.version, q))
  <2>1. c.mode \in Modes /\ c.version \in Nat \ {0}
    BY DEF IInv, TypeOK
  <2> DEFINE p == Controlled(c.mode, c.version, q)
  <2>2. p \in Phases /\ p.pc = "controlled"
    BY <1>1, <2>1, ControlledType
  <2>3. request' = [request EXCEPT ![r] = p]
    BY <1>4 DEF Answer
  <2> HIDE DEF p
  <2>4. QED
    BY <1>1, <2>2, <2>3, UnlockedStep
<1>5. CASE /\ c.version = q.expected /\ c.mode # q.mode
           /\ ~(q.paused /\ q.mode = "AI_ACTIVE")
           /\ Go(r, "claim")
  <2> DEFINE p == [q EXCEPT !.pc = "claim"]
  <2>1. /\ p \in ControlRequests /\ p.pc = "claim" /\ p.conversation = q.conversation
        /\ p.expected = q.expected /\ p.mode = q.mode /\ p.paused = q.paused
    BY <1>1 DEF ControlRequests
  <2>2. request' = [request EXCEPT ![r] = p]
    BY <1>5 DEF Go
  <2> HIDE DEF p
  <2>3. p \in Phases
    BY <2>1 DEF Phases
  <2>4. request'[r] = p /\ \A s \in Requests \ {r} : request'[s] = request[s]
    BY <2>2, <2>3, OneRequest DEF IInv
  <2>5. \A s \in Requests \ {r} : Phased(s, RowHeld) => request[s].conversation # q.conversation
    BY DEF LockConversation, RowLock, Phased, RowHeld
  <2>6. Exclusive(r)'
    BY <2>1, <2>4, <2>5 DEF Exclusive, Phased, PhoneHeld, MessageHeld, RowHeld
  <2>7. conversations' = conversations
    BY <1>1 DEF store
  <2>8. ControlKnows(r)'
    BY <1>2, <1>5, <2>1, <2>4, <2>7 DEF ControlKnows, Phased
  <2>9. Knows(r)'
    BY <2>1, <2>4, <2>8 DEF Knows, MissingMessage, MissingCustomer, MissingConversation, OwnIds,
       FoundCustomer, FoundConversation, Acknowledged, Past, Phased, PhoneHeld, MessageHeld
  <2>10. QED
    BY <1>1, <2>2, <2>3, <2>6, <2>9, QuietStep
<1>6. QED
  BY <1>2, <1>3, <1>4, <1>5

LEMMA ClaimKeyStep == ASSUME IInv, NEW r \in Requests, ClaimKey(r) PROVE IInv'
<1> DEFINE q == request[r]
           p == [q EXCEPT !.pc = "publish"]
<1>1. /\ q \in ControlRequests /\ q.pc = "claim" /\ UNCHANGED store
      /\ ~Phased(r, {"stored", "controlled"})
  BY ControlFields DEF ClaimKey, Phased, IInv
<1>2. /\ p \in ControlRequests /\ p.pc = "publish" /\ p.conversation = q.conversation
      /\ p.expected = q.expected /\ p.mode = q.mode /\ p.paused = q.paused /\ p.key = q.key
  BY <1>1 DEF ControlRequests
<1>3. request' = [request EXCEPT ![r] = p]
  BY DEF ClaimKey, Go
<1> HIDE DEF p
<1>4. p \in Phases
  BY <1>2 DEF Phases
<1>5. request'[r] = p /\ \A s \in Requests \ {r} : request'[s] = request[s]
  BY <1>3, <1>4, OneRequest DEF IInv
<1>6. /\ \A s \in Requests \ {r} : Phased(s, {"publish"}) => request[s].key # q.key
      /\ \A row \in controlKeys : row.key # q.key
  BY DEF ClaimKey, KeyFree
<1>7. \A s \in Requests \ {r} : Phased(s, RowHeld) => request[s].conversation # q.conversation
  BY <1>1 DEF IInv, Exclusive, Phased, RowHeld
<1>8. Exclusive(r)'
  BY <1>2, <1>5, <1>6, <1>7 DEF Exclusive, Phased, PhoneHeld, MessageHeld, RowHeld
<1>9. conversations' = conversations /\ controlKeys' = controlKeys
  BY <1>1 DEF store
<1>10. \E c \in conversations :
         /\ c.id = q.conversation /\ c.version = q.expected /\ c.mode # q.mode
         /\ ~(q.paused /\ q.mode = "AI_ACTIVE")
  BY <1>1 DEF IInv, Knows, ControlKnows, Phased, RowHeld
<1>11. ControlKnows(r)'
  BY <1>2, <1>5, <1>6, <1>9, <1>10 DEF ControlKnows, Phased
<1>12. Knows(r)'
  BY <1>2, <1>5, <1>11 DEF Knows, MissingMessage, MissingCustomer, MissingConversation, OwnIds,
     FoundCustomer, FoundConversation, Acknowledged, Past, Phased, PhoneHeld, MessageHeld
<1>13. QED
  BY <1>1, <1>3, <1>4, <1>8, <1>12, QuietStep

LEMMA CommitControlStep ==
  ASSUME IInv, NEW r \in Requests, CommitControl(r)
  PROVE  IInv'
<1> DEFINE q == request[r]
           newKey == [key |-> q.key, conversation |-> q.conversation, mode |-> q.mode,
                      expected |-> q.expected, change |-> r]
<1>1. q \in ControlRequests /\ q.pc = "publish"
  BY ControlFields DEF CommitControl, Phased, IInv
<1>2. PICK c \in conversations :
        /\ c.id = q.conversation
        /\ conversations' = (conversations \ {c})
             \cup {[c EXCEPT !.mode = q.mode, !.version = c.version + 1]}
        /\ changes' = changes \cup
             {[id |-> r, conversation |-> c.id, mode |-> q.mode, version |-> c.version + 1]}
        /\ Answer(r, Controlled(q.mode, c.version + 1, q))
  BY DEF CommitControl
<1> DEFINE d == [c EXCEPT !.mode = q.mode, !.version = c.version + 1]
           change == [id |-> r, conversation |-> c.id, mode |-> q.mode, version |-> c.version + 1]
           p == Controlled(q.mode, c.version + 1, q)
<1>3. /\ controlKeys' = controlKeys \cup {newKey}
      /\ customers' = customers /\ links' = links /\ messages' = messages
      /\ conversations' = (conversations \ {c}) \cup {d}
      /\ changes' = changes \cup {change}
      /\ request' = [request EXCEPT ![r] = p]
  BY <1>2 DEF CommitControl, Answer
<1>4. c \in [id: Requests, customer: Requests, mode: Modes, version: Nat \ {0}]
  BY DEF IInv, TypeOK
<1>5. /\ q.key \in ControlKeys /\ q.conversation \in Requests /\ q.mode \in Modes
      /\ q.expected \in Nat \ {0} /\ c.version + 1 \in Nat \ {0}
  BY <1>1, <1>4 DEF ControlRequests
<1>6. /\ newKey \in [key: ControlKeys, conversation: Requests, mode: Modes,
                     expected: Nat \ {0}, change: Requests]
      /\ change \in [id: Requests, conversation: Requests, mode: Modes, version: Nat \ {0}]
      /\ newKey.key = q.key /\ change.id = r
  BY <1>4, <1>5
<1>7. /\ d \in [id: Requests, customer: Requests, mode: Modes, version: Nat \ {0}]
      /\ d.id = c.id /\ d.customer = c.customer
  BY <1>4, <1>5
<1>8. p \in Phases /\ p.pc = "controlled"
  BY <1>1, <1>5, ControlledType
<1> HIDE DEF newKey, d, change, p
<1>9. /\ request'[r] = p /\ \A s \in Requests \ {r} : request'[s] = request[s]
      /\ request' \in [Requests -> Phases]
  BY <1>3, <1>8, OneRequest DEF IInv
<1>10. TypeOK'
  <2>1. TypeOK
    BY DEF IInv
  <2>2. conversations' \subseteq
          [id: Requests, customer: Requests, mode: Modes, version: Nat \ {0}]
    BY <1>3, <1>7, <2>1 DEF TypeOK
  <2>3. /\ changes' \subseteq
             [id: Requests, conversation: Requests, mode: Modes, version: Nat \ {0}]
        /\ controlKeys' \subseteq [key: ControlKeys, conversation: Requests, mode: Modes,
                                   expected: Nat \ {0}, change: Requests]
    BY <1>3, <1>6, <2>1 DEF TypeOK
  <2>4. QED
    BY <1>3, <1>9, <2>1, <2>2, <2>3 DEF TypeOK, Phases
<1>11. /\ \A x \in conversations' : \E y \in conversations : x.id = y.id /\ x.customer = y.customer
       /\ \A y \in conversations : \E x \in conversations' : x.id = y.id /\ x.customer = y.customer
  BY <1>3, <1>7
<1>12. RowsAreDone'
  <2>1. \A i \in Requests, pc \in {"stored", "controlled"} : Phased(i, {pc}) => Phased(i, {pc})'
    BY <1>1, <1>9 DEF Phased
  <2>2. Phased(r, {"controlled"})'
    BY <1>8, <1>9 DEF Phased
  <2>3. /\ \A x \in customers : x.id \in Requests
        /\ \A x \in conversations : x.id \in Requests /\ x.customer \in Requests
        /\ \A x \in messages : x.id \in Requests
        /\ \A x \in changes : x.id \in Requests
    BY DEF IInv, TypeOK
  <2>4. \A x \in conversations' : Phased(x.id, {"stored"})' /\ Phased(x.customer, {"stored"})'
    BY <1>11, <2>1, <2>3 DEF IInv, RowsAreDone, Phased
  <2>5. \A x \in changes' : Phased(x.id, {"controlled"})'
    BY <1>3, <1>6, <2>1, <2>2, <2>3 DEF IInv, RowsAreDone, Phased
  <2>6. QED
    BY <1>3, <2>1, <2>3, <2>4, <2>5 DEF IInv, RowsAreDone
<1>13. UniqueIds'
  BY <1>3, <1>7 DEF IInv, UniqueIds
<1>14. Identity'
  <2>1. \A x, y \in conversations' : x.customer = y.customer => x = y
    BY <1>3, <1>7 DEF IInv, Identity
  <2>2. ASSUME NEW m \in messages
        PROVE  \E x \in conversations' : x.id = m.conversation /\ x.customer = m.customer
    <3>1. PICK y \in conversations : y.id = m.conversation /\ y.customer = m.customer
      BY DEF IInv, Identity
    <3>2. PICK x \in conversations' : x.id = y.id /\ x.customer = y.customer
      BY <1>11
    <3>3. QED
      BY <3>1, <3>2
  <2>3. QED
    BY <1>3, <2>1, <2>2 DEF IInv, Identity
<1>15. ASSUME NEW s \in Requests \ {r} PROVE Knows(s)'
  <2>1. Knows(s) /\ request'[s] = request[s] /\ Exclusive(s)
    BY <1>9 DEF IInv
  <2>2. MissingMessage(s)' /\ MissingCustomer(s)'
    BY <1>3, <2>1 DEF Knows, MissingMessage, MissingCustomer, Past, Phased, Phone
  <2>3. MissingConversation(s)'
    BY <1>11, <2>1 DEF Knows, MissingConversation, Past, Phased
  <2>4. OwnIds(s)' /\ FoundCustomer(s)'
    BY <1>3, <2>1 DEF Knows, OwnIds, FoundCustomer, Past, Phased, Phone
  <2>5. FoundConversation(s)'
    BY <1>11, <2>1 DEF Knows, FoundConversation, Past, Phased
  <2>6. Acknowledged(s)'
    BY <1>3, <2>1 DEF Knows, Acknowledged, Phased
  <2>7. /\ Phased(s, RowHeld) => request[s].conversation # c.id
        /\ Phased(s, {"publish"}) => request[s].key # q.key
    BY <1>1, <1>2, <2>1 DEF Exclusive, Phased, RowHeld
  <2>8. ControlKnows(s)'
    BY <1>3, <1>6, <2>1, <2>7 DEF Knows, ControlKnows, Phased
  <2>9. QED
    BY <2>2, <2>3, <2>4, <2>5, <2>6, <2>8 DEF Knows
<1>16. Knows(r)'
  BY <1>8, <1>9 DEF Knows, MissingMessage, MissingCustomer, MissingConversation, OwnIds,
     FoundCustomer, FoundConversation, Acknowledged, ControlKnows, Past, Phased, PhoneHeld,
     MessageHeld, RowHeld
<1>17. \A s \in Requests : Exclusive(s)'
  <2>1. Exclusive(r)'
    BY <1>8, <1>9, NoLock DEF PhoneHeld, MessageHeld, RowHeld
  <2>2. QED
    BY <1>9, <2>1 DEF IInv, Exclusive, Phased, Phone
<1>18. QED
  BY <1>10, <1>12, <1>13, <1>14, <1>15, <1>16, <1>17 DEF IInv

-----------------------------------------------------------------------------

LEMMA InitHolds == Init => IInv
BY DEF Init, IInv, TypeOK, RowsAreDone, UniqueIds, Identity, Exclusive, Knows, MissingMessage,
       MissingCustomer, MissingConversation, OwnIds, FoundCustomer, FoundConversation,
       Acknowledged, ControlKnows, Past, Phased, PhoneHeld, MessageHeld, RowHeld, Unsent

LEMMA NextHolds == ASSUME IInv, [Next]_vars PROVE IInv'
<1>1. CASE UNCHANGED vars
  <2>1. /\ customers' = customers /\ links' = links /\ conversations' = conversations
        /\ messages' = messages /\ changes' = changes /\ controlKeys' = controlKeys
        /\ request' = request
    BY <1>1 DEF vars, store
  <2>2. TypeOK' /\ UniqueIds' /\ Identity'
    BY <2>1 DEF IInv, TypeOK, UniqueIds, Identity
  <2>3. RowsAreDone'
    BY <2>1 DEF IInv, RowsAreDone, Phased
  <2>4. ASSUME NEW s \in Requests PROVE Exclusive(s)'
    BY <2>1 DEF IInv, Exclusive, Phased, Phone
  <2>5. ASSUME NEW s \in Requests PROVE Knows(s)'
    <3>1. Knows(s)
      BY DEF IInv
    <3>2. MissingMessage(s)' /\ MissingCustomer(s)' /\ MissingConversation(s)'
      BY <2>1, <3>1 DEF Knows, MissingMessage, MissingCustomer, MissingConversation, Past, Phased, Phone
    <3>3. OwnIds(s)' /\ FoundCustomer(s)' /\ FoundConversation(s)'
      BY <2>1, <3>1 DEF Knows, OwnIds, FoundCustomer, FoundConversation, Past, Phased, Phone
    <3>4. Acknowledged(s)' /\ ControlKnows(s)'
      BY <2>1, <3>1 DEF Knows, Acknowledged, ControlKnows, Phased
    <3>5. QED
      BY <3>2, <3>3, <3>4 DEF Knows
  <2>6. QED
    BY <2>2, <2>3, <2>4, <2>5 DEF IInv
<1>2. ASSUME NEW r \in Requests, Deliver(r) \/ Command(r) \/ Proceed(r) \/ Fail(r)
      PROVE  IInv'
  BY <1>2, DeliverStep, CommandStep, FailStep, LockPhoneStep, LockMessageStep, FindMessageStep,
     FindCustomerStep, InsertCustomerStep, FindConversationStep, InsertConversationStep,
     InsertMessageStep, CommitMessageStep, FindKeyStep, LockConversationStep, ClaimKeyStep,
     CommitControlStep DEF Proceed
<1>3. QED
  BY <1>1, <1>2 DEF Next

(***************************************************************************)
(* The inductive invariant of the conversation store: what a transaction   *)
(* has read or locked stays true until it commits.                         *)
(***************************************************************************)
THEOREM Invariance == Spec => []IInv
<1>1. IInv /\ [Next]_vars => IInv'
  BY NextHolds
<1>2. QED
  BY <1>1, InitHolds, PTL DEF Spec

(***************************************************************************)
(* The types of the tables and of the requests.                            *)
(***************************************************************************)
THEOREM TypeCorrect == Spec => []TypeOK
<1>1. IInv => TypeOK
  BY DEF IInv
<1>2. QED
  BY <1>1, Invariance, PTL

(***************************************************************************)
(* The advisory locks of an inbound message are enough: whatever its       *)
(* transaction found missing is missing when it inserts.                   *)
(***************************************************************************)
THEOREM LocksSuffice == Spec => []MissingStaysMissing
<1>1. IInv => MissingStaysMissing
  BY DEF IInv, Knows, MissingMessage, MissingCustomer, MissingConversation, Past,
     MissingStaysMissing
<1>2. QED
  BY <1>1, Invariance, PTL

(***************************************************************************)
(* One customer per telephone, one conversation per customer, one stored   *)
(* message per provider id, and every acknowledgement names it.            *)
(***************************************************************************)
THEOREM ThreadsAreOne == Spec => []OneThread
<1>1. IInv => OneThread
  <2>1. SUFFICES ASSUME IInv PROVE OneThread
    OBVIOUS
  <2>2. Contract!OneThread
    <3>1. Identity
      BY <2>1 DEF IInv
    <3>2. QED
      BY <3>1 DEF Identity, Contract!OneThread
  <2>3. QED
    BY <2>1, <2>2 DEF IInv, Identity, Knows, Acknowledged, OneThread
<1>2. QED
  BY <1>1, Invariance, PTL

-----------------------------------------------------------------------------
(* The refinement *)

\* Messages as the contract has them.
AsPromised(m) ==
  [id |-> m.id, conversation |-> m.conversation, customer |-> m.customer,
   lead |-> m.lead, message |-> m.message, body |-> m.body]

Promised == {AsPromised(m) : m \in messages}

\* A request that has not been answered has an id that no row has.
LEMMA FreshId ==
  ASSUME IInv, NEW r \in Requests, ~Phased(r, {"stored", "controlled"})
  PROVE  r \notin Contract!Used
<1>1. /\ \A c \in customers : c.id # r
      /\ \A c \in conversations : c.id # r
      /\ \A m \in messages : m.id # r
      /\ \A h \in changes : h.id # r
  BY DEF IInv, RowsAreDone, Phased
<1>2. \A m \in Promised : m.id # r
  BY <1>1 DEF Promised, AsPromised
<1>3. QED
  BY <1>1, <1>2 DEF Contract!Used, Promised, AsPromised

\* The commit of an inbound message is what the contract calls Record.
LEMMA CommitMessageRecords ==
  ASSUME IInv, NEW r \in Requests, CommitMessage(r)
  PROVE  Contract!Next
<1> DEFINE q == request[r]
           customer == [id |-> q.customer, phone |-> PhoneOf[q.lead]]
           mode == IF q.conversation = r THEN q.mode ELSE "PAUSED"
           new == [id |-> r, conversation |-> q.conversation, customer |-> q.customer,
                   lead |-> q.lead, message |-> q.message, body |-> q.body, mode |-> q.mode]
           conversation == Contract!ConversationFor(r, q.customer, mode)
<1>1. q \in InboundRequests /\ q.pc = "commit"
  BY InboundFields DEF CommitMessage, Phased, IInv, PhoneHeld, MessageHeld
<1>2. /\ MissingMessage(r) /\ MissingCustomer(r) /\ MissingConversation(r)
      /\ FoundCustomer(r) /\ FoundConversation(r) /\ OwnIds(r)
  BY DEF IInv, Knows
<1>3. /\ \A m \in messages : m.message # q.message
      /\ q.customer = r => \A c \in customers : c.phone # PhoneOf[q.lead]
      /\ q.conversation = r => \A c \in conversations : c.customer # q.customer
      /\ q.customer # r => customer \in customers
      /\ q.conversation # r =>
           \E c \in conversations : c.id = q.conversation /\ c.customer = q.customer
  BY <1>1, <1>2 DEF MissingMessage, MissingCustomer, MissingConversation, FoundCustomer,
     FoundConversation, Past, Phased, Phone
<1>4. mode \in {"AI_ACTIVE", "PAUSED"}
  BY <1>1, <1>2 DEF OwnIds, Phased, PhoneHeld, MessageHeld
<1>5. /\ customers' = customers \cup (IF q.customer = r THEN {customer} ELSE {})
      /\ links' = links \cup {[customer |-> q.customer, lead |-> q.lead]}
      /\ conversations' = conversations \cup
           (IF q.conversation = r
            THEN {[id |-> r, customer |-> q.customer, mode |-> q.mode, version |-> 1]} ELSE {})
      /\ messages' = messages \cup {new}
      /\ changes' = changes /\ controlKeys' = controlKeys
  BY DEF CommitMessage, Links, FirstVersion, Phone
<1> HIDE DEF mode
<1>6. Contract!CustomerFor(r, PhoneOf[q.lead]) = customer
  <2>1. CASE q.customer = r
    BY <1>3, <2>1 DEF Contract!CustomerFor
  <2>2. CASE q.customer # r
    <3>1. customer \in customers /\ customer.phone = PhoneOf[q.lead]
      BY <1>3, <2>2
    <3>2. \A c \in customers : c.phone = PhoneOf[q.lead] => c = customer
      BY <3>1 DEF IInv, Identity
    <3> HIDE DEF customer
    <3>3. QED
      BY <3>1, <3>2 DEF Contract!CustomerFor
  <2>3. QED
    BY <2>1, <2>2
<1>7. /\ conversations' = conversations \cup {conversation}
      /\ conversation.id = q.conversation
  <2>1. CASE q.conversation = r
    <3>1. conversation = [id |-> r, customer |-> q.customer, mode |-> mode, version |-> 1]
      BY <1>3, <2>1 DEF Contract!ConversationFor, Contract!FirstVersion
    <3>2. mode = q.mode
      BY <2>1 DEF mode
    <3>3. QED
      BY <1>5, <2>1, <3>1, <3>2
  <2>2. CASE q.conversation # r
    <3>1. PICK c \in conversations : c.id = q.conversation /\ c.customer = q.customer
      BY <1>3, <2>2
    <3>2. \A d \in conversations : d.customer = q.customer => d = c
      BY <3>1 DEF IInv, Identity
    <3>3. conversation = c
      BY <3>1, <3>2 DEF Contract!ConversationFor
    <3>4. conversations' = conversations
      BY <1>5, <2>2
    <3>5. QED
      BY <3>1, <3>3, <3>4
  <2>3. QED
    BY <2>1, <2>2
<1> HIDE DEF conversation, new, customer
<1>8. Promised' = Promised \cup {AsPromised(new)}
  BY <1>5 DEF Promised
<1>9. AsPromised(new) = [id |-> r, conversation |-> conversation.id, customer |-> customer.id,
                        lead |-> q.lead, message |-> q.message, body |-> q.body]
  BY <1>7 DEF AsPromised, new, customer
<1>10. \A m \in Promised : m.message # q.message
  BY <1>3 DEF Promised, AsPromised
<1>11. r \notin Contract!Used
  BY <1>1, FreshId DEF Phased
<1>12. customers' = customers \cup {customer} /\ customer.id = q.customer
  BY <1>3, <1>5 DEF customer
<1>13. PICK l \in Leads, message \in MessageIds, body \in Bodies, m \in {"AI_ACTIVE", "PAUSED"} :
         l = q.lead /\ message = q.message /\ body = q.body /\ m = mode
  BY <1>1, <1>4 DEF InboundRequests
<1>14. Contract!Record(r, l, message, body, m)
  BY <1>5, <1>6, <1>7, <1>8, <1>9, <1>10, <1>11, <1>12, <1>13
     DEF Contract!Record, Promised, AsPromised, conversation
<1>15. QED
  BY <1>13, <1>14 DEF Contract!Next

\* The commit of a control request is what the contract calls Change.
LEMMA CommitControlChanges ==
  ASSUME IInv, NEW r \in Requests, CommitControl(r)
  PROVE  Contract!Next
<1> DEFINE q == request[r]
<1>1. q \in ControlRequests /\ q.pc = "publish"
  BY ControlFields DEF CommitControl, Phased, IInv
<1>2. PICK c \in conversations :
        /\ c.id = q.conversation
        /\ conversations' = (conversations \ {c})
             \cup {[c EXCEPT !.mode = q.mode, !.version = c.version + 1]}
        /\ changes' = changes \cup
             {[id |-> r, conversation |-> c.id, mode |-> q.mode, version |-> c.version + 1]}
  BY DEF CommitControl
<1>3. /\ controlKeys' = controlKeys \cup
           {[key |-> q.key, conversation |-> q.conversation, mode |-> q.mode,
             expected |-> q.expected, change |-> r]}
      /\ customers' = customers /\ links' = links /\ messages' = messages
  BY DEF CommitControl
<1>4. /\ c.version = q.expected /\ c.mode # q.mode
      /\ ~(q.paused /\ q.mode = "AI_ACTIVE")
      /\ \A row \in controlKeys : row.key # q.key
  BY <1>1, <1>2 DEF IInv, Knows, ControlKnows, Phased, RowHeld, UniqueIds
<1>5. r \notin Contract!Used
  BY <1>1, FreshId DEF Phased
<1>6. Promised' = Promised
  BY <1>3 DEF Promised
<1>7. Contract!Change(r, q.key, c, q.mode, q.paused)
  BY <1>2, <1>3, <1>4, <1>5, <1>6 DEF Contract!Change, Contract!NewMode, Promised, AsPromised
<1>8. q.key \in ControlKeys /\ q.mode \in Contract!Modes /\ q.paused \in BOOLEAN
  BY <1>1 DEF ControlRequests, Modes, Contract!Modes
<1>9. QED
  BY <1>7, <1>8 DEF Contract!Next

LEMMA EveryStepIsPromised ==
  ASSUME IInv, [Next]_vars
  PROVE  [Contract!Next]_(Contract!vars)
<1>1. CASE UNCHANGED store
  BY <1>1 DEF store, Contract!vars
<1>2. ASSUME NEW r \in Requests, CommitMessage(r) PROVE Contract!Next
  BY <1>2, CommitMessageRecords
<1>3. ASSUME NEW r \in Requests, CommitControl(r) PROVE Contract!Next
  BY <1>3, CommitControlChanges
<1>4. QED
  BY <1>1, <1>2, <1>3 DEF Next, vars, Proceed, Deliver, Command, Fail, LockPhone, LockMessage,
     FindMessage, FindCustomer, InsertCustomer, FindConversation, InsertConversation,
     InsertMessage, FindKey, LockConversation, ClaimKey

LEMMA InitIsPromised == Init => Contract!Init
BY DEF Init, Contract!Init

(***************************************************************************)
(* The Postgres store keeps what the in-memory store promises by running   *)
(* one operation after the other: each commit is one whole operation.      *)
(***************************************************************************)
THEOREM Refinement == Spec => ImplementsContract
<1>1. IInv /\ [Next]_vars => [Contract!Next]_(Contract!vars)
  BY EveryStepIsPromised
<1>2. QED
  BY <1>1, Invariance, InitIsPromised, PTL DEF Spec, ImplementsContract, Contract!Spec

-----------------------------------------------------------------------------
(* The history of control changes, which the contract promises *)

\* A conversation has one change for every version after the first.
OneChangePerVersion(c) ==
  /\ \A h \in changes : h.conversation = c.id => h.version \in 2..c.version
  /\ \A v \in 2..c.version : \E h \in changes : h.conversation = c.id /\ h.version = v
  /\ \A h, g \in changes :
       h.conversation = c.id /\ g.conversation = c.id /\ h.version = g.version => h = g

\* The last of its changes has its mode, and each a mode other than the one before.
ModesAlternate(c) ==
  /\ \A h \in changes : h.conversation = c.id /\ h.version = c.version => h.mode = c.mode
  /\ \A h, g \in changes :
       h.conversation = c.id /\ g.conversation = c.id /\ h.version = g.version + 1 =>
         h.mode # g.mode

\* A change belongs to a conversation, and to one key.
ChangesAreOwned ==
  /\ \A h \in changes : \E c \in conversations : c.id = h.conversation
  /\ \A h \in changes : \E row \in controlKeys : row.change = h.id
  /\ \A row \in controlKeys : \E h \in changes : h.id = row.change
  /\ \A row, other \in controlKeys :
       row.key = other.key \/ row.change = other.change => row = other

HistoryInv ==
  /\ ChangesAreOwned
  /\ \A c \in conversations : OneChangePerVersion(c) /\ ModesAlternate(c)

\* An operation of the contract that stores a message.
LEMMA RecordKeepsHistory ==
  ASSUME IInv, HistoryInv, NEW id \in Requests, NEW l, NEW message, NEW body, NEW mode,
         Contract!Record(id, l, message, body, mode)
  PROVE  HistoryInv'
<1> DEFINE customer == Contract!CustomerFor(id, PhoneOf[l])
           d == Contract!ConversationFor(id, customer.id, mode)
<1>1. /\ conversations' = conversations \cup {d}
      /\ changes' = changes /\ controlKeys' = controlKeys
      /\ id \notin Contract!Used
  BY DEF Contract!Record
<1> HIDE DEF customer
<1>2. \A c \in conversations : c.id # id
  BY <1>1 DEF Contract!Used
<1>3. d \in conversations \/ (d.id = id /\ d.version = 1)
  BY Zenon DEF Contract!ConversationFor, Contract!FirstVersion
<1> HIDE DEF d
<1>4. ChangesAreOwned'
  BY <1>1 DEF HistoryInv, ChangesAreOwned
<1>5. ASSUME NEW c \in conversations' PROVE OneChangePerVersion(c)' /\ ModesAlternate(c)'
  <2>1. CASE c \in conversations
    <3>1. OneChangePerVersion(c) /\ ModesAlternate(c)
      BY <2>1 DEF HistoryInv
    <3>2. QED
      BY <1>1, <3>1 DEF OneChangePerVersion, ModesAlternate
  <2>2. CASE c \notin conversations
    <3>1. c.id = id /\ c.version = 1
      BY <1>1, <1>3, <2>2
    <3>2. \A h \in changes : h.conversation # c.id
      BY <1>2, <3>1 DEF HistoryInv, ChangesAreOwned
    <3>3. 2..c.version = {}
      BY <3>1
    <3>4. QED
      BY <1>1, <3>2, <3>3 DEF OneChangePerVersion, ModesAlternate
  <2>3. QED
    BY <2>1, <2>2
<1>6. QED
  BY <1>4, <1>5 DEF HistoryInv

\* An operation of the contract that changes the control of a conversation.
LEMMA ChangeKeepsHistory ==
  ASSUME IInv, HistoryInv, NEW id \in Requests, NEW k, NEW c \in conversations, NEW mode, NEW paused,
         Contract!Change(id, k, c, mode, paused)
  PROVE  HistoryInv'
<1> DEFINE d == [c EXCEPT !.mode = mode, !.version = c.version + 1]
           h == [id |-> id, conversation |-> c.id, mode |-> mode, version |-> c.version + 1]
           key == [key |-> k, conversation |-> c.id, mode |-> mode, expected |-> c.version,
                   change |-> id]
<1>1. /\ conversations' = (conversations \ {c}) \cup {d}
      /\ changes' = changes \cup {h}
      /\ controlKeys' = controlKeys \cup {key}
      /\ id \notin Contract!Used /\ c.mode # mode
      /\ \A row \in controlKeys : row.key # k
  BY DEF Contract!Change, Contract!NewMode
<1>2. /\ c \in [id: Requests, customer: Requests, mode: Modes, version: Nat \ {0}]
      /\ \A g \in changes : g.version \in Nat
      /\ \A b \in conversations \ {c} : b.id # c.id
  BY DEF IInv, TypeOK, UniqueIds
<1>3. /\ d.id = c.id /\ d.mode = mode /\ d.version = c.version + 1
      /\ c.version \in Nat /\ c.version > 0
  BY <1>2
<1>4. /\ h.id = id /\ h.conversation = c.id /\ h.mode = mode /\ h.version = c.version + 1
      /\ key.key = k /\ key.change = id
  OBVIOUS
<1>5. \A g \in changes : g.id # id
  BY <1>1 DEF Contract!Used
<1> HIDE DEF d, h, key
<1>6. ChangesAreOwned'
  <2>1. \A g \in changes' : \E b \in conversations' : b.id = g.conversation
    BY <1>1, <1>3, <1>4 DEF HistoryInv, ChangesAreOwned
  <2>2. \A g \in changes' : \E row \in controlKeys' : row.change = g.id
    BY <1>1, <1>4 DEF HistoryInv, ChangesAreOwned
  <2>3. \A row \in controlKeys' : \E g \in changes' : g.id = row.change
    BY <1>1, <1>4 DEF HistoryInv, ChangesAreOwned
  <2>4. \A row \in controlKeys : row.change # id /\ row.key # k
    BY <1>1, <1>5 DEF HistoryInv, ChangesAreOwned
  <2>5. \A row, other \in controlKeys' :
          row.key = other.key \/ row.change = other.change => row = other
    BY <1>1, <1>4, <2>4 DEF HistoryInv, ChangesAreOwned
  <2>6. QED
    BY <2>1, <2>2, <2>3, <2>5 DEF ChangesAreOwned
<1>7. ASSUME NEW b \in conversations \ {c} PROVE OneChangePerVersion(b)' /\ ModesAlternate(b)'
  <2>1. OneChangePerVersion(b) /\ ModesAlternate(b) /\ b.id # c.id
    BY <1>2 DEF HistoryInv
  <2>2. \A g \in changes' : g.conversation = b.id <=> g \in changes /\ g.conversation = b.id
    BY <1>1, <1>4, <2>1
  <2>3. OneChangePerVersion(b)'
    BY <1>1, <2>1, <2>2 DEF OneChangePerVersion
  <2>4. ModesAlternate(b)'
    BY <2>1, <2>2 DEF ModesAlternate
  <2>5. QED
    BY <2>3, <2>4
<1>8. OneChangePerVersion(c) /\ ModesAlternate(c)
  BY DEF HistoryInv
<1>9. OneChangePerVersion(d)'
  <2>1. \A g \in changes' : g.conversation = d.id => g.version \in 2..d.version
    BY <1>1, <1>3, <1>4, <1>8 DEF OneChangePerVersion
  <2>2. \A v \in 2..d.version : \E g \in changes' : g.conversation = d.id /\ g.version = v
    <3>1. \A v \in 2..d.version : v \in 2..c.version \/ v = h.version
      BY <1>3, <1>4
    <3>2. QED
      BY <1>1, <1>3, <1>4, <1>8, <3>1 DEF OneChangePerVersion
  <2>3. \A g \in changes : g.conversation = c.id => g.version # h.version
    BY <1>3, <1>4, <1>8 DEF OneChangePerVersion
  <2>4. \A f, g \in changes' :
          f.conversation = d.id /\ g.conversation = d.id /\ f.version = g.version => f = g
    BY <1>1, <1>3, <1>8, <2>3 DEF OneChangePerVersion
  <2>5. QED
    BY <2>1, <2>2, <2>4 DEF OneChangePerVersion
<1>10. ModesAlternate(d)'
  <2>1. \A g \in changes : g.conversation = c.id => g.version < c.version + 1
    BY <1>2, <1>3, <1>8 DEF OneChangePerVersion
  <2>2. \A g \in changes' : g.conversation = d.id /\ g.version = d.version => g.mode = d.mode
    BY <1>1, <1>3, <1>4, <2>1 DEF OneChangePerVersion
  <2>3. ASSUME NEW f \in changes', NEW g \in changes',
               f.conversation = d.id, g.conversation = d.id, f.version = g.version + 1
        PROVE  f.mode # g.mode
    <3>1. CASE f \in changes /\ g \in changes
      BY <1>3, <1>8, <2>3, <3>1 DEF ModesAlternate
    <3>2. CASE f = h /\ g \in changes
      <4>1. g.version = c.version
        BY <1>2, <1>3, <1>4, <2>3, <3>2
      <4>2. QED
        BY <1>1, <1>3, <1>4, <1>8, <2>3, <3>2, <4>1 DEF ModesAlternate
    <3>3. CASE g = h
      <4>1. f.version = c.version + 2
        BY <1>3, <1>4, <2>3, <3>3
      <4>2. f.version <= c.version + 1
        BY <1>1, <1>2, <1>3, <1>4, <2>1, <2>3
      <4>3. QED
        BY <1>3, <4>1, <4>2
    <3>4. QED
      BY <1>1, <3>1, <3>2, <3>3
  <2>4. QED
    BY <2>2, <2>3 DEF ModesAlternate
<1>11. QED
  BY <1>1, <1>6, <1>7, <1>9, <1>10 DEF HistoryInv

\* The Cardinality that the contract extends is that of FiniteSets.
LEMMA OneCardinality == ASSUME NEW S PROVE Contract!Cardinality(S) = Cardinality(S)
BY DEF Contract!Cardinality, Cardinality

LEMMA FromTwo ==
  ASSUME NEW n \in Nat, n > 0
  PROVE  IsFiniteSet(2..n) /\ Cardinality(2..n) = n - 1
<1>1. 2 \in Int /\ n \in Int
  OBVIOUS
<1>2. IsFiniteSet(2..n) /\ Cardinality(2..n) = IF 2 > n THEN 0 ELSE n - 2 + 1
  BY <1>1, FS_Interval
<1>3. QED
  BY <1>2

\* Changes and versions after the first are one to one.
LEMMA HistorySuffices ==
  ASSUME IInv, HistoryInv
  PROVE  ControlHistory
<1>1. ASSUME NEW c \in conversations
      PROVE  LET own == {h \in changes : h.conversation = c.id}
             IN /\ {h.version : h \in own} = 2..c.version
                /\ Contract!Cardinality(own) = c.version - 1
                /\ \A h \in own : h.version = c.version => h.mode = c.mode
                /\ \A h, g \in own : h.version = g.version + 1 => h.mode # g.mode
  <2> DEFINE own == {h \in changes : h.conversation = c.id}
             versions == 2..c.version
             f == [h \in own |-> h.version]
  <2>1. OneChangePerVersion(c) /\ ModesAlternate(c) /\ c.version \in Nat /\ c.version > 0
    BY DEF HistoryInv, IInv, TypeOK
  <2>2. /\ \A h \in own : h.version \in versions
        /\ \A v \in versions : \E h \in own : h.version = v
        /\ \A h, g \in own : h.version = g.version => h = g
    BY <2>1 DEF OneChangePerVersion
  <2>3. IsFiniteSet(versions) /\ Cardinality(versions) = c.version - 1
    BY <2>1, FromTwo
  <2> HIDE DEF own, versions
  <2>4. f \in Injection(own, versions)
    BY <2>2 DEF Injection, IsInjective
  <2>5. f \in Surjection(own, versions)
    BY <2>2 DEF Surjection
  <2>6. Cardinality(own) = Cardinality(versions)
    BY <2>3, <2>4, <2>5, FS_Injection
  <2>7. {h.version : h \in own} = versions
    BY <2>2
  <2>8. \A h \in own : h \in changes /\ h.conversation = c.id
    BY DEF own
  <2>9. QED
    BY <2>1, <2>3, <2>6, <2>7, <2>8, OneCardinality DEF ModesAlternate, own, versions
<1>2. QED
  BY <1>1 DEF ControlHistory, Contract!ControlHistory, HistoryInv, ChangesAreOwned

(***************************************************************************)
(* A conversation's control changes are its history, for any number of     *)
(* operators, keys and messages: the contract keeps it so, and the store   *)
(* takes no step that the contract does not.                               *)
(***************************************************************************)
THEOREM ControlIsHistory == Spec => []ControlHistory
<1>1. Init => HistoryInv
  BY DEF Init, HistoryInv, ChangesAreOwned
<1>2. IInv /\ [Next]_vars /\ HistoryInv => HistoryInv'
  <2>1. SUFFICES ASSUME IInv, HistoryInv, [Next]_vars PROVE HistoryInv'
    OBVIOUS
  <2>2. CASE UNCHANGED Contract!vars
    BY <2>1, <2>2 DEF Contract!vars, HistoryInv, ChangesAreOwned, OneChangePerVersion,
                      ModesAlternate
  <2>3. CASE Contract!Next
    BY <2>1, <2>3, RecordKeepsHistory, ChangeKeepsHistory DEF Contract!Next
  <2>4. QED
    BY <2>1, <2>2, <2>3, EveryStepIsPromised
<1>3. IInv /\ HistoryInv => ControlHistory
  BY HistorySuffices
<1>4. QED
  BY <1>1, <1>2, <1>3, Invariance, PTL DEF Spec

=============================================================================
