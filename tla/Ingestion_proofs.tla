-------------------------- MODULE Ingestion_proofs --------------------------
(***************************************************************************)
(* Theorems about Ingestion, for every set of requests, keys and source    *)
(* records, whatever bodies are sent under whichever keys.                 *)
(***************************************************************************)
EXTENDS Ingestion, TLAPS

-----------------------------------------------------------------------------
(* The inductive invariant: what each request knows of the store *)

Holding == {"insert", "duplicate", "commit"}

\* Until it finds a duplicate, a request works for its own id.
OwnLead(r) ==
  request[r].pc \in {"reserve", "replay", "insert", "duplicate", "created"} =>
    request[r].lead = r

\* A key with an uncommitted row is in no committed row and no other one.
KeyIsMine(r) ==
  request[r].pc \in Holding =>
    /\ \A row \in keys : row.key # request[r].key
    /\ \A s \in Requests \ {r} : ~HoldsKey(s, request[r].key)

\* So is the record of an uncommitted lead.
RecordIsMine(r) ==
  At(r, "commit") /\ request[r].lead = r =>
    /\ LeadsLike(request[r]) = {}
    /\ \A s \in Requests \ {r} : ~HoldsRecord(s, RecordOf[request[r].listing])

\* The lead that a request found, or answered with, is there.
LeadIsThere(r) ==
  (At(r, "commit") /\ request[r].lead # r) \/ Answered(r) =>
    \E l \in LeadsLike(request[r]) : l.id = request[r].lead

Knows(r) == OwnLead(r) /\ KeyIsMine(r) /\ RecordIsMine(r) /\ LeadIsThere(r)

\* A stored lead has the id of a request that was answered with it.
OwnersCreated == \A l \in leads : At(l.id, "created")

IInv ==
  TypeOK /\ (\A r \in Requests : Knows(r)) /\ OwnersCreated /\ Contract!OneLeadPerRecord

-----------------------------------------------------------------------------

\* A step of one request that leaves the tables alone.
LEMMA QuietStep ==
  ASSUME IInv, UNCHANGED store, NEW r \in Requests, request[r].pc # "created",
         \A s \in Requests \ {r} : request'[s] = request[s],
         TypeOK', Knows(r)'
  PROVE  IInv'
<1>1. leads' = leads /\ keys' = keys /\ events' = events
  BY DEF store
<1>2. ASSUME NEW s \in Requests \ {r} PROVE Knows(s)'
  <2>1. request'[s] = request[s] /\ Knows(s)
    BY DEF IInv
  <2>2. OwnLead(s)' /\ LeadIsThere(s)'
    BY <1>1, <2>1 DEF Knows, OwnLead, LeadIsThere, At, Answered, LeadsLike
  <2>3. KeyIsMine(s)'
    <3>1. HoldsKey(r, request[s].key)' /\ request[s].pc \in Holding => FALSE
      BY <2>1 DEF Knows, KeyIsMine, HoldsKey, Holding
    <3>2. QED
      BY <1>1, <2>1, <3>1 DEF Knows, KeyIsMine, HoldsKey
  <2>4. RecordIsMine(s)'
    <3>1. HoldsRecord(r, RecordOf[request[s].listing])'
            /\ At(s, "commit") /\ request[s].lead = s => FALSE
      BY <2>1 DEF Knows, RecordIsMine, HoldsRecord, At
    <3>2. QED
      BY <1>1, <2>1, <3>1 DEF Knows, RecordIsMine, HoldsRecord, At, LeadsLike
  <2>5. QED
    BY <2>2, <2>3, <2>4 DEF Knows
<1>3. OwnersCreated'
  BY <1>1 DEF IInv, TypeOK, OwnersCreated, At
<1>4. Contract!OneLeadPerRecord'
  BY <1>1 DEF IInv, Contract!OneLeadPerRecord
<1>5. QED
  BY <1>2, <1>3, <1>4 DEF IInv

\* The fields of a request in progress.
LEMMA OpenFields ==
  ASSUME TypeOK, NEW r \in Requests,
         request[r].pc \in {"reserve", "replay", "insert", "duplicate", "commit"}
  PROVE  request[r] \in Open
BY DEF TypeOK, Open, Answers, Unsent

-----------------------------------------------------------------------------
(* One lemma per action *)

LEMMA SubmitStep ==
  ASSUME IInv, NEW r \in Requests, Submit(r)
  PROVE  IInv'
<1>1. PICK k \in Keys, listing \in Listings, approved \in BOOLEAN :
        IF Admitted(listing, approved)
        THEN Answer(r, [pc |-> "reserve", key |-> k, listing |-> listing, lead |-> r])
        ELSE Answer(r, [pc |-> "refused"])
  BY DEF Submit
<1> DEFINE q == [pc |-> "reserve", key |-> k, listing |-> listing, lead |-> r]
           refused == [pc |-> "refused"]
<1>2. request' = [request EXCEPT ![r] = q] \/ request' = [request EXCEPT ![r] = refused]
  BY <1>1 DEF Answer
<1>3. q \in Open /\ refused \in Answers
  BY DEF Open, Answers
<1>4. /\ TypeOK'
      /\ \A s \in Requests \ {r} : request'[s] = request[s]
      /\ request'[r] = q \/ request'[r] = refused
  BY <1>2, <1>3 DEF IInv, TypeOK, Submit, store
<1>5. Knows(r)'
  BY <1>4 DEF Knows, OwnLead, KeyIsMine, RecordIsMine, LeadIsThere, Holding, At, Answered
<1>6. request[r].pc # "created" /\ UNCHANGED store
  BY DEF Submit, Unsent
<1>7. QED
  BY <1>4, <1>5, <1>6, QuietStep

LEMMA ReserveStep ==
  ASSUME IInv, NEW r \in Requests, Reserve(r)
  PROVE  IInv'
<1>1. request[r].pc = "reserve" /\ request[r] \in Open
  BY OpenFields DEF Reserve, At, IInv
<1> DEFINE pc == IF \E row \in keys : row.key = request[r].key THEN "replay" ELSE "insert"
<1>2. request' = [request EXCEPT ![r].pc = pc]
  BY DEF Reserve, Go
<1>3. /\ request'[r] = [request[r] EXCEPT !.pc = pc]
      /\ \A s \in Requests \ {r} : request'[s] = request[s]
  BY <1>2 DEF IInv, TypeOK
<1>4. /\ request'[r] \in Open
      /\ request'[r].pc = pc /\ request'[r].key = request[r].key
      /\ request'[r].lead = request[r].lead
  BY <1>1, <1>3 DEF Open
<1>5. TypeOK'
  BY <1>2, <1>4, <1>3 DEF IInv, TypeOK, Reserve, store
<1>6. Knows(r)'
  <2>1. OwnLead(r)'
    BY <1>1, <1>4 DEF IInv, Knows, OwnLead
  <2>2. KeyIsMine(r)'
    BY <1>3, <1>4 DEF Reserve, KeySettled, KeyIsMine, HoldsKey, Holding, store
  <2>3. QED
    BY <1>4, <2>1, <2>2 DEF Knows, RecordIsMine, LeadIsThere, At, Answered
<1>7. QED
  BY <1>1, <1>3, <1>5, <1>6, QuietStep DEF Reserve

LEMMA ReplayStep ==
  ASSUME IInv, NEW r \in Requests, Replay(r)
  PROVE  IInv'
<1>1. request[r].pc = "replay" /\ request[r] \in Open
  BY OpenFields DEF Replay, At, IInv
<1>2. PICK row \in keys :
        /\ row.key = request[r].key
        /\ Answer(r, IF SameFingerprint(row, request[r])
                     THEN [pc |-> "duplicated", listing |-> request[r].listing, lead |-> row.lead]
                     ELSE [pc |-> "refused"])
  BY DEF Replay
<1> DEFINE found == [pc |-> "duplicated", listing |-> request[r].listing, lead |-> row.lead]
           refused == [pc |-> "refused"]
<1>3. row \in [key: Keys, listing: Listings, lead: Requests]
  BY DEF IInv, TypeOK
<1>4. found \in Answers /\ refused \in Answers
  BY <1>1, <1>3 DEF Open, Answers
<1>5. /\ request'[r] = (IF SameFingerprint(row, request[r]) THEN found ELSE refused)
      /\ \A s \in Requests \ {r} : request'[s] = request[s]
      /\ TypeOK'
  BY <1>2, <1>4 DEF IInv, TypeOK, Answer, Replay, store
<1>6. Knows(r)'
  <2>1. CASE SameFingerprint(row, request[r])
    <3>1. \E l \in leads : l.id = row.lead /\ RecordOf[l.listing] = RecordOf[row.listing]
      BY DEF IInv, Contract!OneLeadPerRecord
    <3>2. LeadIsThere(r)'
      BY <1>5, <2>1, <3>1 DEF LeadIsThere, LeadsLike, SameFingerprint, Replay, store
    <3>3. QED
      BY <1>5, <2>1, <3>2 DEF Knows, OwnLead, KeyIsMine, RecordIsMine, Holding, At
  <2>2. CASE ~SameFingerprint(row, request[r])
    BY <1>5, <2>2 DEF Knows, OwnLead, KeyIsMine, RecordIsMine, LeadIsThere, Holding, At, Answered
  <2>3. QED
    BY <2>1, <2>2
<1>7. QED
  BY <1>1, <1>5, <1>6, QuietStep DEF Replay

LEMMA InsertStep ==
  ASSUME IInv, NEW r \in Requests, InsertLead(r)
  PROVE  IInv'
<1>1. request[r].pc = "insert" /\ request[r] \in Open
  BY OpenFields DEF InsertLead, At, IInv
<1> DEFINE pc == IF LeadsLike(request[r]) = {} THEN "commit" ELSE "duplicate"
<1>2. request' = [request EXCEPT ![r].pc = pc]
  BY DEF InsertLead, Go
<1>3. /\ request'[r] = [request[r] EXCEPT !.pc = pc]
      /\ \A s \in Requests \ {r} : request'[s] = request[s]
  BY <1>2 DEF IInv, TypeOK
<1>4. /\ request'[r] \in Open
      /\ request'[r].pc = pc /\ request'[r].key = request[r].key
      /\ request'[r].lead = request[r].lead /\ request'[r].listing = request[r].listing
  BY <1>1, <1>3 DEF Open
<1>5. TypeOK'
  BY <1>2, <1>3, <1>4 DEF IInv, TypeOK, InsertLead, store
<1>6. Knows(r)'
  <2>1. OwnLead(r)' /\ request[r].lead = r
    BY <1>1, <1>4 DEF IInv, Knows, OwnLead
  <2>2. KeyIsMine(r)'
    BY <1>1, <1>3, <1>4 DEF IInv, Knows, KeyIsMine, HoldsKey, Holding, InsertLead, store
  <2>3. RecordIsMine(r)'
    BY <1>3, <1>4 DEF RecordIsMine, RecordSettled, HoldsRecord, LeadsLike, InsertLead, At, store
  <2>4. LeadIsThere(r)'
    BY <1>4, <2>1 DEF LeadIsThere, Answered, At
  <2>5. QED
    BY <2>1, <2>2, <2>3, <2>4 DEF Knows
<1>7. QED
  BY <1>1, <1>3, <1>5, <1>6, QuietStep DEF InsertLead

LEMMA ResolveStep ==
  ASSUME IInv, NEW r \in Requests, ResolveDuplicate(r)
  PROVE  IInv'
<1>1. request[r].pc = "duplicate" /\ request[r] \in Open
  BY OpenFields DEF ResolveDuplicate, At, IInv
<1>2. PICK l \in LeadsLike(request[r]) :
        request' = [request EXCEPT ![r].pc = "commit", ![r].lead = l.id]
  BY DEF ResolveDuplicate, Found
<1>3. l \in leads /\ l.id \in Requests /\ l.id # r
  BY <1>1, <1>2 DEF LeadsLike, IInv, TypeOK, OwnersCreated, At
<1>4. /\ request'[r] = [request[r] EXCEPT !.pc = "commit", !.lead = l.id]
      /\ \A s \in Requests \ {r} : request'[s] = request[s]
  BY <1>2 DEF IInv, TypeOK
<1>5. /\ request'[r] \in Open
      /\ request'[r].pc = "commit" /\ request'[r].key = request[r].key
      /\ request'[r].lead = l.id /\ request'[r].listing = request[r].listing
  BY <1>1, <1>3, <1>4 DEF Open
<1>6. TypeOK'
  BY <1>2, <1>4, <1>5 DEF IInv, TypeOK, ResolveDuplicate, store
<1>7. Knows(r)'
  <2>1. KeyIsMine(r)'
    BY <1>1, <1>4, <1>5 DEF IInv, Knows, KeyIsMine, HoldsKey, Holding, ResolveDuplicate, store
  <2>2. LeadIsThere(r)'
    BY <1>5, <1>2 DEF LeadIsThere, LeadsLike, ResolveDuplicate, store
  <2>3. QED
    BY <1>3, <1>5, <2>1, <2>2 DEF Knows, OwnLead, RecordIsMine
<1>8. QED
  BY <1>1, <1>4, <1>6, <1>7, QuietStep DEF ResolveDuplicate

LEMMA FailStep ==
  ASSUME IInv, NEW r \in Requests, Fail(r)
  PROVE  IInv'
<1>1. /\ request[r].pc # "created"
      /\ request'[r] = [pc |-> "refused"]
      /\ \A s \in Requests \ {r} : request'[s] = request[s]
  BY DEF Fail, Over, Answer, IInv, TypeOK
<1>2. TypeOK'
  BY <1>1 DEF IInv, TypeOK, Fail, Answer, Answers, store
<1>3. Knows(r)'
  BY <1>1 DEF Knows, OwnLead, KeyIsMine, RecordIsMine, LeadIsThere, Holding, At, Answered
<1>4. QED
  BY <1>1, <1>2, <1>3, QuietStep DEF Fail

\* The commit of a lead: its record had none, and no other transaction has one for it.
LEMMA CreateStep ==
  ASSUME IInv, NEW r \in Requests, Commit(r), request[r].lead = r
  PROVE  /\ IInv'
         /\ Contract!Create(r, request[r].key, request[r].listing)
<1> DEFINE q == request[r]
           new == [id |-> r, listing |-> q.listing]
           row == [key |-> q.key, listing |-> q.listing, lead |-> r]
           answer == [pc |-> "created", listing |-> q.listing, lead |-> r]
<1>1. q.pc = "commit" /\ q \in Open
  BY OpenFields DEF Commit, At, IInv
<1>2. /\ leads' = leads \cup {new}
      /\ events' = events \cup {r}
      /\ keys' = keys \cup {row}
      /\ request' = [request EXCEPT ![r] = answer]
  BY DEF Commit, Answer
<1>3. /\ request'[r] = answer
      /\ \A s \in Requests \ {r} : request'[s] = request[s]
  BY <1>2 DEF IInv, TypeOK
<1>4. new \in [id: Requests, listing: Listings] /\ row \in [key: Keys, listing: Listings, lead: Requests]
        /\ answer \in Answers
  BY <1>1 DEF Open, Answers
<1>5. TypeOK'
  BY <1>2, <1>4 DEF IInv, TypeOK
<1>6. /\ \A other \in keys : other.key # q.key
      /\ \A s \in Requests \ {r} : ~HoldsKey(s, q.key)
      /\ \A l \in leads : RecordOf[l.listing] # RecordOf[q.listing]
      /\ \A s \in Requests \ {r} : ~HoldsRecord(s, RecordOf[q.listing])
  BY <1>1 DEF IInv, Knows, KeyIsMine, RecordIsMine, LeadsLike, Holding, At
<1>7. \A l \in leads : l.id # r
  BY <1>1 DEF IInv, OwnersCreated, At
<1>8. ASSUME NEW s \in Requests \ {r} PROVE Knows(s)'
  <2>1. request'[s] = request[s] /\ Knows(s)
    BY <1>3 DEF IInv
  <2>2. OwnLead(s)'
    BY <2>1 DEF Knows, OwnLead
  <2>3. KeyIsMine(s)'
    <3>1. request[s].pc \in Holding => request[s].key # q.key
      BY <1>6 DEF HoldsKey, Holding
    <3>2. QED
      BY <1>2, <1>3, <2>1, <3>1 DEF Knows, KeyIsMine, HoldsKey
  <2>4. RecordIsMine(s)'
    <3>1. At(s, "commit") /\ request[s].lead = s => RecordOf[request[s].listing] # RecordOf[q.listing]
      BY <1>6 DEF HoldsRecord
    <3>2. QED
      BY <1>2, <1>3, <2>1, <3>1 DEF Knows, RecordIsMine, HoldsRecord, At, LeadsLike
  <2>5. LeadIsThere(s)'
    BY <1>2, <2>1 DEF Knows, LeadIsThere, LeadsLike, At, Answered
  <2>6. QED
    BY <2>2, <2>3, <2>4, <2>5 DEF Knows
<1>9. Knows(r)'
  <2>1. new \in leads' /\ new.id = r /\ new.listing = q.listing
    BY <1>2
  <2>2. LeadIsThere(r)'
    BY <1>3, <2>1 DEF LeadIsThere, LeadsLike
  <2>3. QED
    BY <1>3, <2>2 DEF Knows, OwnLead, KeyIsMine, RecordIsMine, Holding, At
<1>10. OwnersCreated'
  BY <1>2, <1>3 DEF IInv, TypeOK, OwnersCreated, At
<1>11. Contract!OneLeadPerRecord'
  <2>1. \A l, m \in leads' : RecordOf[l.listing] = RecordOf[m.listing] => l = m
    BY <1>2, <1>6 DEF IInv, Contract!OneLeadPerRecord
  <2>2. \A other \in keys' :
          \E l \in leads' : l.id = other.lead /\ RecordOf[l.listing] = RecordOf[other.listing]
    <3>1. new \in leads' /\ new.id = row.lead /\ new.listing = row.listing
      BY <1>2
    <3>2. QED
      BY <1>2, <3>1 DEF IInv, Contract!OneLeadPerRecord
  <2>3. \A one, other \in keys' : one.key = other.key => one = other
    BY <1>2, <1>6 DEF IInv, Contract!OneLeadPerRecord
  <2>4. events' = {l.id : l \in leads'}
    <3>1. events = {l.id : l \in leads}
      BY DEF IInv, Contract!OneLeadPerRecord
    <3>2. new.id = r
      OBVIOUS
    <3>3. QED
      BY <1>2, <3>1, <3>2
  <2>5. QED
    BY <2>1, <2>2, <2>3, <2>4 DEF Contract!OneLeadPerRecord
<1>12. Contract!Create(r, q.key, q.listing)
  BY <1>2, <1>6, <1>7 DEF Contract!Create, Contract!SameRecord, Contract!Reserved
<1>13. QED
  BY <1>5, <1>8, <1>9, <1>10, <1>11, <1>12 DEF IInv

\* The commit of another key for a lead that was found.
LEMMA DuplicateStep ==
  ASSUME IInv, NEW r \in Requests, Commit(r), request[r].lead # r
  PROVE  /\ IInv'
         /\ Contract!Duplicate(request[r].key, request[r].listing)
<1> DEFINE q == request[r]
           row == [key |-> q.key, listing |-> q.listing, lead |-> q.lead]
           answer == [pc |-> "duplicated", listing |-> q.listing, lead |-> q.lead]
<1>1. q.pc = "commit" /\ q \in Open
  BY OpenFields DEF Commit, At, IInv
<1>2. /\ leads' = leads /\ events' = events
      /\ keys' = keys \cup {row}
      /\ request' = [request EXCEPT ![r] = answer]
  BY DEF Commit, Answer
<1>3. /\ request'[r] = answer
      /\ \A s \in Requests \ {r} : request'[s] = request[s]
  BY <1>2 DEF IInv, TypeOK
<1>4. row \in [key: Keys, listing: Listings, lead: Requests] /\ answer \in Answers
  BY <1>1 DEF Open, Answers
<1>5. TypeOK'
  BY <1>2, <1>4 DEF IInv, TypeOK
<1>6. /\ \A other \in keys : other.key # q.key
      /\ \A s \in Requests \ {r} : ~HoldsKey(s, q.key)
      /\ \E l \in leads : l.id = q.lead /\ RecordOf[l.listing] = RecordOf[q.listing]
  BY <1>1 DEF IInv, Knows, KeyIsMine, LeadIsThere, LeadsLike, Holding, At
<1>7. ASSUME NEW s \in Requests \ {r} PROVE Knows(s)'
  <2>1. request'[s] = request[s] /\ Knows(s)
    BY <1>3 DEF IInv
  <2>2. OwnLead(s)'
    BY <2>1 DEF Knows, OwnLead
  <2>3. KeyIsMine(s)'
    <3>1. request[s].pc \in Holding => \A other \in keys' : other.key # request[s].key
      <4>1. request[s].pc \in Holding => request[s].key # q.key
        BY <1>6 DEF HoldsKey, Holding
      <4>2. QED
        BY <1>2, <2>1, <4>1 DEF Knows, KeyIsMine
    <3>2. ~HoldsKey(r, request[s].key)'
      BY <1>3 DEF HoldsKey
    <3>3. QED
      BY <1>3, <2>1, <3>1, <3>2 DEF Knows, KeyIsMine, HoldsKey
  <2>4. RecordIsMine(s)'
    <3>1. ~HoldsRecord(r, RecordOf[request[s].listing])'
      BY <1>3 DEF HoldsRecord, At
    <3>2. QED
      BY <1>2, <1>3, <2>1, <3>1 DEF Knows, RecordIsMine, HoldsRecord, At, LeadsLike
  <2>5. LeadIsThere(s)'
    BY <1>2, <2>1 DEF Knows, LeadIsThere, LeadsLike, At, Answered
  <2>6. QED
    BY <2>2, <2>3, <2>4, <2>5 DEF Knows
<1>8. Knows(r)'
  BY <1>2, <1>3, <1>6 DEF Knows, OwnLead, KeyIsMine, RecordIsMine, LeadIsThere, LeadsLike, Holding, At
<1>9. OwnersCreated'
  BY <1>1, <1>2, <1>3 DEF IInv, TypeOK, OwnersCreated, At
<1>10. Contract!OneLeadPerRecord'
  BY <1>2, <1>6 DEF IInv, Contract!OneLeadPerRecord
<1>11. Contract!Duplicate(q.key, q.listing)
  BY <1>2, <1>6 DEF Contract!Duplicate, Contract!SameRecord, Contract!Reserved
<1>12. QED
  BY <1>5, <1>7, <1>8, <1>9, <1>10, <1>11 DEF IInv

-----------------------------------------------------------------------------

LEMMA InitHolds == Init => IInv
BY DEF Init, IInv, TypeOK, Knows, OwnLead, KeyIsMine, RecordIsMine, LeadIsThere, OwnersCreated,
       Contract!OneLeadPerRecord, Unsent, Holding, At, Answered

\* A step keeps the invariant, and is one of the contract or leaves the tables alone.
LEMMA NextStep ==
  ASSUME IInv, [Next]_vars
  PROVE  IInv' /\ [Contract!Next]_(Contract!vars)
<1>1. CASE UNCHANGED vars
  BY <1>1 DEF vars, store, IInv, TypeOK, Knows, OwnLead, KeyIsMine, RecordIsMine, LeadIsThere,
              OwnersCreated, Contract!OneLeadPerRecord, Contract!vars, HoldsKey, HoldsRecord,
              LeadsLike, At, Answered
<1>2. CASE Next
  <2>1. PICK r \in Requests : Submit(r) \/ Proceed(r) \/ Fail(r)
    BY <1>2 DEF Next
  <2>2. CASE Submit(r) \/ Reserve(r) \/ Replay(r) \/ InsertLead(r) \/ ResolveDuplicate(r) \/ Fail(r)
    <3>1. IInv'
      BY <2>2, SubmitStep, ReserveStep, ReplayStep, InsertStep, ResolveStep, FailStep
    <3>2. UNCHANGED store
      BY <2>2 DEF Submit, Reserve, Replay, InsertLead, ResolveDuplicate, Fail
    <3>3. QED
      BY <3>1, <3>2 DEF store, Contract!vars
  <2>3. CASE Commit(r)
    <3>1. request[r].key \in Keys /\ request[r].listing \in Listings
      BY <2>3, OpenFields DEF Commit, At, IInv, Open
    <3>2. IInv' /\ Contract!Next
      BY <2>3, <3>1, CreateStep, DuplicateStep DEF Contract!Next
    <3>3. QED
      BY <3>2
  <2>4. QED
    BY <2>1, <2>2, <2>3 DEF Proceed
<1>3. QED
  BY <1>1, <1>2

LEMMA Invariance == Spec => []IInv
BY InitHolds, NextStep, PTL DEF Spec

\* Tables and requests keep their types.
THEOREM TypeCorrect == Spec => []TypeOK
<1>1. IInv => TypeOK
  BY DEF IInv
<1>2. QED
  BY <1>1, Invariance, PTL

(***************************************************************************)
(* A source record has one lead, event and owner of its keys, and every    *)
(* answer names the stored lead, for any number of overlapping requests.   *)
(***************************************************************************)
THEOREM AnswersAlwaysAgree == Spec => []AnswersAgree
<1>1. IInv => AnswersAgree
  BY DEF IInv, AnswersAgree, Knows, OwnLead, LeadIsThere, LeadsLike, Answered, At
<1>2. QED
  BY <1>1, Invariance, PTL

(***************************************************************************)
(* The transactions over Postgres implement the in-memory adapter: each of *)
(* their steps is one of its steps or leaves the tables alone.             *)
(***************************************************************************)
THEOREM Refinement == Spec => ImplementsContract
<1>1. Init => Contract!Init
  BY DEF Init, Contract!Init
<1>2. IInv /\ [Next]_vars => [Contract!Next]_(Contract!vars)
  BY NextStep
<1>3. QED
  BY <1>1, <1>2, Invariance, PTL DEF Spec, ImplementsContract, Contract!Spec

=============================================================================
