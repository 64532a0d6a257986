---------------------------- MODULE Sales_proofs ----------------------------
(***************************************************************************)
(* Theorems about Sales, for every set of leads, requests, keys and forms, *)
(* every choice of uses and of people's commands.                          *)
(*                                                                         *)
(* The properties follow from what a request may rely on between two of    *)
(* its steps (Good), which stays true because rows are only added and a    *)
(* lead that changes gets a new version (Grows).                           *)
(***************************************************************************)
EXTENDS Sales, TLAPS

-----------------------------------------------------------------------------
(* The inductive invariant *)

\* A suspended lead stores the stage it will come back to, any other none.
ResumesKnown ==
  \A l \in Leads :
    IF lead[l].status \in Suspended THEN lead[l].resume \in Active ELSE lead[l].resume = Nil

\* The fields that an operation has, at the steps that it has.
WellFormed(q) ==
  /\ q.op = "PROVIDER_DELIVERY" <=> q.lead = Nil
  /\ IF q.op = "CONFIRM" THEN q.body \in Bodies ELSE q.body = Nil
  /\ q.op = "JOB" => q.from \in {"QUOTE_SENT", "NEGOTIATING"}
  /\ q.pc \in {"snapshot", "accepted"} => q.op = "JOB"
  /\ q.pc = "price" => q.op = "QUOTE"
  /\ q.pc \in {"reread", "advance"} => q.op \in {"CONFIRM", "QUOTE", "NEGOTIATION", "JOB"}
  /\ q.pc # "reread" /\ q.lead # Nil => q.status \in Statuses
  /\ q.step > 0

HasVersion(l, n) == \E v \in VersionsOf(l) : v.version = n

\* A request moves the lead only for a row that is stored.
RowIsStored(q) ==
  q.pc \in {"reread", "advance"} =>
    IF q.op = "CONFIRM" THEN \E v \in VersionsOf(q.lead) : v.body = q.body
                        ELSE HasRecord(q.op, q.lead)

\* A price that is about to be stored was made from a version of the lead.
PricedFromVersion(q) ==
  q.op = "QUOTE" /\ q.pc = "save" => HasVersion(q.lead, q.requirement)

\* What a request for a job has read still fits together.
SnapshotHolds(q) ==
  q.op = "JOB" =>
    /\ q.pc \in {"accepted", "lookup", "save"} =>
         q.quote \in QuotesOf(q.lead) /\ q.total = Total(q.quote)
    /\ q.pc \in {"lookup", "save"} =>
         records[q.quote].requirement <= q.requirement /\ HasVersion(q.lead, q.requirement)

\* What a request in flight may rely on.
Good(q) ==
  WellFormed(q) /\ RowIsStored(q) /\ PricedFromVersion(q) /\ SnapshotHolds(q) /\ TrueOfLead(q)

RequestsGood == \A r \in Requests : request[r] # Idle => Good(request[r])

\* One of a lead's versions is the newest.
VersionsHaveLatest ==
  \A l \in Leads :
    VersionsOf(l) # {} => \E v \in VersionsOf(l) : \A w \in VersionsOf(l) : w.version <= v.version

\* One of a lead's quotes is the oldest.
QuotesHaveFirst ==
  \A l \in Leads : QuotesOf(l) # {} => \E n \in QuotesOf(l) : \A m \in QuotesOf(l) : n <= m

\* A stored quote was priced from a version of its lead.
QuotesArePriced ==
  \A n \in DOMAIN records :
    records[n].kind = "QUOTE" => HasVersion(records[n].lead, records[n].requirement)

\* The status and version that a stored move answers were the lead's.
MovesWereTrue ==
  \A m \in moves :
    /\ m.version <= lead[m.lead].version
    /\ m.version = lead[m.lead].version => m.to = lead[m.lead].status

\* The inductive invariant.
IInv ==
  /\ TypeOK
  /\ ResumesKnown
  /\ RequestsGood
  /\ VersionsHaveLatest
  /\ QuotesHaveFirst
  /\ QuotesArePriced
  /\ MovesWereTrue
  /\ StageHasRecord
  /\ JobFollowsQuote

-----------------------------------------------------------------------------
(* The newest version, the oldest quote and the next step exist *)

LEMMA LeastIsMin ==
  ASSUME NEW S \in SUBSET Nat, NEW n \in S, \A m \in S : n <= m
  PROVE  Min(S) = n
<1>1. \E x : x \in S /\ \A y \in S : x <= y
  OBVIOUS
<1>2. Min(S) \in S /\ \A y \in S : Min(S) <= y
  BY <1>1, Zenon DEF Min
<1>3. n <= Min(S) /\ Min(S) <= n
  BY <1>2
<1>4. Min(S) \in Nat /\ n \in Nat
  BY <1>2
<1>5. QED
  BY <1>3, <1>4

\* latestForLead finds a version of the lead, and no newer one exists.
LEMMA LatestIsNewest ==
  ASSUME IInv, NEW l \in Leads, VersionsOf(l) # {}
  PROVE  /\ LatestRequirement(l) \in VersionsOf(l)
         /\ \A w \in VersionsOf(l) : w.version <= LatestRequirement(l).version
<1>1. \E v : v \in VersionsOf(l) /\ \A w \in VersionsOf(l) : w.version <= v.version
  BY DEF IInv, VersionsHaveLatest
<1>2. QED
  BY <1>1, Zenon DEF LatestRequirement

LEMMA RecordTypes ==
  ASSUME TypeOK
  PROVE  /\ Len(records) \in Nat /\ DOMAIN records = 1..Len(records)
         /\ \A n \in DOMAIN records : n \in Nat /\ records[n] \in RecordRows
<1>1. records \in Seq(RecordRows)
  BY DEF TypeOK
<1>2. QED
  BY <1>1

\* The quote that accept snapshots is one of the lead's.
LEMMA FirstQuoteExists ==
  ASSUME IInv, NEW l \in Leads, QuotesOf(l) # {}
  PROVE  Min(QuotesOf(l)) \in QuotesOf(l)
<1>1. PICK n \in QuotesOf(l) : \A m \in QuotesOf(l) : n <= m
  BY DEF IInv, QuotesHaveFirst
<1>2. QuotesOf(l) \in SUBSET Nat
  BY DEF IInv, TypeOK, QuotesOf
<1>3. Min(QuotesOf(l)) = n
  BY <1>1, <1>2, LeastIsMin
<1>4. QED
  BY <1>1, <1>3

(***************************************************************************)
(* The step that advanceCommercial and finish make next starts from the    *)
(* status in hand, and is one of their eight.                              *)
(***************************************************************************)
NextMove(q) == Steps(q)[Min(Pending(q))]

MovesOf(op) ==
  CASE op = "CONFIRM"     -> {<<"INTERESTED", "QUALIFYING">>, <<"QUALIFYING", "QUALIFIED">>}
    [] op = "QUOTE"       -> {<<"QUALIFIED", "QUOTE_READY">>, <<"QUOTE_READY", "QUOTE_SENT">>}
    [] op = "NEGOTIATION" -> {<<"QUOTE_SENT", "NEGOTIATING">>}
    [] op = "JOB"         -> {<<"QUOTE_SENT", "CUSTOMER_ACCEPTED">>,
                              <<"NEGOTIATING", "CUSTOMER_ACCEPTED">>,
                              <<"CUSTOMER_ACCEPTED", "JOB_READY">>}

LEMMA NextMoveIsStep ==
  ASSUME NEW q \in ActiveRequests, WellFormed(q), q.pc = "advance", Pending(q) # {}
  PROVE  /\ Min(Pending(q)) \in 1..2
         /\ NextMove(q) \in MovesOf(q.op)
         /\ NextMove(q)[1] = q.status
         /\ Vouched(q, NextMove(q)[2])
<1>1. q.op \in {"CONFIRM", "QUOTE", "NEGOTIATION", "JOB"} /\ q.step \in Nat \ {0}
  BY DEF WellFormed, ActiveRequests
<1>2. /\ Len(Steps(q)) \in 1..2
      /\ \A i \in 1..Len(Steps(q)) : Steps(q)[i] \in MovesOf(q.op)
  <2>1. CASE q.op = "CONFIRM"
    BY <2>1 DEF Steps, Operation, Confirm, MovesOf
  <2>2. CASE q.op = "QUOTE"
    BY <2>2 DEF Steps, Operation, Quote, MovesOf
  <2>3. CASE q.op = "NEGOTIATION"
    BY <2>3 DEF Steps, Operation, Negotiate, MovesOf
  <2>4. CASE q.op = "JOB"
    BY <2>4 DEF Steps, Operation, Accept, MovesOf, WellFormed
  <2>5. QED
    BY <1>1, <2>1, <2>2, <2>3, <2>4
<1>3. Pending(q) \subseteq 1..2
  BY <1>1, <1>2 DEF Pending
<1>4. Min(Pending(q)) \in Pending(q)
  <2>1. PICK n \in Pending(q) : \A m \in Pending(q) : n <= m
    BY <1>3
  <2>2. Min(Pending(q)) = n
    BY <1>3, <2>1, LeastIsMin
  <2>3. QED
    BY <2>1, <2>2
<1>5. QED
  BY <1>1, <1>2, <1>3, <1>4 DEF Pending, NextMove

-----------------------------------------------------------------------------
(* Nothing is taken back *)

\* Rows are only added, and a lead that changes gets a higher version.
Grows ==
  /\ requirements \subseteq requirements'
  /\ \A n \in DOMAIN records : n \in DOMAIN records' /\ records'[n] = records[n]
  /\ \A l \in Leads : lead'[l] = lead[l] \/ lead'[l].version > lead[l].version

LEMMA RowsStay ==
  ASSUME Grows, NEW l
  PROVE  /\ VersionsOf(l) \subseteq VersionsOf(l)'
         /\ QuotesOf(l) \subseteq QuotesOf(l)'
         /\ \A n \in QuotesOf(l) : records'[n] = records[n]
         /\ \A n : HasVersion(l, n) => HasVersion(l, n)'
         /\ \A kind : HasRecord(kind, l) => HasRecord(kind, l)'
BY DEF Grows, VersionsOf, QuotesOf, HasVersion, HasRecord

\* What one request relies on, no step of another takes away.
LEMMA GoodStays ==
  ASSUME TypeOK, TypeOK', Grows, NEW q \in ActiveRequests, Good(q)
  PROVE  Good(q)'
<1>1. WellFormed(q)'
  BY DEF Good, WellFormed
<1>2. RowIsStored(q)'
  BY RowsStay DEF Good, RowIsStored
<1>3. PricedFromVersion(q)'
  BY RowsStay DEF Good, PricedFromVersion
<1>4. SnapshotHolds(q)'
  <2>1. SUFFICES ASSUME q.op = "JOB", q.pc \in {"accepted", "lookup", "save"}
                 PROVE  SnapshotHolds(q)'
    BY DEF SnapshotHolds
  <2>2. q.quote \in QuotesOf(q.lead) /\ q.total = Total(q.quote)
    BY <2>1 DEF Good, SnapshotHolds
  <2>3. q.quote \in QuotesOf(q.lead)' /\ records'[q.quote] = records[q.quote]
    BY <2>2, RowsStay
  <2>4. HasVersion(q.lead, q.requirement) => HasVersion(q.lead, q.requirement)'
    BY RowsStay
  <2>5. QED
    BY <2>1, <2>2, <2>3, <2>4 DEF Good, SnapshotHolds, Total
<1>5. TrueOfLead(q)'
  <2>1. SUFFICES ASSUME q.pc # "reread", q.lead \in Leads
                 PROVE  TrueOfLead(q)'
    BY DEF TrueOfLead, ActiveRequests
  <2>2. /\ q.version <= lead[q.lead].version
        /\ q.version = lead[q.lead].version => q.status = lead[q.lead].status
    BY <2>1, SalesAssumption DEF Good, TrueOfLead, ActiveRequests
  <2>3. lead[q.lead].version \in Nat /\ lead'[q.lead].version \in Nat /\ q.version \in Nat
    BY <2>1 DEF TypeOK, LeadRows, ActiveRequests
  <2>4. lead'[q.lead] = lead[q.lead] \/ lead'[q.lead].version > lead[q.lead].version
    BY <2>1 DEF Grows
  <2>5. QED
    BY <2>2, <2>3, <2>4 DEF TrueOfLead
<1>6. QED
  BY <1>1, <1>2, <1>3, <1>4, <1>5 DEF Good

\* The requests in flight stay good when one of them gets to a good state, or ends.
LEMMA RequestsStayGood ==
  ASSUME IInv, TypeOK', Grows, NEW r \in Requests, NEW q, q # Idle => Good(q)',
         request' = [request EXCEPT ![r] = q]
  PROVE  RequestsGood'
<1>1. \A s \in Requests : request'[s] = IF s = r THEN q ELSE request[s]
  BY DEF IInv, TypeOK
<1>2. ASSUME NEW s \in Requests, request[s] # Idle
      PROVE  Good(request[s]) /\ request[s] \in ActiveRequests
  BY <1>2 DEF IInv, TypeOK, RequestsGood
<1>3. ASSUME NEW s \in Requests, s # r, request'[s] # Idle
      PROVE  Good(request[s])'
  <2>1. PICK p : p = request[s]
    OBVIOUS
  <2>2. p # Idle /\ request'[s] = p
    BY <1>1, <1>3, <2>1
  <2>3. Good(p) /\ p \in ActiveRequests
    BY <1>2, <2>1, <2>2
  <2>4. Good(p)'
    BY <2>3, GoodStays DEF IInv
  <2>5. QED
    BY <2>2, <2>4 DEF Good, WellFormed, RowIsStored, PricedFromVersion, SnapshotHolds, TrueOfLead
<1>4. ASSUME request'[r] # Idle
      PROVE  Good(request[r])'
  <2>1. q # Idle /\ request'[r] = q
    BY <1>1, <1>4
  <2>2. QED
    BY <2>1 DEF Good, WellFormed, RowIsStored, PricedFromVersion, SnapshotHolds, TrueOfLead
<1>5. QED
  BY <1>3, <1>4 DEF RequestsGood

-----------------------------------------------------------------------------
(* Steps that write no table *)

LEMMA ReadStep ==
  ASSUME IInv, NEW r \in Requests, NEW q \in {Idle} \cup ActiveRequests, q # Idle => Good(q),
         request' = [request EXCEPT ![r] = q],
         UNCHANGED <<lead, requirements, records, moves, signals>>
  PROVE  IInv'
<1>1. TypeOK'
  BY DEF IInv, TypeOK
<1>2. Grows
  BY DEF Grows
<1>3. q # Idle => Good(q)'
  BY <1>1, <1>2, GoodStays DEF IInv
<1>4. RequestsGood'
  BY <1>1, <1>2, <1>3, RequestsStayGood
<1>5. UNCHANGED <<ResumesKnown, VersionsHaveLatest, QuotesHaveFirst, QuotesArePriced,
                  MovesWereTrue, StageHasRecord, JobFollowsQuote>>
  BY DEF ResumesKnown, VersionsHaveLatest, QuotesHaveFirst, QuotesArePriced, MovesWereTrue,
         StageHasRecord, JobFollowsQuote, VersionsOf, QuotesOf, HasVersion, HasRecord, Stage
<1>6. QED
  BY <1>1, <1>4, <1>5 DEF IInv

\* What a request that is not idle has.
LEMMA InFlight ==
  ASSUME IInv, NEW r \in Requests, request[r].pc # "idle"
  PROVE  request[r] \in ActiveRequests /\ Good(request[r])
BY DEF IInv, TypeOK, RequestsGood, Idle

LEMMA SendStep ==
  ASSUME IInv, NEW r \in Requests, Send(r)
  PROVE  IInv'
<1>1. PICK use \in Uses, l \in Leads :
        /\ use[1] \notin {"RISK", "PROVIDER_DELIVERY"}
        /\ \E expected \in SentVersions(use[1], use[2], l),
              body \in IF use[1] = "CONFIRM" THEN Bodies ELSE {Nil} :
             Begin(r, use[1], use[2], l, expected, body)
  BY DEF Send
<1> DEFINE op == use[1]
           k == use[2]
<1>2. /\ k \in Keys
      /\ op \in {"CONFIRM", "QUOTE", "NEGOTIATION", "JOB", "FOLLOW_UP"}
  BY <1>1, SalesAssumption DEF Kinds
<1>3. PICK expected \in SentVersions(op, k, l), body \in IF op = "CONFIRM" THEN Bodies ELSE {Nil} :
        Begin(r, op, k, l, expected, body)
  BY <1>1
<1>4. SentVersions(op, k, l) \subseteq Nat
  <2>1. lead[l].version \in Nat
    BY DEF IInv, TypeOK, LeadRows
  <2>2. \A n \in Recorded(op, k) : records[n].expected \in Nat
    BY RecordTypes DEF IInv, RecordRows, Recorded
  <2>3. \A v \in Confirmed(k) : v.expected \in Nat
    BY DEF IInv, TypeOK, RequirementRows, Confirmed
  <2>4. \A s \in Requests : request[s] # Idle => request[s].expected \in Nat
    BY DEF IInv, TypeOK, ActiveRequests
  <2>5. QED
    BY <2>1, <2>2, <2>3, <2>4 DEF SentVersions
<1>5. lead[l].status \in Statuses /\ lead[l].version \in Nat
  BY DEF IInv, TypeOK, LeadRows
<1>6. PICK q : /\ request' = [request EXCEPT ![r] = q]
               /\ q = [pc |-> IF op = "JOB" THEN "snapshot" ELSE "lookup",
                       op |-> op, key |-> k, lead |-> l, body |-> body, expected |-> expected,
                       status |-> lead[l].status, version |-> lead[l].version,
                       from |-> IF op # "JOB" THEN Nil
                                ELSE IF lead[l].status = "NEGOTIATING" THEN "NEGOTIATING"
                                ELSE "QUOTE_SENT",
                       requirement |-> 0, quote |-> 0, total |-> 0, step |-> 1]
  BY <1>3 DEF Begin
<1>7. q \in ActiveRequests
  BY <1>2, <1>3, <1>4, <1>5, <1>6 DEF ActiveRequests, Kinds, Statuses
<1>8. Good(q)
  <2>1. WellFormed(q)
    BY <1>2, <1>3, <1>5, <1>6, SalesAssumption DEF WellFormed
  <2>2. TrueOfLead(q)
    BY <1>5, <1>6 DEF TrueOfLead
  <2>3. RowIsStored(q) /\ PricedFromVersion(q)
    BY <1>6 DEF RowIsStored, PricedFromVersion
  <2>4. SnapshotHolds(q)
    BY <1>6 DEF SnapshotHolds
  <2>5. QED
    BY <2>1, <2>2, <2>3, <2>4 DEF Good
<1>9. UNCHANGED <<lead, requirements, records, moves, signals>>
  BY <1>3 DEF Begin
<1>10. QED
  BY <1>6, <1>7, <1>8, <1>9, ReadStep

LEMMA SendProviderStep ==
  ASSUME IInv, NEW r \in Requests, NEW k \in Keys, SendProvider(r, k)
  PROVE  IInv'
<1>1. PICK q : /\ request' = [request EXCEPT ![r] = q]
               /\ q = [pc |-> "lookup", op |-> "PROVIDER_DELIVERY", key |-> k, lead |-> Nil,
                       body |-> Nil, expected |-> 0, status |-> Nil, version |-> 0, from |-> Nil,
                       requirement |-> 0, quote |-> 0, total |-> 0, step |-> 1]
  BY DEF SendProvider
<1>2. q \in ActiveRequests
  BY <1>1 DEF ActiveRequests, Kinds
<1>3. Good(q)
  BY <1>1 DEF Good, WellFormed, RowIsStored, PricedFromVersion, SnapshotHolds, TrueOfLead
<1>4. QED
  BY <1>1, <1>2, <1>3, ReadStep DEF SendProvider

LEMMA ReadQuoteStep ==
  ASSUME IInv, NEW r \in Requests, ReadQuote(r)
  PROVE  IInv'
<1> DEFINE p == request[r]
           n == Min(QuotesOf(p.lead))
<1>1. /\ p.pc = "snapshot" /\ QuotesOf(p.lead) # {}
      /\ request' = [request EXCEPT ![r].pc = "accepted", ![r].quote = n, ![r].total = Total(n)]
      /\ UNCHANGED <<lead, requirements, records, moves, signals>>
  BY DEF ReadQuote
<1>2. p \in ActiveRequests /\ Good(p)
  BY <1>1, InFlight
<1>3. p.op = "JOB" /\ p.lead \in Leads
  BY <1>1, <1>2 DEF Good, WellFormed, ActiveRequests
<1>4. n \in QuotesOf(p.lead)
  BY <1>1, <1>3, FirstQuoteExists
<1>5. n \in Nat /\ Total(n) \in Nat
  BY <1>4, RecordTypes DEF IInv, QuotesOf, Total, RecordRows
<1>6. PICK q : q = [p EXCEPT !.pc = "accepted", !.quote = n, !.total = Total(n)]
  OBVIOUS
<1>7. request' = [request EXCEPT ![r] = q]
  BY <1>1, <1>6 DEF IInv, TypeOK
<1> HIDE DEF p, n
<1>8. q \in ActiveRequests
  BY <1>2, <1>5, <1>6 DEF ActiveRequests
<1>9. /\ q.pc = "accepted" /\ q.op = p.op /\ q.lead = p.lead /\ q.body = p.body
      /\ q.from = p.from /\ q.status = p.status /\ q.version = p.version /\ q.step = p.step
      /\ q.quote = n /\ q.total = Total(n)
  BY <1>2, <1>6 DEF ActiveRequests
<1>10. Good(q)
  BY <1>1, <1>2, <1>3, <1>4, <1>9
     DEF Good, WellFormed, RowIsStored, PricedFromVersion, SnapshotHolds, TrueOfLead
<1>11. QED
  BY <1>1, <1>7, <1>8, <1>10, ReadStep

LEMMA ReadRequirementStep ==
  ASSUME IInv, NEW r \in Requests, ReadRequirement(r)
  PROVE  IInv'
<1> DEFINE p == request[r]
           n == Named(p.lead)
<1>1. /\ p.pc = "accepted" /\ VersionsOf(p.lead) # {}
      /\ request' = [request EXCEPT ![r].pc = "lookup", ![r].requirement = n]
      /\ UNCHANGED <<lead, requirements, records, moves, signals>>
  BY DEF ReadRequirement
<1>2. p \in ActiveRequests /\ Good(p)
  BY <1>1, InFlight
<1>3. /\ p.op = "JOB" /\ p.lead \in Leads
      /\ p.quote \in QuotesOf(p.lead) /\ p.total = Total(p.quote)
  BY <1>1, <1>2 DEF Good, WellFormed, SnapshotHolds, ActiveRequests
<1>4. /\ LatestRequirement(p.lead) \in VersionsOf(p.lead)
      /\ \A w \in VersionsOf(p.lead) : w.version <= n
  BY <1>1, <1>3, LatestIsNewest DEF Named
<1>5. n \in Nat /\ HasVersion(p.lead, n)
  BY <1>4 DEF IInv, TypeOK, RequirementRows, VersionsOf, Named, HasVersion
<1>6. records[p.quote].requirement <= n
  <2>1. /\ p.quote \in DOMAIN records /\ records[p.quote].kind = "QUOTE"
        /\ records[p.quote].lead = p.lead
    BY <1>3 DEF QuotesOf
  <2>2. HasVersion(p.lead, records[p.quote].requirement)
    BY <2>1 DEF IInv, QuotesArePriced
  <2>3. QED
    BY <1>4, <2>2 DEF HasVersion
<1>7. PICK q : q = [p EXCEPT !.pc = "lookup", !.requirement = n]
  OBVIOUS
<1>8. request' = [request EXCEPT ![r] = q]
  BY <1>1, <1>7 DEF IInv, TypeOK
<1> HIDE DEF p, n
<1>9. q \in ActiveRequests
  BY <1>2, <1>5, <1>7 DEF ActiveRequests
<1>10. /\ q.pc = "lookup" /\ q.op = p.op /\ q.lead = p.lead /\ q.body = p.body
       /\ q.from = p.from /\ q.status = p.status /\ q.version = p.version /\ q.step = p.step
       /\ q.quote = p.quote /\ q.total = p.total /\ q.requirement = n
  BY <1>2, <1>7 DEF ActiveRequests
<1>11. Good(q)
  BY <1>1, <1>2, <1>3, <1>5, <1>6, <1>10
     DEF Good, WellFormed, RowIsStored, PricedFromVersion, SnapshotHolds, TrueOfLead
<1>12. QED
  BY <1>1, <1>8, <1>9, <1>11, ReadStep

\* Once its row is stored, a request needs no more than its key, lead and form.
LEMMA RememberedIsGood ==
  ASSUME NEW p \in ActiveRequests, WellFormed(p),
         p.op \in {"CONFIRM", "QUOTE", "NEGOTIATION", "JOB"},
         IF p.op = "CONFIRM" THEN \E v \in VersionsOf(p.lead) : v.body = p.body
                             ELSE HasRecord(p.op, p.lead)
  PROVE  Remembered(p) \in ActiveRequests /\ Good(Remembered(p))
<1>1. Remembered(p) \in ActiveRequests
  BY DEF Remembered, ActiveRequests
<1>2. PICK q : q = Remembered(p)
  OBVIOUS
<1>3. /\ q.pc = "reread" /\ q.op = p.op /\ q.lead = p.lead /\ q.body = p.body
      /\ q.from = p.from /\ q.step = p.step
  BY <1>2 DEF Remembered, ActiveRequests
<1>4. Good(q)
  BY <1>3 DEF Good, WellFormed, RowIsStored, PricedFromVersion, SnapshotHolds, TrueOfLead
<1>5. QED
  BY <1>1, <1>2, <1>4

\* A request that only goes on from one of the first steps to the next.
LEMMA GoesOn ==
  ASSUME NEW p \in ActiveRequests, Good(p), p.pc = "lookup",
         NEW pc \in {"price", "save"}, pc = "price" <=> p.op = "QUOTE"
  PROVE  /\ [p EXCEPT !.pc = pc] \in ActiveRequests
         /\ Good([p EXCEPT !.pc = pc])
<1>1. PICK q : q = [p EXCEPT !.pc = pc]
  OBVIOUS
<1>2. /\ q.pc = pc /\ q.op = p.op /\ q.lead = p.lead /\ q.body = p.body
      /\ q.from = p.from /\ q.status = p.status /\ q.version = p.version /\ q.step = p.step
      /\ q.quote = p.quote /\ q.total = p.total /\ q.requirement = p.requirement
  BY <1>1 DEF ActiveRequests
<1>3. Good(q)
  BY <1>2 DEF Good, WellFormed, RowIsStored, PricedFromVersion, SnapshotHolds, TrueOfLead
<1>4. [p EXCEPT !.pc = pc] \in ActiveRequests
  BY DEF ActiveRequests
<1>5. QED
  BY <1>1, <1>3, <1>4

LEMMA LookupStep ==
  ASSUME IInv, NEW r \in Requests, Lookup(r)
  PROVE  IInv'
<1>1. PICK p : p = request[r]
  OBVIOUS
<1>2. p.pc = "lookup" /\ UNCHANGED <<lead, requirements, records, moves, signals>>
  BY <1>1 DEF Lookup
<1>3. p \in ActiveRequests /\ Good(p)
  BY <1>1, <1>2, InFlight
<1>4. WellFormed(p)
  BY <1>3 DEF Good
<1>5. CASE /\ p.op = "CONFIRM"
           /\ \E v \in Confirmed(p.key) : SameConfirmation(v, p)
           /\ request' = [request EXCEPT ![r] = Remembered(p)]
  <2>1. \E v \in VersionsOf(p.lead) : v.body = p.body
    BY <1>5 DEF Confirmed, SameConfirmation, SameRecord, VersionsOf
  <2>2. Remembered(p) \in ActiveRequests /\ Good(Remembered(p))
    BY <1>3, <1>4, <1>5, <2>1, RememberedIsGood
  <2>3. QED
    BY <1>2, <1>5, <2>2, ReadStep
<1>6. CASE /\ p.op \in {"QUOTE", "NEGOTIATION", "JOB"}
           /\ \E n \in Recorded(p.op, p.key) : SameRecord(records[n], p)
           /\ request' = [request EXCEPT ![r] = Remembered(p)]
  <2>1. HasRecord(p.op, p.lead)
    BY <1>6 DEF Recorded, SameRecord, HasRecord
  <2>2. Remembered(p) \in ActiveRequests /\ Good(Remembered(p))
    BY <1>3, <1>4, <1>6, <2>1, RememberedIsGood
  <2>3. QED
    BY <1>2, <1>6, <2>2, ReadStep
<1>7. CASE request' = [request EXCEPT ![r].pc = IF p.op = "QUOTE" THEN "price" ELSE "save"]
  <2>1. PICK pc \in {"price", "save"} :
          pc = (IF p.op = "QUOTE" THEN "price" ELSE "save")
    OBVIOUS
  <2>2. request' = [request EXCEPT ![r] = [p EXCEPT !.pc = pc]]
    BY <1>1, <1>7, <2>1 DEF IInv, TypeOK
  <2>3. [p EXCEPT !.pc = pc] \in ActiveRequests /\ Good([p EXCEPT !.pc = pc])
    BY <1>2, <1>3, <2>1, GoesOn
  <2>4. QED
    BY <1>2, <2>2, <2>3, ReadStep
<1>8. QED
  BY <1>1, <1>5, <1>6, <1>7 DEF Lookup

LEMMA PriceStep ==
  ASSUME IInv, NEW r \in Requests, Price(r)
  PROVE  IInv'
<1>1. PICK p : p = request[r]
  OBVIOUS
<1>2. p.pc = "price" /\ UNCHANGED <<lead, requirements, records, moves, signals>>
  BY <1>1 DEF Price
<1>3. p \in ActiveRequests /\ Good(p)
  BY <1>1, <1>2, InFlight
<1>4. WellFormed(p) /\ p.op = "QUOTE" /\ p.lead \in Leads
  BY <1>2, <1>3 DEF Good, WellFormed, ActiveRequests
<1> DEFINE latest == LatestRequirement(p.lead)
<1>5. CASE /\ \E n \in Recorded("QUOTE", p.key) : SameRecord(records[n], p)
           /\ request' = [request EXCEPT ![r] = Remembered(p)]
  <2>1. HasRecord("QUOTE", p.lead)
    BY <1>5 DEF Recorded, SameRecord, HasRecord
  <2>2. Remembered(p) \in ActiveRequests /\ Good(Remembered(p))
    BY <1>3, <1>4, <2>1, RememberedIsGood
  <2>3. QED
    BY <1>2, <1>5, <2>2, ReadStep
<1>6. CASE /\ VersionsOf(p.lead) # {}
           /\ request' = [request EXCEPT ![r].pc = "save",
                ![r].requirement = latest.version, ![r].total = Hours[latest.body]]
  <2>1. latest \in VersionsOf(p.lead)
    BY <1>4, <1>6, LatestIsNewest
  <2>2. latest.version \in Nat /\ latest.body \in Bodies /\ HasVersion(p.lead, latest.version)
    BY <2>1 DEF IInv, TypeOK, RequirementRows, VersionsOf, HasVersion
  <2>3. Hours[latest.body] \in Nat
    BY <2>2, SalesAssumption
  <2> HIDE DEF latest
  <2>4. PICK q : q = [p EXCEPT !.pc = "save", !.requirement = latest.version,
                               !.total = Hours[latest.body]]
    OBVIOUS
  <2>5. request' = [request EXCEPT ![r] = q]
    BY <1>1, <1>6, <2>4 DEF IInv, TypeOK
  <2>6. q \in ActiveRequests
    BY <1>3, <2>2, <2>3, <2>4 DEF ActiveRequests
  <2>7. /\ q.pc = "save" /\ q.op = p.op /\ q.lead = p.lead /\ q.body = p.body
        /\ q.from = p.from /\ q.status = p.status /\ q.version = p.version /\ q.step = p.step
        /\ q.requirement = latest.version
    BY <1>3, <2>4 DEF ActiveRequests
  <2>8. Good(q)
    BY <1>2, <1>3, <1>4, <2>2, <2>7
       DEF Good, WellFormed, RowIsStored, PricedFromVersion, SnapshotHolds, TrueOfLead
  <2>9. QED
    BY <1>2, <2>5, <2>6, <2>8, ReadStep
<1>7. QED
  BY <1>1, <1>5, <1>6 DEF Price

LEMMA RereadStep ==
  ASSUME IInv, NEW r \in Requests, Reread(r)
  PROVE  IInv'
<1>1. PICK p : p = request[r]
  OBVIOUS
<1>2. /\ p.pc = "reread" /\ UNCHANGED <<lead, requirements, records, moves, signals>>
      /\ request' = [request EXCEPT ![r].pc = "advance",
           ![r].status = lead[p.lead].status, ![r].version = lead[p.lead].version]
  BY <1>1 DEF Reread
<1>3. p \in ActiveRequests /\ Good(p)
  BY <1>1, <1>2, InFlight
<1>4. p.lead \in Leads
  BY <1>2, <1>3 DEF Good, WellFormed, ActiveRequests
<1>5. PICK row \in LeadRows : row = lead[p.lead]
  BY <1>4 DEF IInv, TypeOK
<1>6. PICK q : q = [p EXCEPT !.pc = "advance", !.status = row.status, !.version = row.version]
  OBVIOUS
<1>7. request' = [request EXCEPT ![r] = q]
  BY <1>1, <1>2, <1>5, <1>6 DEF IInv, TypeOK
<1>8. q \in ActiveRequests
  BY <1>3, <1>6 DEF ActiveRequests, LeadRows
<1>9. /\ q.pc = "advance" /\ q.op = p.op /\ q.lead = p.lead /\ q.body = p.body
      /\ q.from = p.from /\ q.status = row.status /\ q.version = row.version /\ q.step = p.step
  BY <1>3, <1>6 DEF ActiveRequests
<1>10. Good(q)
  BY <1>2, <1>3, <1>5, <1>9
     DEF Good, WellFormed, RowIsStored, PricedFromVersion, SnapshotHolds, TrueOfLead, LeadRows
<1>11. QED
  BY <1>2, <1>7, <1>8, <1>10, ReadStep

\* A request that has made a move, or found it made, at a true status and version.
LEMMA MovedIsGood ==
  ASSUME NEW p \in ActiveRequests, Good(p), p.pc = "advance",
         NEW status \in Statuses, NEW version \in Nat, NEW step \in Nat \ {0},
         /\ version <= lead[p.lead].version
         /\ version = lead[p.lead].version => status = lead[p.lead].status
  PROVE  LET q == [p EXCEPT !.status = status, !.version = version, !.step = step]
         IN  q \in ActiveRequests /\ Good(q)
<1>1. PICK q : q = [p EXCEPT !.status = status, !.version = version, !.step = step]
  OBVIOUS
<1>2. q \in ActiveRequests
  BY <1>1 DEF ActiveRequests
<1>3. /\ q.pc = "advance" /\ q.op = p.op /\ q.lead = p.lead /\ q.body = p.body
      /\ q.from = p.from /\ q.status = status /\ q.version = version /\ q.step = step
  BY <1>1 DEF ActiveRequests
<1>4. Good(q)
  BY <1>3 DEF Good, WellFormed, RowIsStored, PricedFromVersion, SnapshotHolds, TrueOfLead
<1>5. QED
  BY <1>1, <1>2, <1>4

LEMMA ReplayStepStep ==
  ASSUME IInv, NEW r \in Requests, ReplayStep(r)
  PROVE  IInv'
<1>1. PICK p : p = request[r]
  OBVIOUS
<1>2. /\ p.pc = "advance" /\ Pending(p) # {}
      /\ UNCHANGED <<lead, requirements, records, moves, signals>>
  BY <1>1 DEF ReplayStep
<1>3. p \in ActiveRequests /\ Good(p) /\ WellFormed(p)
  BY <1>1, <1>2, InFlight DEF Good
<1>4. PICK m \in moves :
        /\ SameStep(m, p)
        /\ request' = [request EXCEPT ![r].status = m.to, ![r].version = Replayed(m),
                                      ![r].step = Min(Pending(p)) + 1]
  BY <1>1 DEF ReplayStep
<1>5. Min(Pending(p)) \in 1..2
  BY <1>2, <1>3, NextMoveIsStep
<1>6. /\ m.to \in Statuses /\ m.version \in Nat /\ m.lead = p.lead
      /\ m.version <= lead[p.lead].version
      /\ m.version = lead[p.lead].version => m.to = lead[p.lead].status
  BY <1>4 DEF IInv, TypeOK, MoveRows, MovesWereTrue, SameStep
<1>7. PICK q : q = [p EXCEPT !.status = m.to, !.version = m.version,
                             !.step = Min(Pending(p)) + 1]
  OBVIOUS
<1>8. request' = [request EXCEPT ![r] = q]
  BY <1>1, <1>4, <1>7 DEF IInv, TypeOK, Replayed
<1>9. q \in ActiveRequests /\ Good(q)
  <2>1. PICK step \in Nat \ {0} : step = Min(Pending(p)) + 1
    BY <1>5
  <2>2. q = [p EXCEPT !.status = m.to, !.version = m.version, !.step = step]
    BY <1>7, <2>1
  <2>3. QED
    BY <1>2, <1>3, <1>6, <2>2, MovedIsGood
<1>10. QED
  BY <1>2, <1>8, <1>9, ReadStep

LEMMA FinishStep ==
  ASSUME IInv, NEW r \in Requests, Finish(r)
  PROVE  IInv'
BY ReadStep DEF Finish

-----------------------------------------------------------------------------
(* Steps that add a row *)

LEMMA SaveRequirementStep ==
  ASSUME IInv, NEW r \in Requests, SaveRequirement(r)
  PROVE  IInv'
<1>1. PICK p : p = request[r]
  OBVIOUS
<1>2. p.pc = "save" /\ p.op = "CONFIRM" /\ UNCHANGED <<lead, records, moves, signals>>
  BY <1>1 DEF SaveRequirement
<1>3. p \in ActiveRequests /\ Good(p)
  BY <1>1, <1>2, InFlight
<1>4. p.lead \in Leads /\ p.body \in Bodies
  BY <1>2, <1>3 DEF Good, WellFormed, ActiveRequests
<1>5. /\ NextVersion(p.lead) \in Nat
      /\ \A w \in VersionsOf(p.lead) : w.version <= NextVersion(p.lead)
  <2>1. \A w \in VersionsOf(p.lead) : w.version \in Nat
    BY DEF IInv, TypeOK, RequirementRows, VersionsOf
  <2>2. QED
    BY <1>4, <2>1, LatestIsNewest DEF NextVersion
<1>6. PICK row : row = [key |-> p.key, lead |-> p.lead, version |-> NextVersion(p.lead),
                        body |-> p.body, expected |-> p.expected]
  OBVIOUS
<1>7. /\ requirements' = requirements \cup {row}
      /\ request' = [request EXCEPT ![r].pc = "advance", ![r].expected = 0]
  BY <1>1, <1>6 DEF SaveRequirement
<1>8. PICK q : q = [p EXCEPT !.pc = "advance", !.expected = 0]
  OBVIOUS
<1>9. request' = [request EXCEPT ![r] = q]
  BY <1>1, <1>7, <1>8 DEF IInv, TypeOK
<1>10. q \in ActiveRequests
  BY <1>3, <1>8 DEF ActiveRequests
<1>11. row \in RequirementRows
  BY <1>3, <1>4, <1>5, <1>6 DEF RequirementRows, ActiveRequests
<1>12. TypeOK'
  BY <1>2, <1>7, <1>9, <1>10, <1>11 DEF IInv, TypeOK
<1>13. Grows
  BY <1>2, <1>7 DEF Grows
<1>14. VersionsOf(p.lead)' = VersionsOf(p.lead) \cup {row}
  BY <1>6, <1>7 DEF VersionsOf
<1>15. \A l \in Leads \ {p.lead} : VersionsOf(l)' = VersionsOf(l)
  BY <1>6, <1>7 DEF VersionsOf
<1>16. RequestsGood'
  <2>1. /\ q.pc = "advance" /\ q.op = p.op /\ q.lead = p.lead /\ q.body = p.body
        /\ q.from = p.from /\ q.status = p.status /\ q.version = p.version /\ q.step = p.step
    BY <1>3, <1>8 DEF ActiveRequests
  <2>2. WellFormed(q)'
    BY <1>2, <1>3, <2>1 DEF Good, WellFormed
  <2>3. RowIsStored(q)'
    <3>1. row \in requirements' /\ row.lead = q.lead /\ row.body = q.body
      BY <1>6, <1>7, <2>1
    <3>2. QED
      BY <1>2, <2>1, <3>1 DEF RowIsStored, VersionsOf
  <2>4. TrueOfLead(q)'
    BY <1>2, <1>3, <2>1 DEF Good, TrueOfLead
  <2>5. Good(q)'
    BY <1>2, <2>1, <2>2, <2>3, <2>4 DEF Good, PricedFromVersion, SnapshotHolds
  <2>6. QED
    BY <1>9, <1>12, <1>13, <2>5, RequestsStayGood
<1>17. VersionsHaveLatest'
  <2>1. \A w \in VersionsOf(p.lead)' : w.version <= row.version
    BY <1>5, <1>6, <1>14
  <2>2. QED
    BY <1>14, <1>15, <2>1 DEF IInv, VersionsHaveLatest
<1>18. QuotesHaveFirst' /\ ResumesKnown' /\ MovesWereTrue'
  BY <1>2 DEF IInv, QuotesHaveFirst, QuotesOf, ResumesKnown, MovesWereTrue
<1>19. QuotesArePriced'
  BY <1>2, <1>13, RowsStay DEF IInv, QuotesArePriced
<1>20. StageHasRecord'
  BY <1>2, <1>13, RowsStay DEF IInv, StageHasRecord, Stage
<1>21. JobFollowsQuote'
  BY <1>2, <1>13, RowsStay DEF IInv, JobFollowsQuote, QuotesOf
<1>22. QED
  BY <1>12, <1>16, <1>17, <1>18, <1>19, <1>20, <1>21 DEF IInv

\* What a request that stored its record, or met it, goes on with.
LEMMA AfterRecordIsGood ==
  ASSUME NEW p \in ActiveRequests, WellFormed(p), p.op # "CONFIRM", HasRecord(p.op, p.lead)
  PROVE  /\ AfterRecord(p) \in {Idle} \cup ActiveRequests
         /\ AfterRecord(p) # Idle => Good(AfterRecord(p))
<1>1. CASE p.op \in {"FOLLOW_UP", "PROVIDER_DELIVERY"}
  BY <1>1 DEF AfterRecord
<1>2. CASE p.op \in {"QUOTE", "NEGOTIATION", "JOB"}
  <2>1. Remembered(p) \in ActiveRequests /\ Good(Remembered(p))
    BY <1>2, RememberedIsGood
  <2>2. QED
    BY <1>2, <2>1 DEF AfterRecord
<1>3. QED
  BY <1>1, <1>2 DEF ActiveRequests, Kinds

\* The insert of a commercial record whose key is new.
LEMMA InsertRecordStep ==
  ASSUME IInv, NEW r \in Requests, NEW p, p = request[r], p.pc = "save", p.op # "CONFIRM",
         records' = Append(records,
           [kind |-> p.op, key |-> p.key, lead |-> p.lead, expected |-> p.expected,
            requirement |-> p.requirement, quote |-> p.quote, total |-> p.total]),
         request' = [request EXCEPT ![r] = AfterRecord(p)],
         UNCHANGED <<lead, requirements, moves, signals>>
  PROVE  IInv'
<1>1. p \in ActiveRequests /\ Good(p) /\ WellFormed(p)
  BY InFlight DEF Good
<1>2. PICK row : row = [kind |-> p.op, key |-> p.key, lead |-> p.lead, expected |-> p.expected,
                        requirement |-> p.requirement, quote |-> p.quote, total |-> p.total]
  OBVIOUS
<1>3. row \in RecordRows
  BY <1>1, <1>2 DEF ActiveRequests, RecordRows
<1>4. PICK n : n = Len(records) + 1
  OBVIOUS
<1>5. /\ n \in Nat /\ n \notin DOMAIN records
      /\ DOMAIN records' = DOMAIN records \cup {n}
      /\ \A i \in DOMAIN records : i \in Nat /\ i < n /\ records'[i] = records[i]
      /\ records'[n] = row
      /\ records' \in Seq(RecordRows)
  <2>1. records' = Append(records, row)
    BY <1>2
  <2>2. records \in Seq(RecordRows)
    BY DEF IInv, TypeOK
  <2>3. QED
    BY <1>3, <1>4, <2>1, <2>2
<1>6. Grows
  BY <1>5 DEF Grows
<1>7. HasRecord(p.op, p.lead)'
  BY <1>2, <1>5 DEF HasRecord
<1>8. PICK q : q = AfterRecord(p)
  OBVIOUS
<1>9. q \in {Idle} \cup ActiveRequests
  BY <1>1, <1>8 DEF AfterRecord, Remembered, ActiveRequests, Kinds
<1>10. TypeOK'
  BY <1>5, <1>8, <1>9 DEF IInv, TypeOK
<1>11. q # Idle => Good(q)'
  <2>1. SUFFICES ASSUME p.op \in {"QUOTE", "NEGOTIATION", "JOB"}
                 PROVE  Good(q)'
    BY <1>1, <1>8 DEF AfterRecord, ActiveRequests, Kinds
  <2>2. q = Remembered(p)
    BY <1>8, <2>1 DEF AfterRecord
  <2>3. /\ q.pc = "reread" /\ q.op = p.op /\ q.lead = p.lead /\ q.body = p.body
        /\ q.from = p.from /\ q.step = p.step
    BY <1>1, <2>2 DEF Remembered, ActiveRequests
  <2>4. QED
    BY <1>1, <1>7, <2>1, <2>3
       DEF Good, WellFormed, RowIsStored, PricedFromVersion, SnapshotHolds, TrueOfLead
<1>12. RequestsGood'
  BY <1>6, <1>8, <1>10, <1>11, RequestsStayGood
<1>13. \A l : QuotesOf(l)' = IF p.op = "QUOTE" /\ l = p.lead THEN QuotesOf(l) \cup {n}
                             ELSE QuotesOf(l)
  BY <1>2, <1>5 DEF QuotesOf
<1>14. QuotesHaveFirst'
  <2>1. SUFFICES ASSUME NEW l \in Leads, QuotesOf(l)' # {}
                 PROVE  \E i \in QuotesOf(l)' : \A m \in QuotesOf(l)' : i <= m
    BY DEF QuotesHaveFirst
  <2>2. CASE QuotesOf(l) = {}
    BY <1>5, <1>13, <2>1, <2>2
  <2>3. CASE QuotesOf(l) # {}
    <3>1. PICK i \in QuotesOf(l) : \A m \in QuotesOf(l) : i <= m
      BY <2>3 DEF IInv, QuotesHaveFirst
    <3>2. i <= n
      BY <1>5 DEF QuotesOf
    <3>3. QED
      BY <1>13, <3>1, <3>2
  <2>4. QED
    BY <2>2, <2>3
<1>15. VersionsHaveLatest' /\ ResumesKnown' /\ MovesWereTrue'
  BY DEF IInv, VersionsHaveLatest, VersionsOf, ResumesKnown, MovesWereTrue
<1>16. QuotesArePriced'
  <2>1. row.kind = "QUOTE" => HasVersion(row.lead, row.requirement)
    BY <1>1, <1>2 DEF Good, PricedFromVersion
  <2>2. QED
    BY <1>5, <1>6, <2>1, RowsStay DEF IInv, QuotesArePriced, HasVersion, VersionsOf
<1>17. StageHasRecord'
  BY <1>6, RowsStay DEF IInv, StageHasRecord, Stage
<1>18. JobFollowsQuote'
  <2>1. SUFFICES ASSUME NEW i \in DOMAIN records', NEW job, job = records'[i], job.kind = "JOB"
                 PROVE  /\ job.quote \in QuotesOf(job.lead)' /\ job.quote < i
                        /\ records'[job.quote].kind = "QUOTE"
                        /\ job.total = records'[job.quote].total
                        /\ records'[job.quote].requirement <= job.requirement
                        /\ HasVersion(job.lead, job.requirement)'
    BY DEF JobFollowsQuote, HasVersion, QuotesOf, VersionsOf
  <2>2. CASE i = n
    <3>1. /\ p.quote \in QuotesOf(p.lead) /\ p.total = Total(p.quote)
          /\ records[p.quote].requirement <= p.requirement
          /\ HasVersion(p.lead, p.requirement)
      BY <1>1, <1>2, <1>5, <2>1, <2>2 DEF Good, SnapshotHolds
    <3>2. p.quote < n /\ records[p.quote].kind = "QUOTE" /\ records'[p.quote] = records[p.quote]
      BY <1>5, <3>1 DEF QuotesOf
    <3>3. p.quote \in QuotesOf(p.lead)' /\ HasVersion(p.lead, p.requirement)'
      BY <1>6, <3>1, RowsStay
    <3>4. /\ job = row /\ job.quote = p.quote /\ job.lead = p.lead /\ job.total = p.total
          /\ job.requirement = p.requirement
      BY <1>2, <1>5, <2>1, <2>2
    <3>5. QED
      BY <2>2, <3>1, <3>2, <3>3, <3>4 DEF Total, QuotesOf, HasVersion, VersionsOf
  <2>3. CASE i # n
    <3>1. i \in DOMAIN records /\ job = records[i]
      BY <1>5, <2>1, <2>3
    <3>2. /\ job.quote \in QuotesOf(job.lead) /\ job.quote < i
          /\ records[job.quote].kind = "QUOTE" /\ job.total = records[job.quote].total
          /\ records[job.quote].requirement <= job.requirement
          /\ HasVersion(job.lead, job.requirement)
      BY <2>1, <3>1 DEF IInv, JobFollowsQuote, HasVersion
    <3>3. /\ job.quote \in QuotesOf(job.lead)' /\ records'[job.quote] = records[job.quote]
          /\ HasVersion(job.lead, job.requirement)'
      BY <1>6, <3>2, RowsStay
    <3>4. QED
      BY <3>2, <3>3
  <2>4. QED
    BY <2>2, <2>3
<1>19. QED
  BY <1>10, <1>12, <1>14, <1>15, <1>16, <1>17, <1>18 DEF IInv

LEMMA SaveRecordStep ==
  ASSUME IInv, NEW r \in Requests, SaveRecord(r)
  PROVE  IInv'
<1>1. PICK p : p = request[r]
  OBVIOUS
<1>2. /\ p.pc = "save" /\ p.op # "CONFIRM" /\ UNCHANGED <<lead, requirements, moves, signals>>
      /\ request' = [request EXCEPT ![r] = AfterRecord(p)]
  BY <1>1 DEF SaveRecord
<1>3. CASE records' = Append(records,
             [kind |-> p.op, key |-> p.key, lead |-> p.lead, expected |-> p.expected,
              requirement |-> p.requirement, quote |-> p.quote, total |-> p.total])
  BY <1>1, <1>2, <1>3, InsertRecordStep
<1>4. CASE (\E n \in Recorded(p.op, p.key) : SameRecord(records[n], p)) /\ UNCHANGED records
  <2>1. p \in ActiveRequests /\ WellFormed(p)
    BY <1>1, <1>2, InFlight DEF Good
  <2>2. HasRecord(p.op, p.lead)
    BY <1>4 DEF Recorded, SameRecord, HasRecord
  <2>3. /\ AfterRecord(p) \in {Idle} \cup ActiveRequests
        /\ AfterRecord(p) # Idle => Good(AfterRecord(p))
    BY <1>2, <2>1, <2>2, AfterRecordIsGood
  <2>4. QED
    BY <1>2, <1>4, <2>3, ReadStep
<1>5. QED
  BY <1>1, <1>3, <1>4 DEF SaveRecord

-----------------------------------------------------------------------------
(* Steps that change a lead *)

\* The catalogue's results are statuses, and a suspension has a stage to resume.
LEMMA PolicyTypes ==
  ASSUME NEW from \in Statuses, NEW to, NEW resume \in Statuses \cup {Nil}, NEW reason,
         NEW evidence, Allows(from, to, resume, reason, evidence),
         from \in Suspended => resume \in Active
  PROVE  /\ to \in Statuses
         /\ ResumeAfter(from, to, resume) \in Statuses \cup {Nil}
         /\ IF to \in Suspended THEN ResumeAfter(from, to, resume) \in Active
                                ELSE ResumeAfter(from, to, resume) = Nil
BY DEF Allows, Closes, Advances, Pauses, Holds, Resumes, HoldResume, ResumeAfter, OpenSteps,
       GatedSteps, Statuses, Suspended, Active

\* Nobody who vouches for nothing moves a lead's stage past the start of qualification.
LEMMA CommandKeepsStage ==
  ASSUME NEW from \in Statuses, NEW to, NEW resume \in Statuses \cup {Nil}, NEW reason,
         Allows(from, to, resume, reason, {}),
         from \in Suspended => resume \in Active,
         NEW before, before = IF from \in Suspended THEN resume ELSE from,
         NEW after, after = IF to \in Suspended THEN ResumeAfter(from, to, resume) ELSE to
  PROVE  after \in {before, "CLOSED_LOST", "INTERESTED", "QUALIFYING"}
BY DEF Allows, Closes, Advances, Pauses, Holds, Resumes, HoldResume, ResumeAfter, OpenSteps,
       GatedSteps, Statuses, Suspended, Active

\* What a move of a lead, by a request or by a person, leaves of the invariant.
LEMMA LeadMoves ==
  ASSUME IInv, NEW l \in Leads, NEW to, NEW reason, NEW evidence,
         Allows(lead[l].status, to, lead[l].resume, reason, evidence),
         lead' = [lead EXCEPT ![l] =
           [status |-> to, version |-> lead[l].version + 1,
            resume |-> ResumeAfter(lead[l].status, to, lead[l].resume)]],
         UNCHANGED <<requirements, records>>
  PROVE  /\ lead[l].status \in Statuses /\ lead[l].version \in Nat
         /\ lead[l].resume \in Statuses \cup {Nil}
         /\ lead[l].status \in Suspended => lead[l].resume \in Active
         /\ to \in Statuses
         /\ lead' \in [Leads -> LeadRows]
         /\ lead'[l].status = to /\ lead'[l].version = lead[l].version + 1
         /\ lead'[l].resume = ResumeAfter(lead[l].status, to, lead[l].resume)
         /\ \A k \in Leads \ {l} : lead'[k] = lead[k]
         /\ ResumesKnown' /\ Grows
         /\ VersionsHaveLatest' /\ QuotesHaveFirst' /\ QuotesArePriced' /\ JobFollowsQuote'
<1>1. /\ lead[l].status \in Statuses /\ lead[l].version \in Nat
      /\ lead[l].resume \in Statuses \cup {Nil}
      /\ lead[l].status \in Suspended => lead[l].resume \in Active
  BY DEF IInv, TypeOK, LeadRows, ResumesKnown
<1>2. /\ to \in Statuses
      /\ ResumeAfter(lead[l].status, to, lead[l].resume) \in Statuses \cup {Nil}
      /\ IF to \in Suspended
         THEN ResumeAfter(lead[l].status, to, lead[l].resume) \in Active
         ELSE ResumeAfter(lead[l].status, to, lead[l].resume) = Nil
  BY <1>1, PolicyTypes
<1>3. /\ lead'[l].status = to /\ lead'[l].version = lead[l].version + 1
      /\ lead'[l].resume = ResumeAfter(lead[l].status, to, lead[l].resume)
      /\ \A k \in Leads \ {l} : lead'[k] = lead[k]
  BY DEF IInv, TypeOK
<1>4. lead' \in [Leads -> LeadRows]
  BY <1>1, <1>2 DEF IInv, TypeOK, LeadRows
<1>5. ResumesKnown'
  BY <1>2, <1>3 DEF IInv, ResumesKnown
<1>6. Grows
  BY <1>1, <1>3 DEF Grows
<1>7. VersionsHaveLatest' /\ QuotesHaveFirst' /\ QuotesArePriced' /\ JobFollowsQuote'
  BY DEF IInv, VersionsHaveLatest, QuotesHaveFirst, QuotesArePriced, JobFollowsQuote,
         VersionsOf, QuotesOf, HasVersion
<1>8. QED
  BY <1>1, <1>2, <1>3, <1>4, <1>5, <1>6, <1>7

\* A stored move says what the lead was, or is at the moment of the move.
LEMMA MovesStayTrue ==
  ASSUME IInv, TypeOK', Grows, NEW m \in moves
  PROVE  /\ m.version <= lead'[m.lead].version
         /\ m.version = lead'[m.lead].version => m.to = lead'[m.lead].status
<1>1. m.lead \in Leads /\ m.version \in Nat
  BY DEF IInv, TypeOK, MoveRows
<1>2. lead[m.lead].version \in Nat /\ lead'[m.lead].version \in Nat
  BY <1>1 DEF IInv, TypeOK, LeadRows
<1>3. QED
  BY <1>1, <1>2 DEF IInv, MovesWereTrue, Grows

LEMMA MoveStepStep ==
  ASSUME IInv, NEW r \in Requests, MoveStep(r)
  PROVE  IInv'
<1>1. PICK p : p = request[r]
  OBVIOUS
<1>2. p.pc = "advance" /\ Pending(p) # {} /\ UNCHANGED <<requirements, records, signals>>
  BY <1>1 DEF MoveStep
<1>3. p \in ActiveRequests /\ Good(p) /\ WellFormed(p)
  BY <1>1, <1>2, InFlight DEF Good
<1>4. p.lead \in Leads /\ p.op \in {"CONFIRM", "QUOTE", "NEGOTIATION", "JOB"}
  BY <1>2, <1>3 DEF WellFormed, ActiveRequests
<1>5. PICK l \in Leads : l = p.lead
  BY <1>4
<1>6. PICK i : i = Min(Pending(p))
  OBVIOUS
<1>7. PICK to : to = Steps(p)[i][2]
  OBVIOUS
<1>8. /\ Unmoved(p)
      /\ Allows(lead[l].status, to, lead[l].resume, Nil, EvidenceFor(to))
      /\ lead' = [lead EXCEPT ![l] =
           [status |-> to, version |-> lead[l].version + 1,
            resume |-> ResumeAfter(lead[l].status, to, lead[l].resume)]]
      /\ moves' = moves \cup
           {[key |-> p.key, lead |-> l, to |-> to, version |-> lead[l].version + 1]}
      /\ request' = [request EXCEPT ![r].status = to, ![r].version = lead[l].version + 1,
                                    ![r].step = i + 1]
  BY <1>1, <1>5, <1>6, <1>7 DEF MoveStep
<1>9. /\ i \in 1..2 /\ <<p.status, to>> \in MovesOf(p.op) /\ Vouched(p, to)
  <2>1. NextMove(p) = <<NextMove(p)[1], NextMove(p)[2]>>
    BY <1>2, <1>3, <1>4, NextMoveIsStep DEF MovesOf
  <2>2. QED
    BY <1>2, <1>3, <1>6, <1>7, <2>1, NextMoveIsStep DEF NextMove
<1>10. lead[l].status = p.status
  BY <1>2, <1>3, <1>5, <1>8, SalesAssumption DEF Good, TrueOfLead, Unmoved
<1>11. /\ to \in Statuses /\ to \notin Suspended /\ lead[l].version \in Nat
       /\ lead' \in [Leads -> LeadRows]
       /\ lead'[l].status = to /\ lead'[l].version = lead[l].version + 1
       /\ \A k \in Leads \ {l} : lead'[k] = lead[k]
       /\ ResumesKnown' /\ Grows
       /\ VersionsHaveLatest' /\ QuotesHaveFirst' /\ QuotesArePriced' /\ JobFollowsQuote'
  <2>1. to \notin Suspended
    BY <1>4, <1>9 DEF MovesOf, Suspended
  <2>2. QED
    BY <1>2, <1>8, <2>1, LeadMoves
<1>12. PICK q : q = [p EXCEPT !.status = to, !.version = lead[l].version + 1, !.step = i + 1]
  OBVIOUS
<1>13. request' = [request EXCEPT ![r] = q]
  BY <1>1, <1>8, <1>12 DEF IInv, TypeOK
<1>14. q \in ActiveRequests
  <2>1. i + 1 \in Nat /\ lead[l].version + 1 \in Nat
    BY <1>9, <1>11
  <2>2. QED
    BY <1>3, <1>11, <1>12, <2>1 DEF ActiveRequests
<1>15. TypeOK'
  <2>1. lead[l].version + 1 \in Nat /\ p.key \in Keys
    BY <1>3, <1>11 DEF ActiveRequests
  <2>2. moves' \subseteq MoveRows
    BY <1>8, <1>11, <2>1 DEF IInv, TypeOK, MoveRows
  <2>3. QED
    BY <1>2, <1>11, <1>13, <1>14, <2>2 DEF IInv, TypeOK
<1>16. RequestsGood'
  <2>1. /\ q.pc = "advance" /\ q.op = p.op /\ q.lead = p.lead /\ q.body = p.body
        /\ q.from = p.from /\ q.status = to /\ q.version = lead[l].version + 1
        /\ q.step = i + 1
    BY <1>2, <1>3, <1>12 DEF ActiveRequests
  <2>2. WellFormed(q)'
    <3>1. q.step > 0
      BY <1>9, <2>1
    <3>2. QED
      BY <1>2, <1>3, <1>11, <2>1, <3>1 DEF WellFormed
  <2>3. Good(p)'
    BY <1>3, <1>11, <1>15, GoodStays DEF IInv
  <2>4. RowIsStored(q)'
    BY <1>2, <2>1, <2>3 DEF Good, RowIsStored
  <2>5. TrueOfLead(q)'
    BY <1>5, <1>11, <2>1 DEF TrueOfLead
  <2>6. Good(q)'
    BY <2>1, <2>2, <2>4, <2>5 DEF Good, PricedFromVersion, SnapshotHolds
  <2>7. QED
    BY <1>11, <1>13, <1>15, <2>6, RequestsStayGood
<1>17. MovesWereTrue'
  <2>1. SUFFICES ASSUME NEW m \in moves'
                 PROVE  /\ m.version <= lead'[m.lead].version
                        /\ m.version = lead'[m.lead].version => m.to = lead'[m.lead].status
    BY DEF MovesWereTrue
  <2>2. CASE m \in moves
    BY <1>11, <1>15, <2>2, MovesStayTrue
  <2>3. CASE m = [key |-> p.key, lead |-> l, to |-> to, version |-> lead[l].version + 1]
    BY <1>11, <2>3
  <2>4. QED
    BY <1>8, <2>1, <2>2, <2>3
<1>18. StageHasRecord'
  <2>1. \A k \in Leads \ {l} : Stage(k)' = Stage(k)
    BY <1>11 DEF Stage
  <2>2. Stage(l) = p.status /\ Stage(l)' = to
    BY <1>4, <1>9, <1>10, <1>11 DEF Stage, MovesOf, Suspended
  <2>3. \A k : VersionsOf(k)' = VersionsOf(k) /\ \A kind : HasRecord(kind, k)' = HasRecord(kind, k)
    BY <1>2 DEF VersionsOf, HasRecord
  <2>4. IF p.op = "CONFIRM" THEN \E v \in VersionsOf(l) : v.body = p.body
                            ELSE HasRecord(p.op, l)
    BY <1>2, <1>3, <1>5 DEF Good, RowIsStored
  <2>5. p.op = "CONFIRM" /\ to = "QUALIFIED" => \E v \in VersionsOf(l) : v.body \in ReadyBodies
    BY <1>9, <2>4 DEF Vouched
  <2>6. CASE p.op = "CONFIRM"
    BY <1>9, <2>1, <2>2, <2>3, <2>5, <2>6 DEF IInv, StageHasRecord, MovesOf
  <2>7. CASE p.op = "QUOTE"
    BY <1>9, <2>1, <2>2, <2>3, <2>4, <2>7 DEF IInv, StageHasRecord, MovesOf
  <2>8. CASE p.op = "NEGOTIATION"
    BY <1>9, <2>1, <2>2, <2>3, <2>4, <2>8 DEF IInv, StageHasRecord, MovesOf
  <2>9. CASE p.op = "JOB"
    BY <1>9, <2>1, <2>2, <2>3, <2>4, <2>9 DEF IInv, StageHasRecord, MovesOf
  <2>10. QED
    BY <1>4, <2>6, <2>7, <2>8, <2>9
<1>19. QED
  BY <1>11, <1>15, <1>16, <1>17, <1>18 DEF IInv

LEMMA CommandStep ==
  ASSUME IInv, NEW l \in Leads, Command(l)
  PROVE  IInv'
<1>1. PICK to, reason :
        /\ Allows(lead[l].status, to, lead[l].resume, reason, {})
        /\ lead' = [lead EXCEPT ![l] =
             [status |-> to, version |-> lead[l].version + 1,
              resume |-> ResumeAfter(lead[l].status, to, lead[l].resume)]]
  BY DEF Command
<1>2. UNCHANGED <<requirements, records, moves, signals, request>>
  BY DEF Command
<1>3. /\ lead[l].status \in Statuses /\ lead[l].resume \in Statuses \cup {Nil}
      /\ lead[l].status \in Suspended => lead[l].resume \in Active
      /\ lead' \in [Leads -> LeadRows]
      /\ lead'[l].status = to
      /\ lead'[l].resume = ResumeAfter(lead[l].status, to, lead[l].resume)
      /\ \A k \in Leads \ {l} : lead'[k] = lead[k]
      /\ ResumesKnown' /\ Grows
      /\ VersionsHaveLatest' /\ QuotesHaveFirst' /\ QuotesArePriced' /\ JobFollowsQuote'
  BY <1>1, <1>2, LeadMoves
<1>4. TypeOK'
  BY <1>2, <1>3 DEF IInv, TypeOK
<1>5. RequestsGood'
  <2>1. SUFFICES ASSUME NEW s \in Requests, NEW q, q = request[s], q # Idle
                 PROVE  Good(q)'
    BY <1>2 DEF RequestsGood, Good, WellFormed, RowIsStored, PricedFromVersion,
                SnapshotHolds, TrueOfLead
  <2>2. q \in ActiveRequests /\ Good(q)
    BY <2>1 DEF IInv, TypeOK, RequestsGood
  <2>3. QED
    BY <1>3, <1>4, <2>2, GoodStays DEF IInv
<1>6. MovesWereTrue'
  BY <1>2, <1>3, <1>4, MovesStayTrue DEF MovesWereTrue
<1>7. StageHasRecord'
  <2>1. \A k \in Leads \ {l} : Stage(k)' = Stage(k)
    BY <1>3 DEF Stage
  <2>2. Stage(l)' \in {Stage(l), "CLOSED_LOST", "INTERESTED", "QUALIFYING"}
    BY <1>1, <1>3, CommandKeepsStage DEF Stage
  <2>3. \A k : VersionsOf(k)' = VersionsOf(k) /\ \A kind : HasRecord(kind, k)' = HasRecord(kind, k)
    BY <1>2 DEF VersionsOf, HasRecord
  <2>4. QED
    BY <2>1, <2>2, <2>3 DEF IInv, StageHasRecord
<1>8. QED
  BY <1>3, <1>4, <1>5, <1>6, <1>7 DEF IInv

LEMMA RecordSignalStep ==
  ASSUME IInv, NEW k \in Keys, NEW l \in Leads, RecordSignal(k, l)
  PROVE  IInv'
<1>1. TypeOK'
  BY DEF IInv, TypeOK, RecordSignal
<1>2. UNCHANGED <<ResumesKnown, RequestsGood, VersionsHaveLatest, QuotesHaveFirst,
                  QuotesArePriced, MovesWereTrue, StageHasRecord, JobFollowsQuote>>
  BY DEF RecordSignal, ResumesKnown, RequestsGood, Good, WellFormed, RowIsStored,
         PricedFromVersion, SnapshotHolds, TrueOfLead, VersionsHaveLatest, QuotesHaveFirst,
         QuotesArePriced, MovesWereTrue, StageHasRecord, JobFollowsQuote, VersionsOf,
         QuotesOf, HasVersion, HasRecord, Stage, Total
<1>3. QED
  BY <1>1, <1>2 DEF IInv

-----------------------------------------------------------------------------
(* The invariant and what follows from it *)

LEMMA InitHolds == Init => IInv
<1> SUFFICES ASSUME Init PROVE IInv
  OBVIOUS
<1>1. TypeOK
  BY DEF Init, TypeOK, LeadRows, Statuses, FirstVersion
<1>2. \A l : VersionsOf(l) = {} /\ QuotesOf(l) = {}
  BY DEF Init, VersionsOf, QuotesOf
<1>3. StageHasRecord
  BY DEF Init, StageHasRecord, Stage, Suspended
<1>4. QED
  BY <1>1, <1>2, <1>3 DEF Init, IInv, ResumesKnown, RequestsGood, VersionsHaveLatest,
     QuotesHaveFirst, QuotesArePriced, MovesWereTrue, JobFollowsQuote, Suspended

LEMMA NextHolds == IInv /\ [Next]_vars => IInv'
<1> SUFFICES ASSUME IInv, [Next]_vars PROVE IInv'
  OBVIOUS
<1>1. CASE UNCHANGED vars
  BY <1>1 DEF vars, IInv, TypeOK, ResumesKnown, RequestsGood, Good, WellFormed, RowIsStored,
         PricedFromVersion, SnapshotHolds, TrueOfLead, VersionsHaveLatest, QuotesHaveFirst,
         QuotesArePriced, MovesWereTrue, StageHasRecord, JobFollowsQuote, VersionsOf,
         QuotesOf, HasVersion, HasRecord, Stage, Total
<1>2. ASSUME NEW r \in Requests, Send(r) \/ Proceed(r) \/ Finish(r)
      PROVE  IInv'
  BY <1>2, SendStep, ReadQuoteStep, ReadRequirementStep, LookupStep, PriceStep,
     SaveRequirementStep, SaveRecordStep, RereadStep, ReplayStepStep, MoveStepStep, FinishStep
     DEF Proceed
<1>3. ASSUME NEW r \in Requests, NEW k \in Keys, SendProvider(r, k) PROVE IInv'
  BY <1>3, SendProviderStep
<1>4. ASSUME NEW l \in Leads, Command(l) PROVE IInv'
  BY <1>4, CommandStep
<1>5. ASSUME NEW k \in Keys, NEW l \in Leads, RecordSignal(k, l) PROVE IInv'
  BY <1>5, RecordSignalStep
<1>6. QED
  BY <1>1, <1>2, <1>3, <1>4, <1>5 DEF Next

(***************************************************************************)
(* The inductive invariant of the operations of the sales path: what a     *)
(* request has read or stored is still good enough for its next step.      *)
(***************************************************************************)
THEOREM Invariance == Spec => []IInv
<1>1. Init => IInv
  BY InitHolds
<1>2. IInv /\ [Next]_vars => IInv'
  BY NextHolds
<1>3. QED
  BY <1>1, <1>2, PTL DEF Spec

(***************************************************************************)
(* The types of the tables and of the requests in flight.                  *)
(***************************************************************************)
THEOREM TypeCorrect == Spec => []TypeOK
<1>1. IInv => TypeOK
  BY DEF IInv
<1>2. QED
  BY <1>1, Invariance, PTL

(***************************************************************************)
(* However the requests of OperationsService overtake each other, die and  *)
(* are sent again, and whatever people command meanwhile, a lead is at a   *)
(* sales stage only with the row that justifies it.                        *)
(***************************************************************************)
THEOREM StagesHaveRecords == Spec => []StageHasRecord
<1>1. IInv => StageHasRecord
  BY DEF IInv
<1>2. QED
  BY <1>1, Invariance, PTL

(***************************************************************************)
(* The snapshot that accept stores is one of a quote and a requirement of  *)
(* the lead, the quote priced from no newer requirement.                   *)
(***************************************************************************)
THEOREM JobsFollowQuotes == Spec => []JobFollowsQuote
<1>1. IInv => JobFollowsQuote
  BY DEF IInv
<1>2. QED
  BY <1>1, Invariance, PTL

(***************************************************************************)
(* The status and version in the hands of a request, also those taken from *)
(* a stored workflow response, were the lead's.                            *)
(***************************************************************************)
THEOREM AnswersAreTrue == Spec => []AnswersWereTrue
<1>1. IInv => AnswersWereTrue
  BY DEF IInv, RequestsGood, Good, AnswersWereTrue, TrueOfLead, Idle
<1>2. QED
  BY <1>1, Invariance, PTL

=============================================================================
