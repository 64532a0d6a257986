-------------------------- MODULE IngestionContract --------------------------
(***************************************************************************)
(* What lead ingestion promises, as InMemoryLeadIngestionAdapter keeps it: *)
(* createLeadWithOutbox is one synchronous step over its maps.  A request  *)
(* whose key was used before is answered or refused, and stores nothing.   *)
(***************************************************************************)
CONSTANTS
  Ids,       \* generated lead ids
  Keys,      \* values of the Idempotency-Key header
  Listings,  \* bodies that sources send, which the fingerprint tells apart
  Records,   \* source and sourceReference
  RecordOf   \* those of a body: [Listings -> Records]

VARIABLES
  leads,  \* acquisition.leads, raw_payloads: [id, listing]
  keys,   \* platform.idempotency_keys of lead-ingestion: [key, listing, lead]
  events  \* the leads of LeadCreated events

vars == <<leads, keys, events>>

TypeOK ==
  /\ leads \subseteq [id: Ids, listing: Listings]
  /\ keys \subseteq [key: Keys, listing: Listings, lead: Ids]
  /\ events \subseteq Ids

Init == leads = {} /\ keys = {} /\ events = {}

SameRecord(l, listing) == RecordOf[l.listing] = RecordOf[listing]

\* The key is reserved for the lead that the request is answered with.
Reserved(k, listing, id) == keys' = keys \cup {[key |-> k, listing |-> listing, lead |-> id]}

Create(id, k, listing) ==
  /\ \A row \in keys : row.key # k
  /\ \A l \in leads : l.id # id /\ ~SameRecord(l, listing)
  /\ leads' = leads \cup {[id |-> id, listing |-> listing]}
  /\ events' = events \cup {id}
  /\ Reserved(k, listing, id)

\* The source record has a lead: a new key is kept for that one.
Duplicate(k, listing) ==
  /\ \A row \in keys : row.key # k
  /\ \E l \in leads : SameRecord(l, listing) /\ Reserved(k, listing, l.id)
  /\ UNCHANGED <<leads, events>>

Next ==
  \E k \in Keys, listing \in Listings :
    Duplicate(k, listing) \/ \E id \in Ids : Create(id, k, listing)

Spec == Init /\ [][Next]_vars

-----------------------------------------------------------------------------
(* Properties *)

(***************************************************************************)
(* A source record has one lead, a lead one LeadCreated event, and a key   *)
(* names the lead of the record it was sent for.                           *)
(***************************************************************************)
OneLeadPerRecord ==
  /\ \A l, m \in leads : RecordOf[l.listing] = RecordOf[m.listing] => l = m
  /\ events = {l.id : l \in leads}
  /\ \A row \in keys :
       \E l \in leads : l.id = row.lead /\ RecordOf[l.listing] = RecordOf[row.listing]
  /\ \A row, other \in keys : row.key = other.key => row = other

=============================================================================
