------------------------------ MODULE Ingestion ------------------------------
(***************************************************************************)
(* Lead ingestion over Postgres: LeadIngestionService, IngestLead and      *)
(* PostgresLeadIngestionAdapter.createLeadWithOutbox, statement by         *)
(* statement.                                                              *)
(*                                                                         *)
(* A transaction's rows stay in its request until it commits.  An insert   *)
(* with ON CONFLICT DO NOTHING that meets an uncommitted row of another    *)
(* transaction waits for it to end; one that meets a committed row inserts *)
(* nothing.  Each request is sent once: a repeated delivery or a retry is  *)
(* another request with the same content.                                  *)
(***************************************************************************)
CONSTANTS
  Requests,   \* requests, each sent once; also the lead ids they generate
  Keys,       \* values of the Idempotency-Key header
  Listings,   \* bodies that sources send, which the fingerprint tells apart
  Records,    \* source and sourceReference
  RecordOf,   \* those of a body
  Synthetic,  \* bodies from a source that isSyntheticLeadSource accepts
  Approval    \* whether PERSONAL_DATA_MODE is approved, with an approval id

ASSUME IngestionAssumption ==
  /\ RecordOf \in [Listings -> Records]
  /\ Synthetic \subseteq Listings
  /\ Approval \in BOOLEAN

VARIABLES
  leads,   \* acquisition.leads, raw_payloads: [id, listing]
  keys,    \* platform.idempotency_keys of lead-ingestion: [key, listing, lead]
  events,  \* the leads of LeadCreated in platform.outbox_events
  request  \* where each request is

store == <<leads, keys, events>>
vars == <<store, request>>

-----------------------------------------------------------------------------
(* Requests *)

Unsent == [pc |-> "unsent"]

\* `lead` is the id in the key's row: the request's own until a duplicate.
Open ==
  [pc: {"reserve", "replay", "insert", "duplicate", "commit"},
   key: Keys, listing: Listings, lead: Requests]

\* Refused: a conflict, a failure or a crash.
Answers ==
  [pc: {"created", "duplicated"}, listing: Listings, lead: Requests]
  \cup [pc: {"refused"}]

TypeOK ==
  /\ leads \subseteq [id: Requests, listing: Listings]
  /\ keys \subseteq [key: Keys, listing: Listings, lead: Requests]
  /\ events \subseteq Requests
  /\ request \in [Requests -> {Unsent} \cup Open \cup Answers]

At(r, pc) == request[r].pc = pc

\* r holds an uncommitted row for the key, for the lead of the source record.
HoldsKey(r, k) ==
  request[r].pc \in {"insert", "duplicate", "commit"} /\ request[r].key = k
HoldsRecord(r, record) ==
  At(r, "commit") /\ request[r].lead = r /\ RecordOf[request[r].listing] = record

-----------------------------------------------------------------------------

Init ==
  /\ leads = {} /\ keys = {} /\ events = {}
  /\ request = [r \in Requests |-> Unsent]

\* The request moves to pc, with nothing else changed.
Go(r, pc) == request' = [request EXCEPT ![r].pc = pc]

Answer(r, answer) == request' = [request EXCEPT ![r] = answer]

\* assessPersonalDataPilot, for a request with or without the approval's id.
Admitted(listing, approved) == listing \in Synthetic \/ (Approval /\ approved)

Submit(r) ==
  /\ request[r] = Unsent
  /\ \E k \in Keys, listing \in Listings, approved \in BOOLEAN :
       IF Admitted(listing, approved)
       THEN Answer(r, [pc |-> "reserve", key |-> k, listing |-> listing, lead |-> r])
       ELSE Answer(r, [pc |-> "refused"])
  /\ UNCHANGED store

\* Whether an insert of the key has nothing to wait for.
KeySettledAlways(r) == TRUE
KeySettled(r) == \A s \in Requests \ {r} : ~HoldsKey(s, request[r].key)

\* INSERT of the idempotency key.
Reserve(r) ==
  /\ At(r, "reserve")
  /\ KeySettled(r)
  /\ Go(r, IF \E row \in keys : row.key = request[r].key THEN "replay" ELSE "insert")
  /\ UNCHANGED store

\* The key's row was written for the same body.
SameFingerprintLoose(row, q) == TRUE
SameFingerprint(row, q) == row.listing = q.listing

\* resolveIdempotentReplay
Replay(r) ==
  LET q == request[r]
  IN /\ At(r, "replay")
     /\ \E row \in keys :
          /\ row.key = q.key
          /\ Answer(r, IF SameFingerprint(row, q)
                       THEN [pc |-> "duplicated", listing |-> q.listing, lead |-> row.lead]
                       ELSE [pc |-> "refused"])
     /\ UNCHANGED store

\* Whether an insert of the lead has nothing to wait for.
RecordSettledOnKey(r) ==
  \A s \in Requests \ {r} :
    request[s].pc \in {"insert", "commit"} =>
      RecordOf[request[s].listing] # RecordOf[request[r].listing]
RecordSettled(r) ==
  \A s \in Requests \ {r} : ~HoldsRecord(s, RecordOf[request[r].listing])

\* The lead of the same source record.
LeadsLike(q) == {l \in leads : RecordOf[l.listing] = RecordOf[q.listing]}

\* INSERT of the lead, then of its raw payload and its event.
InsertLead(r) ==
  /\ At(r, "insert")
  /\ RecordSettled(r)
  /\ Go(r, IF LeadsLike(request[r]) = {} THEN "commit" ELSE "duplicate")
  /\ UNCHANGED store

\* The id that resolveSourceDuplicate writes into the key's row.
FoundRow(r, l) == l
Found(r, l) == l.id

\* resolveSourceDuplicate
ResolveDuplicate(r) ==
  /\ At(r, "duplicate")
  /\ \E l \in LeadsLike(request[r]) :
       request' = [request EXCEPT ![r].pc = "commit", ![r].lead = Found(r, l)]
  /\ UNCHANGED store

Commit(r) ==
  LET q == request[r]
      new == q.lead = r
  IN /\ At(r, "commit")
     /\ leads' = leads \cup (IF new THEN {[id |-> r, listing |-> q.listing]} ELSE {})
     /\ events' = events \cup (IF new THEN {r} ELSE {})
     /\ keys' = keys \cup {[key |-> q.key, listing |-> q.listing, lead |-> q.lead]}
     /\ Answer(r, [pc |-> IF new THEN "created" ELSE "duplicated",
                   listing |-> q.listing, lead |-> q.lead])

-----------------------------------------------------------------------------

Over == {"unsent", "created", "duplicated", "refused"}

\* Lead.create, a statement or a connection fails, or the process dies.
Fail(r) ==
  /\ request[r].pc \notin Over
  /\ Answer(r, [pc |-> "refused"])
  /\ UNCHANGED store

Proceed(r) == Reserve(r) \/ Replay(r) \/ InsertLead(r) \/ ResolveDuplicate(r) \/ Commit(r)

Next == \E r \in Requests : Submit(r) \/ Proceed(r) \/ Fail(r)

Spec == Init /\ [][Next]_vars

\* A transaction runs on as long as no uncommitted row keeps it waiting.
Fairness == \A r \in Requests : WF_vars(Proceed(r))

-----------------------------------------------------------------------------
(* Properties *)

(***************************************************************************)
(* Every transaction has the effect of one step of the in-memory adapter.  *)
(***************************************************************************)
Contract == INSTANCE IngestionContract WITH Ids <- Requests

ImplementsContract == Contract!Spec

Answered(r) == request[r].pc \in {"created", "duplicated"}

(***************************************************************************)
(* A source record has one lead, one event and one owner of its keys, and  *)
(* answers tell the truth and agree: every request for it, under whichever *)
(* key and in whichever order they ran, is answered with the stored lead,  *)
(* and one of them at most with CREATED.                                   *)
(***************************************************************************)
AnswersAgree ==
  /\ Contract!OneLeadPerRecord
  /\ \A r \in Requests :
       Answered(r) =>
         \E l \in leads :
           /\ l.id = request[r].lead
           /\ RecordOf[l.listing] = RecordOf[request[r].listing]
  /\ \A r \in Requests : At(r, "created") => request[r].lead = r

(***************************************************************************)
(* Every ingestion ends: none wait for each other, whatever keys and       *)
(* records they share, and the row that a conflict points to is found.     *)
(***************************************************************************)
EveryRequestEnds ==
  \A r \in Requests : ~At(r, "unsent") ~> request[r].pc \in Over

=============================================================================
