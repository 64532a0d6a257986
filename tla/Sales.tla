------------------------------- MODULE Sales -------------------------------
(***************************************************************************)
(* From an interested lead to a job: OperationsService over the Postgres   *)
(* stores.  Each operation reads the lead, looks its idempotency key up,   *)
(* saves one row (a requirement version or a commercial record) and then   *)
(* moves the lead in up to two workflow commands.  Every read and every    *)
(* one of these writes is awaited on its own, so requests interleave and   *)
(* die between any two of them; a client repairs an interrupted request by *)
(* sending it again under its key.                                         *)
(*                                                                         *)
(* A workflow command is one step here: LeadLifecycle shows what its       *)
(* separate statements add, which is only that it may fail.  A step that   *)
(* fails, a refusal, the answer and the end of the process are Finish.     *)
(***************************************************************************)
EXTENDS WorkflowPolicy, FiniteSetsExt, Sequences

CONSTANTS
  Leads,         \* leads whose interest is recorded
  Requests,      \* requests in flight at the same time
  Keys,          \* values of the Idempotency-Key header
  Bodies,        \* requirement forms a client may send
  ReadyBodies,   \* those that assessRequirements finds ready
  Hours,         \* scheduledHours of their working hours, 0 when it has none
  Uses,          \* operation and key of the requests clients send
  Targets        \* targets of people's workflow commands

\* The kinds of commercial.records, automation's aside.
Kinds == {"QUOTE", "NEGOTIATION", "JOB", "FOLLOW_UP", "PROVIDER_DELIVERY"}

ASSUME SalesAssumption ==
  /\ Nil \notin Leads
  /\ ReadyBodies \subseteq Bodies
  /\ Hours \in [Bodies -> 0..24]
  /\ Uses \subseteq (Kinds \cup {"CONFIRM", "RISK"}) \X Keys
  /\ Targets \subseteq WorkflowTargets

VARIABLES
  lead,          \* acquisition.leads
  requirements,  \* requirement.versions
  records,       \* commercial.records in the order of created_at
  moves,         \* workflow.transitions made under a step key
  signals,       \* safety.risk_signals
  request        \* what each request in flight has read so far

vars == <<lead, requirements, records, moves, signals, request>>

-----------------------------------------------------------------------------
(* Rows and requests *)

\* Creation, draft, contact and interest each took a version.
FirstVersion == 4

LeadRows == [status: Statuses, version: Nat, resume: Statuses \cup {Nil}]

RequirementRows ==
  [key: Keys, lead: Leads, version: Nat, body: Bodies, expected: Nat]

(***************************************************************************)
(* `requirement` is the version a quote was priced from or a job names;    *)
(* `quote` is the position of a job's quote.  A quote's row does not store *)
(* the former, nor a job's the latter.                                     *)
(***************************************************************************)
RecordRows ==
  [kind: Kinds, key: Keys, lead: Leads \cup {Nil}, expected: Nat,
   requirement: Nat, quote: Nat, total: Nat]

MoveRows == [key: Keys, lead: Leads, to: Statuses, version: Nat]

Idle == [pc |-> "idle"]

(***************************************************************************)
(* status, version: the LeadSummary in hand; from: the first status of a   *)
(* job's steps; step: the loop variable of advanceCommercial and finish.   *)
(***************************************************************************)
ActiveRequests ==
  [pc: {"snapshot", "accepted", "lookup", "price", "save", "reread", "advance"},
   op: Kinds \cup {"CONFIRM"}, key: Keys, lead: Leads \cup {Nil},
   body: Bodies \cup {Nil}, expected: Nat, status: Statuses \cup {Nil}, version: Nat,
   from: Statuses \cup {Nil}, requirement: Nat, quote: Nat, total: Nat, step: Nat]

TypeOK ==
  /\ lead \in [Leads -> LeadRows]
  /\ requirements \subseteq RequirementRows
  /\ records \in Seq(RecordRows)
  /\ moves \subseteq MoveRows
  /\ signals \subseteq [key: Keys, lead: Leads]
  /\ request \in [Requests -> {Idle} \cup ActiveRequests]

-----------------------------------------------------------------------------
(* What the stores and the service compute *)

VersionsOf(l) == {v \in requirements : v.lead = l}

\* latestForLead
OldestRequirement(l) ==
  CHOOSE v \in VersionsOf(l) : \A w \in VersionsOf(l) : v.version <= w.version
LatestRequirement(l) ==
  CHOOSE v \in VersionsOf(l) : \A w \in VersionsOf(l) : w.version <= v.version

NextVersion(l) ==
  IF VersionsOf(l) = {} THEN 1 ELSE LatestRequirement(l).version + 1

\* findByKey of the commercial store: positions of the rows, one at most.
Recorded(kind, k) == {n \in DOMAIN records : records[n].kind = kind /\ records[n].key = k}

\* findByKey of the requirement store.
Confirmed(k) == {v \in requirements : v.key = k}

QuotesOf(l) == {n \in DOMAIN records : records[n].kind = "QUOTE" /\ records[n].lead = l}

\* The version a job names: the newest of the moment.
NamedFirst(l) == OldestRequirement(l).version
Named(l) == LatestRequirement(l).version

\* totalMinor of a stored quote, read back from its payload.
TotalDiscounted(n) == records[n].total - 10
Total(n) == records[n].total

\* The fingerprints of two requests under one key and kind are the same.
SameRecord(row, q) == row.lead = q.lead /\ row.expected = q.expected

SameConfirmation(row, q) == SameRecord(row, q) /\ row.body = q.body

(***************************************************************************)
(* What each operation of the service asks of a request whose key is new,  *)
(* of the lead's status and of the version sent, and the workflow commands *)
(* that follow its row, in order.                                          *)
(***************************************************************************)
Confirm ==
  [open |-> {"INTERESTED", "QUALIFYING"}, versioned |-> TRUE,
   steps |-> <<<<"INTERESTED", "QUALIFYING">>, <<"QUALIFYING", "QUALIFIED">>>>]

Quote ==
  [open |-> {"QUALIFIED"}, versioned |-> TRUE,
   steps |-> <<<<"QUALIFIED", "QUOTE_READY">>, <<"QUOTE_READY", "QUOTE_SENT">>>>]

Negotiate ==
  [open |-> {"QUOTE_SENT"}, versioned |-> TRUE,
   steps |-> <<<<"QUOTE_SENT", "NEGOTIATING">>>>]

\* `from` is the status that accept read first.
Accept(from) ==
  [open |-> {"QUOTE_SENT", "NEGOTIATING"}, versioned |-> TRUE,
   steps |-> <<<<from, "CUSTOMER_ACCEPTED">>, <<"CUSTOMER_ACCEPTED", "JOB_READY">>>>]

\* followUp checks the status also of a request whose key is known.
FollowUp ==
  [open |-> {"QUOTE_SENT", "NEGOTIATING", "CUSTOMER_ACCEPTED", "JOB_READY"},
   versioned |-> FALSE, steps |-> <<>>]

\* No lead is involved.
ProviderDelivery == [open |-> {Nil}, versioned |-> FALSE, steps |-> <<>>]

Operation(q) ==
  CASE q.op = "CONFIRM"           -> Confirm
    [] q.op = "QUOTE"             -> Quote
    [] q.op = "NEGOTIATION"       -> Negotiate
    [] q.op = "JOB"               -> Accept(q.from)
    [] q.op = "FOLLOW_UP"         -> FollowUp
    [] q.op = "PROVIDER_DELIVERY" -> ProviderDelivery

\* The checks of a request whose key is new, on the lead it read at first.
TakenOn(q) ==
  /\ q.status \in Operation(q).open
  /\ Operation(q).versioned => q.version = q.expected

Steps(q) == Operation(q).steps

EvidenceFor(to) == IF to = "QUALIFYING" THEN {} ELSE {FlagOf(to)}

\* finish asks for QUALIFIED only on behalf of a ready snapshot.
VouchedWithoutForm(q, to) == TRUE
Vouched(q, to) == to = "QUALIFIED" => q.body \in ReadyBodies

\* Steps whose `from` is the status in hand; the loop skips the others.
PendingUnskipped(q) == {i \in q.step..Len(Steps(q)) : Vouched(q, Steps(q)[i][2])}
Pending(q) ==
  {i \in q.step..Len(Steps(q)) :
     Steps(q)[i][1] = q.status /\ Vouched(q, Steps(q)[i][2])}

(***************************************************************************)
(* The fingerprint of a step: advanceCommercial takes the version into it, *)
(* transition the requirement, of which there is one per key.              *)
(***************************************************************************)
SameStep(m, q) == m.lead = q.lead /\ (q.op # "CONFIRM" => m.version = q.version + 1)

-----------------------------------------------------------------------------

Init ==
  /\ lead = [l \in Leads |->
               [status |-> "INTERESTED", version |-> FirstVersion, resume |-> Nil]]
  /\ requirements = {}
  /\ records = <<>>
  /\ moves = {}
  /\ signals = {}
  /\ request = [r \in Requests |-> Idle]

(***************************************************************************)
(* A request arrives and reads its lead: confirm, quote, negotiate, accept *)
(* or followUp.  Only followUp checks the status before its key.           *)
(***************************************************************************)
Begin(r, op, k, l, expected, body) ==
  /\ request[r] = Idle
  /\ op = "FOLLOW_UP" => lead[l].status \in FollowUp.open
  /\ request' = [request EXCEPT ![r] =
       [pc |-> IF op = "JOB" THEN "snapshot" ELSE "lookup",
        op |-> op, key |-> k, lead |-> l, body |-> body, expected |-> expected,
        status |-> lead[l].status, version |-> lead[l].version,
        from |-> IF op # "JOB" THEN Nil
                 ELSE IF lead[l].status = "NEGOTIATING" THEN "NEGOTIATING" ELSE "QUOTE_SENT",
        requirement |-> 0, quote |-> 0, total |-> 0, step |-> 1]]
  /\ UNCHANGED <<lead, requirements, records, moves, signals>>

(***************************************************************************)
(* expectedVersion as sent by a client that has just read the lead or that *)
(* repeats a request.  Any other is refused, since it names a version that *)
(* neither the lead nor the key's row has.                                 *)
(***************************************************************************)
SentVersions(op, k, l) ==
  IF op = "FOLLOW_UP" THEN {0}
  ELSE {lead[l].version}
       \cup {records[n].expected : n \in Recorded(op, k)}
       \cup {v.expected : v \in IF op = "CONFIRM" THEN Confirmed(k) ELSE {}}
       \cup {request[s].expected : s \in {s \in Requests :
               request[s] # Idle /\ request[s].op = op /\ request[s].key = k
                 /\ request[s].expected # 0}}

Send(r) ==
  \E use \in Uses, l \in Leads :
    LET op == use[1]
        k == use[2]
    IN /\ op \notin {"RISK", "PROVIDER_DELIVERY"}
       /\ \E expected \in SentVersions(op, k, l),
             body \in IF op = "CONFIRM" THEN Bodies ELSE {Nil} :
            Begin(r, op, k, l, expected, body)

\* providerDelivery of an approved template to the WhatsApp sandbox: no lead.
SendProvider(r, k) ==
  /\ <<"PROVIDER_DELIVERY", k>> \in Uses
  /\ request[r] = Idle
  /\ request' = [request EXCEPT ![r] =
       [pc |-> "lookup", op |-> "PROVIDER_DELIVERY", key |-> k, lead |-> Nil, body |-> Nil,
        expected |-> 0, status |-> Nil, version |-> 0, from |-> Nil,
        requirement |-> 0, quote |-> 0, total |-> 0, step |-> 1]]
  /\ UNCHANGED <<lead, requirements, records, moves, signals>>

\* accept reads the lead's oldest quote before it looks at its key.
ReadQuote(r) ==
  LET q == request[r]
      quote == Min(QuotesOf(q.lead))
  IN /\ q.pc = "snapshot"
     /\ QuotesOf(q.lead) # {}
     /\ records[quote].total > 0
     /\ request' = [request EXCEPT ![r].pc = "accepted",
                                   ![r].quote = quote, ![r].total = Total(quote)]
     /\ UNCHANGED <<lead, requirements, records, moves, signals>>

\* Then accept reads the requirement.
ReadRequirement(r) ==
  LET q == request[r]
  IN /\ q.pc = "accepted"
     /\ VersionsOf(q.lead) # {}
     /\ request' = [request EXCEPT ![r].pc = "lookup", ![r].requirement = Named(q.lead)]
     /\ UNCHANGED <<lead, requirements, records, moves, signals>>

\* A row is stored for the request: what went into it is not needed again.
Remembered(q) ==
  [q EXCEPT !.pc = "reread", !.expected = 0, !.status = Nil, !.version = 0,
            !.requirement = 0, !.quote = 0, !.total = 0]

(***************************************************************************)
(* findByKey.  A stored row with the request's fingerprint leads straight  *)
(* to the moves; no row, to the checks and the save.                       *)
(***************************************************************************)
Lookup(r) ==
  LET q == request[r]
      Known == request' = [request EXCEPT ![r] = Remembered(q)]
  IN /\ q.pc = "lookup"
     /\ \/ /\ q.op = "CONFIRM"
           /\ \E v \in Confirmed(q.key) : SameConfirmation(v, q) /\ Known
        \/ /\ q.op \in {"QUOTE", "NEGOTIATION", "JOB"}
           /\ \E n \in Recorded(q.op, q.key) : SameRecord(records[n], q) /\ Known
        \/ /\ IF q.op = "CONFIRM" THEN Confirmed(q.key) = {} ELSE Recorded(q.op, q.key) = {}
           /\ TakenOn(q)
           /\ request' = [request EXCEPT ![r].pc = IF q.op = "QUOTE" THEN "price" ELSE "save"]
     /\ UNCHANGED <<lead, requirements, records, moves, signals>>

(***************************************************************************)
(* remember looks the key up once more, then buildQuote prices the latest  *)
(* requirement: its hours at the sandbox rate of 1.                        *)
(***************************************************************************)
Price(r) ==
  LET q == request[r]
      latest == LatestRequirement(q.lead)
  IN /\ q.pc = "price"
     /\ \/ /\ \E n \in Recorded("QUOTE", q.key) : SameRecord(records[n], q)
           /\ request' = [request EXCEPT ![r] = Remembered(q)]
        \/ /\ Recorded("QUOTE", q.key) = {}
           /\ VersionsOf(q.lead) # {}
           /\ Hours[latest.body] > 0
           /\ request' = [request EXCEPT ![r].pc = "save",
                ![r].requirement = latest.version, ![r].total = Hours[latest.body]]
     /\ UNCHANGED <<lead, requirements, records, moves, signals>>

(***************************************************************************)
(* saveRequirement: the lead's row is locked for the next version number;  *)
(* neither its status nor its version is looked at.                        *)
(***************************************************************************)
SaveRequirement(r) ==
  LET q == request[r]
  IN /\ q.pc = "save"
     /\ q.op = "CONFIRM"
     /\ Confirmed(q.key) = {}
     /\ requirements' = requirements \cup
          {[key |-> q.key, lead |-> q.lead, version |-> NextVersion(q.lead),
            body |-> q.body, expected |-> q.expected]}
     /\ request' = [request EXCEPT ![r].pc = "advance", ![r].expected = 0]
     /\ UNCHANGED <<lead, records, moves, signals>>

\* Where a request goes once its record is remembered.
AfterRecord(q) ==
  IF q.op \in {"FOLLOW_UP", "PROVIDER_DELIVERY"} THEN Idle ELSE Remembered(q)

\* remember and save: insert, or meet the row another request inserted.
SaveRecord(r) ==
  LET q == request[r]
  IN /\ q.pc = "save"
     /\ q.op # "CONFIRM"
     /\ \/ /\ Recorded(q.op, q.key) = {}
           /\ records' = Append(records,
                [kind |-> q.op, key |-> q.key, lead |-> q.lead, expected |-> q.expected,
                 requirement |-> q.requirement, quote |-> q.quote, total |-> q.total])
           /\ request' = [request EXCEPT ![r] = AfterRecord(q)]
        \/ /\ \E n \in Recorded(q.op, q.key) : SameRecord(records[n], q)
           /\ request' = [request EXCEPT ![r] = AfterRecord(q)]
           /\ UNCHANGED records
     /\ UNCHANGED <<lead, requirements, moves, signals>>

\* findSummary before the moves.  A new confirmation does without.
Reread(r) ==
  LET q == request[r]
  IN /\ q.pc = "reread"
     /\ request' = [request EXCEPT ![r].pc = "advance",
          ![r].status = lead[q.lead].status, ![r].version = lead[q.lead].version]
     /\ UNCHANGED <<lead, requirements, records, moves, signals>>

\* The version in a stored workflow response.
ReplayedCurrent(m) == lead[m.lead].version
Replayed(m) == m.version

\* AdvanceWorkflow.execute finds the step's key: the stored outcome is taken.
ReplayStep(r) ==
  LET q == request[r]
  IN /\ q.pc = "advance"
     /\ Pending(q) # {}
     /\ \E m \in moves :
          /\ m.key = q.key /\ m.to = Steps(q)[Min(Pending(q))][2]
          /\ SameStep(m, q)
          /\ request' = [request EXCEPT ![r].status = m.to, ![r].version = Replayed(m),
                                        ![r].step = Min(Pending(q)) + 1]
     /\ UNCHANGED <<lead, requirements, records, moves, signals>>

\* The lead's row still has the version in hand.
Unmoved(q) == lead[q.lead].version = q.version

\* AdvanceWorkflow.execute moves the lead.
MoveStep(r) ==
  LET q == request[r]
  IN /\ q.pc = "advance"
     /\ Pending(q) # {}
     /\ LET i == Min(Pending(q))
            to == Steps(q)[i][2]
            row == lead[q.lead]
        IN /\ \A m \in moves : ~(m.key = q.key /\ m.to = to)
           /\ Unmoved(q)
           /\ Allows(row.status, to, row.resume, Nil, EvidenceFor(to))
           /\ lead' = [lead EXCEPT ![q.lead] =
                [status |-> to, version |-> row.version + 1,
                 resume |-> ResumeAfter(row.status, to, row.resume)]]
           /\ moves' = moves \cup
                {[key |-> q.key, lead |-> q.lead, to |-> to, version |-> row.version + 1]}
           /\ request' = [request EXCEPT ![r].status = to, ![r].version = row.version + 1,
                                         ![r].step = i + 1]
     /\ UNCHANGED <<requirements, records, signals>>

-----------------------------------------------------------------------------

(***************************************************************************)
(* A person's workflow command, which vouches for nothing: hold, close, or *)
(* start requirement collection.                                           *)
(***************************************************************************)
Command(l) ==
  \E to \in Targets, reason \in {Nil, "WITHDRAWN"} :
    /\ Allows(lead[l].status, to, lead[l].resume, reason, {})
    /\ lead' = [lead EXCEPT ![l] =
         [status |-> to, version |-> @.version + 1,
          resume |-> ResumeAfter(@.status, to, @.resume)]]
    /\ UNCHANGED <<requirements, records, moves, signals, request>>

\* recordSignal: a key that has a signal is only answered, or refused.
RecordSignal(k, l) ==
  /\ <<"RISK", k>> \in Uses
  /\ k \notin {s.key : s \in signals}
  /\ signals' = signals \cup {[key |-> k, lead |-> l]}
  /\ UNCHANGED <<lead, requirements, records, moves, request>>

\* The request is over: answered, refused, failed, or its process died.
Finish(r) ==
  /\ request[r] # Idle
  /\ request' = [request EXCEPT ![r] = Idle]
  /\ UNCHANGED <<lead, requirements, records, moves, signals>>

Proceed(r) ==
  \/ ReadQuote(r) \/ ReadRequirement(r) \/ Lookup(r) \/ Price(r)
  \/ SaveRequirement(r) \/ SaveRecord(r)
  \/ Reread(r) \/ ReplayStep(r) \/ MoveStep(r)

Next ==
  \/ \E r \in Requests : Send(r) \/ Proceed(r) \/ Finish(r)
  \/ \E r \in Requests, k \in Keys : SendProvider(r, k)
  \/ \E l \in Leads : Command(l)
  \/ \E k \in Keys, l \in Leads : RecordSignal(k, l)

Spec == Init /\ [][Next]_vars

-----------------------------------------------------------------------------
(* Properties *)

\* The stage of a lead, looking through a suspension.
Stage(l) == IF lead[l].status \in Suspended THEN lead[l].resume ELSE lead[l].status

HasRecord(kind, l) == \E n \in DOMAIN records : records[n].kind = kind /\ records[n].lead = l

(***************************************************************************)
(* A sales stage is backed by the row that justifies it: qualification by  *)
(* a ready requirement, a quote by a quote and a job by a job.  The row    *)
(* and the move are different transactions, of requests that overtake each *)
(* other; the row must come first and the move must not be anybody else's. *)
(***************************************************************************)
StageHasRecord ==
  \A l \in Leads :
    /\ Stage(l) \in {"QUALIFIED", "QUOTE_READY", "QUOTE_SENT", "NEGOTIATING",
                     "CUSTOMER_ACCEPTED", "JOB_READY"} =>
         \E v \in VersionsOf(l) : v.body \in ReadyBodies
    /\ Stage(l) \in {"QUOTE_READY", "QUOTE_SENT", "NEGOTIATING", "CUSTOMER_ACCEPTED",
                     "JOB_READY"} => HasRecord("QUOTE", l)
    /\ Stage(l) = "NEGOTIATING" => HasRecord("NEGOTIATION", l)
    /\ Stage(l) \in {"CUSTOMER_ACCEPTED", "JOB_READY"} => HasRecord("JOB", l)

(***************************************************************************)
(* The status and version that an operation answers were the lead's: the   *)
(* version is not from the future, and at that version the lead had that   *)
(* status.  The values come from reads, from the request's own moves and   *)
(* from replays of stored ones.                                            *)
(***************************************************************************)
TrueOfLead(q) ==
  q.pc \notin {"idle", "reread"} /\ q.lead # Nil =>
    /\ q.version <= lead[q.lead].version
    /\ q.version = lead[q.lead].version => q.status = lead[q.lead].status

AnswersWereTrue == \A r \in Requests : TrueOfLead(request[r])

(***************************************************************************)
(* A job's snapshot holds together although its quote and its requirement  *)
(* are read one after the other while others write: the quote is a stored  *)
(* quote of the same lead with that total, and was priced from a version   *)
(* that is not newer than the one the job names, which exists.             *)
(***************************************************************************)
JobFollowsQuote ==
  \A n \in DOMAIN records :
    records[n].kind = "JOB" =>
      LET job == records[n]
      IN /\ job.quote \in QuotesOf(job.lead)
         /\ job.quote < n
         /\ records[job.quote].kind = "QUOTE" /\ job.total = records[job.quote].total
         /\ records[job.quote].requirement <= job.requirement
         /\ \E v \in VersionsOf(job.lead) : v.version = job.requirement

-----------------------------------------------------------------------------
(* Progress by retrying *)

\* The client sends a recorded request again, as it was.
Retry(r, op, k, l) ==
  \/ /\ op = "CONFIRM"
     /\ \E v \in Confirmed(k) : v.lead = l /\ Begin(r, op, k, l, v.expected, v.body)
  \/ /\ op # "CONFIRM"
     /\ \E n \in Recorded(op, k) :
          records[n].lead = l /\ Begin(r, op, k, l, records[n].expected, Nil)

Retried == {use \in Uses : use[1] \in {"CONFIRM", "QUOTE", "JOB"}}

(***************************************************************************)
(* A handler runs on until it answers or its process dies, and a client    *)
(* that got no answer sends its request again.                             *)
(***************************************************************************)
Fairness ==
  /\ \A r \in Requests : WF_vars(Proceed(r)) /\ WF_vars(Finish(r))
  /\ \A use \in Retried, l \in Leads :
       SF_vars(\E r \in Requests : Retry(r, use[1], use[2], l))

\* A process dies with a request that could go on.
Interrupted(r) == ENABLED Proceed(r) /\ Finish(r)

\* The row an operation saves, and the statuses it then moves the lead out of.
IsRecorded(op, k, l) ==
  IF op = "CONFIRM"
  THEN \E v \in Confirmed(k) : v.lead = l /\ v.body \in ReadyBodies
  ELSE \E n \in Recorded(op, k) : records[n].lead = l

LeftBehind(op) ==
  CASE op = "CONFIRM" -> {"INTERESTED", "QUALIFYING"}
    [] op = "QUOTE"   -> {"QUALIFIED", "QUOTE_READY"}
    [] op = "JOB"     -> {"QUOTE_SENT", "NEGOTIATING", "CUSTOMER_ACCEPTED"}

(***************************************************************************)
(* An operation interrupted between its record and its moves is completed  *)
(* by retries: once a ready requirement, a quote or a job is recorded, the *)
(* lead leaves the statuses the operation moves it out of, if processes    *)
(* stop dying.  The checks that refuse a new request there must not refuse *)
(* the retry.                                                              *)
(***************************************************************************)
RetryCompletes ==
  <>[][~\E r \in Requests : Interrupted(r)]_vars =>
    \A use \in Retried, l \in Leads :
      IsRecorded(use[1], use[2], l) ~> lead[l].status \notin LeftBehind(use[1])

-----------------------------------------------------------------------------
(* What the documents say and the code does not do *)

(***************************************************************************)
(* INTEGRATION_CONTRACTS: "The lead must already be `INTERESTED` or        *)
(* `QUALIFYING`", of the lead whose requirement is recorded.               *)
(***************************************************************************)
RecordedWhileOpen ==
  [][\A v \in requirements' \ requirements :
       lead[v.lead].status \in {"INTERESTED", "QUALIFYING"}]_vars

(***************************************************************************)
(* STATE_MACHINE: "`QUALIFIED` requires the active service schema's        *)
(* minimum confirmed fields": the requirement the lead then has is ready.  *)
(***************************************************************************)
QualifiedOnReadyRequirement ==
  [][\A l \in Leads :
       lead[l].status # "QUALIFIED" /\ lead'[l].status = "QUALIFIED" =>
         LatestRequirement(l).body \in ReadyBodies]_vars

(***************************************************************************)
(* DOMAIN_MODEL: a job is "accepted requirement and quote snapshots": the  *)
(* quote it snapshots is the price of the requirement it snapshots.        *)
(***************************************************************************)
JobPricedItsRequirement ==
  \A n \in DOMAIN records :
    records[n].kind = "JOB" =>
      records[records[n].quote].requirement = records[n].requirement

(***************************************************************************)
(* STATE_MACHINE: "`JOB_READY` requires accepted requirement/quote         *)
(* snapshots, risk clearance and no pending mandatory review."             *)
(***************************************************************************)
JobReadyIsCleared ==
  [][\A l \in Leads :
       lead[l].status # "JOB_READY" /\ lead'[l].status = "JOB_READY" =>
         \A s \in signals : s.lead # l]_vars

=============================================================================
