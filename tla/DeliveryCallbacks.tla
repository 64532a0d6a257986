-------------------------- MODULE DeliveryCallbacks --------------------------
(***************************************************************************)
(* Delivery reports of the mock provider: OperationsService.callback over  *)
(* PostgresDeliveryCallbackStore, an insert and, where it meets a stored   *)
(* report, a select, each a statement of its own.  Reports are repeated,   *)
(* overtake each other and contradict each other, and a report that was    *)
(* stored may go unanswered.                                               *)
(***************************************************************************)
CONSTANTS
  Requests,  \* requests, each sent once; a repeated report is another one
  EventIds,  \* providerEventId
  Approved,  \* approved template versions
  Reports    \* what is reported: event, channel, template, status

Statuses == {"DELIVERED", "FAILED"}

CallbackAssumption ==
  Reports \subseteq [event: EventIds, channel: STRING, template: STRING, status: Statuses]

VARIABLES
  callbacks,  \* outreach.delivery_callbacks: [event, template, status]
  request     \* where each request is

vars == <<callbacks, request>>

-----------------------------------------------------------------------------

Unsent == [pc |-> "unsent"]

TypeOK ==
  /\ callbacks \subseteq [event: EventIds, template: Approved, status: Statuses]
  /\ request \in [Requests ->
       {Unsent}
       \cup [pc: {"insert", "select", "CREATED", "DUPLICATE", "CONFLICT"}, report: Reports]
       \cup [pc: {"refused", "failed"}, report: Reports]]

Init ==
  /\ callbacks = {}
  /\ request = [r \in Requests |-> Unsent]

At(r, pc) == request[r].pc = pc

Go(r, pc) == request' = [request EXCEPT ![r].pc = pc]

\* assessDeliveryCallback; the transport lets only known statuses through.
Assessed(report) == report.channel = "MOCK" /\ report.template \in Approved

Receive(r) ==
  /\ request[r] = Unsent
  /\ \E report \in Reports :
       request' = [request EXCEPT ![r] =
         [pc |-> IF Assessed(report) THEN "insert" ELSE "refused", report |-> report]]
  /\ UNCHANGED callbacks

Row(report) ==
  [event |-> report.event, template |-> report.template, status |-> report.status]

\* The stored reports that an insert conflicts with.
ConflictsWithEqual(report) == {row \in callbacks : row = Row(report)}
ConflictsWith(report) == {row \in callbacks : row.event = report.event}

\* INSERT ... ON CONFLICT DO NOTHING, committed at once.
Insert(r) ==
  /\ At(r, "insert")
  /\ \/ /\ ConflictsWith(request[r].report) = {}
        /\ callbacks' = callbacks \cup {Row(request[r].report)}
        /\ Go(r, "CREATED")
     \/ /\ ConflictsWith(request[r].report) # {}
        /\ Go(r, "select")
        /\ UNCHANGED callbacks

Select(r) ==
  /\ At(r, "select")
  /\ Go(r, IF Row(request[r].report) \in callbacks THEN "DUPLICATE" ELSE "CONFLICT")
  /\ UNCHANGED callbacks

\* A statement or the connection fails, or the answer is lost.
Fail(r) ==
  /\ \/ At(r, "insert") \/ At(r, "select") \/ At(r, "CREATED")
  /\ Go(r, "failed")
  /\ UNCHANGED callbacks

Next == \E r \in Requests : Receive(r) \/ Insert(r) \/ Select(r) \/ Fail(r)

Spec == Init /\ [][Next]_vars

-----------------------------------------------------------------------------
(* Properties *)

Accepted(r) == request[r].pc \in {"CREATED", "DUPLICATE"}

(***************************************************************************)
(* INTEGRATION_CONTRACTS: "A repeat is `DUPLICATE`. A changed status is    *)
(* `409 CALLBACK_CONFLICT`."  However reports race, an event has one       *)
(* stored outcome, every accepted report says that, one of them at most    *)
(* made it, and a report refused as a conflict says something else.        *)
(***************************************************************************)
OneOutcomePerEvent ==
  /\ \A row, other \in callbacks : row.event = other.event => row = other
  /\ \A r \in Requests : Accepted(r) => Row(request[r].report) \in callbacks
  /\ \A r, s \in Requests :
       At(r, "CREATED") /\ At(s, "CREATED")
         /\ request[r].report.event = request[s].report.event => r = s
  /\ \A r \in Requests :
       At(r, "CONFLICT") => Row(request[r].report) \notin callbacks

=============================================================================
