------------------------------ MODULE LeadMemory ------------------------------
(***************************************************************************)
(* The in-memory stores that the API runs on without a database and that   *)
(* its tests use: InMemoryWorkflowStore and InMemoryFirstContactAdapter    *)
(* over InMemoryLeadIngestionAdapter.  Their promises are settled already  *)
(* when they are awaited, so a request runs from its reads to its writes   *)
(* before the event loop takes up another one: a request is one step.  One *)
(* that is refused, or answered from a key it finds, changes nothing.      *)
(*                                                                         *)
(* LeadLifecycle, the same requests over the Postgres stores, implements   *)
(* this specification: what a test sees of these stores the database shows *)
(* as well.                                                                *)
(***************************************************************************)
EXTENDS WorkflowPolicy

CONSTANTS
  Leads,      \* accepted leads
  Synthetic,  \* those whose source is SYNTHETIC or TEST
  Reviews,    \* identifiers contact reviews may get
  Keys        \* values of the Idempotency-Key header

VARIABLES
  lead,          \* InMemoryLeadIngestionAdapter.leads
  review,        \* reviews, with the message of each
  transitions,   \* audits of the workflow store, with the key of each
  prepareKeys,   \* idempotency, first-contact-prepare
  decisionKeys   \* idempotency, first-contact-decision

vars == <<lead, review, transitions, prepareKeys, decisionKeys>>

LeadRows ==
  [status: Statuses, version: Nat, previous: Statuses \cup {Nil},
   resume: Statuses \cup {Nil}]

ReviewRows ==
  [lead: Leads \cup {Nil},
   status: {"ABSENT", "PENDING", "APPROVED", "REJECTED", "EXPIRED"},
   delivery: {"DRAFT", "MOCK_ACCEPTED", "NOT_SENT"}, late: BOOLEAN]

NoReview == [lead |-> Nil, status |-> "ABSENT", delivery |-> "DRAFT", late |-> FALSE]

Init ==
  /\ lead = [l \in Leads |->
               [status |-> "NEW", version |-> 1, previous |-> Nil, resume |-> Nil]]
  /\ review = [v \in Reviews |-> NoReview]
  /\ transitions = {} /\ prepareKeys = {} /\ decisionKeys = {}

Fresh(k, rows) == \A row \in rows : row.key # k

\* LeadStatusStore.save of the next version.
Save(l, status) == [lead EXCEPT ![l].status = status, ![l].version = @ + 1]

-----------------------------------------------------------------------------

\* InMemoryWorkflowStore.commitLocked; the evidence is the caller's.
Advance(l, k) ==
  /\ Fresh(k, transitions)
  /\ l \in Synthetic
  /\ \E to \in WorkflowTargets :
       LET row == lead[l]
       IN /\ lead' = [lead EXCEPT ![l] =
               [status |-> to, version |-> row.version + 1,
                previous |-> PreviousAfter(row.status, to),
                resume |-> ResumeAfter(row.status, to, row.resume)]]
          /\ transitions' = transitions \cup
               {[key |-> k, lead |-> l, from |-> row.status, to |-> to,
                 version |-> row.version + 1]}
          /\ \E reason \in ClosedLostReasons \cup {Nil} :
               Allows(row.status, to, row.resume, reason, Flags)
  /\ UNCHANGED <<review, prepareKeys, decisionKeys>>

\* commitPreparation, with the checks of PrepareFirstContact on the lead.
Preparable(l) == l \in Synthetic /\ lead[l].status = "NEW"

Prepare(l, k, v) ==
  /\ Fresh(k, prepareKeys)
  /\ Preparable(l)
  /\ review[v] = NoReview
  /\ lead' = Save(l, "CONTACT_PENDING")
  /\ review' = [review EXCEPT ![v] =
       [lead |-> l, status |-> "PENDING", delivery |-> "DRAFT", late |-> FALSE]]
  /\ prepareKeys' = prepareKeys \cup {[key |-> k, lead |-> l, review |-> v]}
  /\ UNCHANGED <<transitions, decisionKeys>>

DeliveryAfter(outcome) == IF outcome = "APPROVED" THEN "MOCK_ACCEPTED" ELSE "NOT_SENT"

\* commitDecision, with the review that DecideFirstContact made of the plan.
Decide(v, k, decision, outcome) ==
  LET l == review[v].lead
  IN /\ Fresh(k, decisionKeys)
     /\ review[v].status = "PENDING"
     /\ lead[l].status = "CONTACT_PENDING"
     /\ lead' = Save(l, IF outcome = "APPROVED" THEN "CONTACTED" ELSE "NEW")
     /\ review' = [review EXCEPT ![v].status = outcome,
          ![v].delivery = DeliveryAfter(outcome)]
     /\ decisionKeys' = decisionKeys \cup
          {[key |-> k, review |-> v, decision |-> decision]}
     /\ UNCHANGED <<transitions, prepareKeys>>

(***************************************************************************)
(* A late review is to be EXPIRED.  The clock is read before the commit,   *)
(* so one that gets late in between may still be decided otherwise.        *)
(***************************************************************************)
Outcome(v, decision, outcome) ==
  CASE outcome = "EXPIRED"  -> review[v].late
    [] outcome = "APPROVED" -> decision = "APPROVE" /\ review[v].lead \in Synthetic
    [] OTHER                -> decision = "REJECT"

\* The clock passes a pending review's expiresAt.
Expire(v) ==
  /\ review[v].status = "PENDING" /\ ~review[v].late
  /\ review' = [review EXCEPT ![v].late = TRUE]
  /\ UNCHANGED <<lead, transitions, prepareKeys, decisionKeys>>

Next ==
  \/ \E k \in Keys, l \in Leads :
       Advance(l, k) \/ \E v \in Reviews : Prepare(l, k, v)
  \/ \E k \in Keys, v \in Reviews, decision \in {"APPROVE", "REJECT"},
        outcome \in {"APPROVED", "REJECTED", "EXPIRED"} :
       Outcome(v, decision, outcome) /\ Decide(v, k, decision, outcome)
  \/ \E v \in Reviews : Expire(v)

Spec == Init /\ [][Next]_vars

=============================================================================
