--------------------------- MODULE LeadLifecycle ---------------------------
(***************************************************************************)
(* The life of a lead under concurrent requests: workflow commands         *)
(* (AdvanceWorkflow over PostgresWorkflowStore) and the guarded first      *)
(* contact (PrepareFirstContact and DecideFirstContact over                *)
(* PostgresFirstContactAdapter).                                           *)
(*                                                                         *)
(* A request is a sequence of reads, each awaited on its own, and one      *)
(* transaction that writes.  Requests interleave between any two of these  *)
(* steps.  A transaction is one step here: the first write it makes that   *)
(* can meet another transaction takes a row lock (the lead's row, the      *)
(* idempotency key's row) held until the commit, and nothing read before   *)
(* that lock is used after it, except the key lookup of a workflow command,*)
(* which is therefore a step of its own.                                   *)
(*                                                                         *)
(* The database is READ COMMITTED; tables are sets of rows or functions    *)
(* from identifiers to rows.  A request that fails, is refused, or dies    *)
(* with its process leaves no trace: its transaction rolls back.           *)
(***************************************************************************)
EXTENDS WorkflowPolicy, FiniteSets

CONSTANTS
  Leads,         \* accepted leads
  Synthetic,     \* those whose source is SYNTHETIC or TEST
  Reviews,       \* identifiers contact reviews may get
  Requests,      \* requests in flight at the same time
  Keys,          \* values of the Idempotency-Key header
  Targets,       \* targets the commands ask for
  Reasons,       \* reasons they give
  EvidenceSets   \* flags the calling service vouches for

ASSUME LeadAssumption ==
  /\ Synthetic \subseteq Leads
  /\ Targets \subseteq WorkflowTargets
  /\ Reasons \subseteq ClosedLostReasons \cup {Nil}
  /\ EvidenceSets \subseteq SUBSET Flags

VARIABLES
  lead,          \* acquisition.leads
  review,        \* outreach.contact_reviews with its outbound_messages row
  transitions,   \* workflow.transitions with the key that each belongs to
  prepareKeys,   \* platform.idempotency_keys, operation first-contact-prepare
  decisionKeys,  \* platform.idempotency_keys, operation first-contact-decision
  request        \* what each request in flight has read so far

vars == <<lead, review, transitions, prepareKeys, decisionKeys, request>>

-----------------------------------------------------------------------------
(* Rows and requests *)

LeadRows ==
  [status: Statuses, version: Nat, previous: Statuses \cup {Nil},
   resume: Statuses \cup {Nil}]

ReviewStatuses == {"ABSENT", "PENDING", "APPROVED", "REJECTED", "EXPIRED"}

Deliveries == {"DRAFT", "MOCK_ACCEPTED", "NOT_SENT"}

\* `late`: the review's expiry time has passed.
ReviewRows ==
  [lead: Leads \cup {Nil}, status: ReviewStatuses, delivery: Deliveries, late: BOOLEAN]

NoReview == [lead |-> Nil, status |-> "ABSENT", delivery |-> "DRAFT", late |-> FALSE]

\* The request fingerprint of a workflow command, and the flags it leaves out.
Commands ==
  [lead: Leads, to: Targets, reason: Reasons, version: Nat, evidence: EvidenceSets]

TransitionRows ==
  [key: Keys, lead: Leads, from: Statuses, to: Statuses, version: Nat]

PrepareKeyRows == [key: Keys, lead: Leads, review: Reviews]

DecisionKeyRows == [key: Keys, review: Reviews, decision: {"APPROVE", "REJECT"}]

Idle == [pc |-> "idle"]

AdvanceRequests == [pc: {"advance.commit"}, key: Keys, cmd: Commands]

PrepareRequests ==
  [pc: {"prepare.open", "prepare.commit"}, key: Keys, lead: Leads, version: Nat]

DecideRequests ==
  [pc: {"decide.lead"}, key: Keys, review: Reviews, lead: Leads,
   decision: {"APPROVE", "REJECT"}]

Outcomes == {"APPROVED", "REJECTED", "EXPIRED"}

DecidingRequests ==
  [pc: {"decide.reread", "decide.commit"}, key: Keys, review: Reviews, lead: Leads,
   decision: {"APPROVE", "REJECT"}, outcome: Outcomes, expected: Nat, next: Nat]

Replies == {"MOCK_ACCEPTED", "NOT_SENT", "REVIEW_EXPIRED"}

RepliedRequests == [pc: {"replied"}, review: Reviews, reply: Replies]

RequestStates ==
  {Idle} \cup AdvanceRequests \cup PrepareRequests \cup DecideRequests
         \cup DecidingRequests \cup RepliedRequests

TypeOK ==
  /\ lead \in [Leads -> LeadRows]
  /\ review \in [Reviews -> ReviewRows]
  /\ transitions \subseteq TransitionRows
  /\ prepareKeys \subseteq PrepareKeyRows
  /\ decisionKeys \subseteq DecisionKeyRows
  /\ request \in [Requests -> RequestStates]

\* Primary key (operation, idempotency_key): no row has the key yet.
FreshKeyUnchecked(k, keyRows) == TRUE
FreshKey(k, keyRows) == k \notin {row.key : row \in keyRows}

\* Lead.applyWorkflowMove and Lead.transition
VersionAfterSame(version) == version
VersionAfter(version) == version + 1

\* UPDATE acquisition.leads ... WHERE id AND version AND status finds its row.
LeadIsAnyVersion(l, status, version) == lead[l].status = status
LeadIs(l, status, version) == lead[l].status = status /\ lead[l].version = version

\* updateReview finds the review PENDING and its message DRAFT.
UndecidedUnchecked(v) == TRUE
Undecided(v) == review[v].status = "PENDING" /\ review[v].delivery = "DRAFT"

\* Where a decision takes the lead, and what it does to the message.
StatusAfterExpirySent(outcome) == IF outcome = "REJECTED" THEN "NEW" ELSE "CONTACTED"
StatusAfter(outcome) == IF outcome = "APPROVED" THEN "CONTACTED" ELSE "NEW"

DeliveryAfterStatus(outcome) == IF outcome = "APPROVED" THEN "MOCK_ACCEPTED" ELSE outcome
DeliveryAfter(outcome) == IF outcome = "APPROVED" THEN "MOCK_ACCEPTED" ELSE "NOT_SENT"

\* What DecideFirstContact answers for a decision that was to have `outcome`.
ReplyOf(outcome, delivery) == IF outcome = "EXPIRED" THEN "REVIEW_EXPIRED" ELSE delivery

\* A REPLAY is answered from the stored review, not from the plan.
ReplayReplyFromPlan(q) == ReplyOf(q.outcome, DeliveryAfter(q.outcome))
ReplayReply(q) == ReplyOf(q.outcome, review[q.review].delivery)

PendingReviews(l) == {v \in Reviews : review[v].lead = l /\ review[v].status = "PENDING"}

Init ==
  /\ lead = [l \in Leads |->
               [status |-> "NEW", version |-> 1, previous |-> Nil, resume |-> Nil]]
  /\ review = [v \in Reviews |-> NoReview]
  /\ transitions = {}
  /\ prepareKeys = {}
  /\ decisionKeys = {}
  /\ request = [r \in Requests |-> Idle]

-----------------------------------------------------------------------------
(* Workflow commands *)

(***************************************************************************)
(* The transaction's key lookup finds nothing.  (A key that is there ends  *)
(* the command with the stored result or IDEMPOTENCY_KEY_REUSED.)  The     *)
(* client names the version it last saw.                                   *)
(***************************************************************************)
AdvanceLookup(r, k) ==
  /\ request[r] = Idle
  /\ FreshKey(k, transitions)
  /\ \E l \in Leads, to \in Targets, reason \in Reasons, evidence \in EvidenceSets :
       request' = [request EXCEPT ![r] =
         [pc |-> "advance.commit", key |-> k,
          cmd |-> [lead |-> l, to |-> to, reason |-> reason,
                   version |-> lead[l].version, evidence |-> evidence]]]
  /\ UNCHANGED <<lead, review, transitions, prepareKeys, decisionKeys>>

(***************************************************************************)
(* The rest of the transaction, from SELECT ... FOR UPDATE to the commit.  *)
(* The key is inserted last: one that another transaction has inserted     *)
(* since the lookup breaks the primary key and rolls everything back.      *)
(***************************************************************************)
AdvanceCommit(r) ==
  LET q == request[r]
      c == q.cmd
      row == lead[c.lead]
  IN /\ q.pc = "advance.commit"
     /\ c.lead \in Synthetic
     /\ row.version = c.version
     /\ Allows(row.status, c.to, row.resume, c.reason, c.evidence)
     /\ FreshKey(q.key, transitions)
     /\ lead' = [lead EXCEPT ![c.lead] =
                   [status |-> c.to, version |-> VersionAfter(row.version),
                    previous |-> PreviousAfter(row.status, c.to),
                    resume |-> ResumeAfter(row.status, c.to, row.resume)]]
     /\ transitions' = transitions \cup
          {[key |-> q.key, lead |-> c.lead, from |-> row.status, to |-> c.to,
            version |-> VersionAfter(row.version)]}
     /\ request' = [request EXCEPT ![r] = Idle]
     /\ UNCHANGED <<review, prepareKeys, decisionKeys>>

-----------------------------------------------------------------------------
(* PrepareFirstContact *)

\* findLead.  A lead that is not NEW ends in an error or in its open review.
PrepareReadLead(r, k) ==
  /\ request[r] = Idle
  /\ \E l \in Leads :
       /\ lead[l].status = "NEW"
       /\ request' = [request EXCEPT ![r] =
            [pc |-> "prepare.open", key |-> k, lead |-> l, version |-> lead[l].version]]
  /\ UNCHANGED <<lead, review, transitions, prepareKeys, decisionKeys>>

\* findOpenReview, then evaluateContactEligibility on the lead read before.
PrepareReadReview(r) ==
  LET q == request[r]
  IN /\ q.pc = "prepare.open"
     /\ PendingReviews(q.lead) = {}
     /\ q.lead \in Synthetic
     /\ request' = [request EXCEPT ![r].pc = "prepare.commit"]
     /\ UNCHANGED <<lead, review, transitions, prepareKeys, decisionKeys>>

(***************************************************************************)
(* commitPreparation: reserve the key, move the lead, insert the review    *)
(* and its DRAFT message.  A lead has one PENDING review at most           *)
(* (contact_reviews_one_pending_idx).                                      *)
(***************************************************************************)
PrepareCommit(r) ==
  LET q == request[r]
  IN /\ q.pc = "prepare.commit"
     /\ FreshKey(q.key, prepareKeys)
     /\ LeadIs(q.lead, "NEW", q.version)
     /\ PendingReviews(q.lead) = {}
     /\ \E v \in Reviews :
          /\ review[v] = NoReview
          /\ review' = [review EXCEPT ![v] =
               [lead |-> q.lead, status |-> "PENDING", delivery |-> "DRAFT", late |-> FALSE]]
          /\ prepareKeys' = prepareKeys \cup
               {[key |-> q.key, lead |-> q.lead, review |-> v]}
     /\ lead' = [lead EXCEPT ![q.lead].status = "CONTACT_PENDING",
                             ![q.lead].version = VersionAfter(q.version)]
     /\ request' = [request EXCEPT ![r] = Idle]
     /\ UNCHANGED <<transitions, decisionKeys>>

-----------------------------------------------------------------------------
(* DecideFirstContact *)

\* The clock passes a pending review's expiresAt.
Expire(v) ==
  /\ review[v].status = "PENDING"
  /\ ~review[v].late
  /\ review' = [review EXCEPT ![v].late = TRUE]
  /\ UNCHANGED <<lead, transitions, prepareKeys, decisionKeys, request>>

(***************************************************************************)
(* findReview.  A PENDING review goes on; an APPROVED one is answered from *)
(* its row; any other is REVIEW_CLOSED.                                    *)
(***************************************************************************)
DecideReadReview(r, k) ==
  /\ request[r] = Idle
  /\ \E v \in Reviews, decision \in {"APPROVE", "REJECT"} :
       \/ /\ review[v].status = "PENDING"
          /\ request' = [request EXCEPT ![r] =
               [pc |-> "decide.lead", key |-> k, review |-> v, lead |-> review[v].lead,
                decision |-> decision]]
       \/ /\ review[v].status = "APPROVED"
          /\ request' = [request EXCEPT ![r] =
               [pc |-> "replied", review |-> v, reply |-> review[v].delivery]]
  /\ UNCHANGED <<lead, review, transitions, prepareKeys, decisionKeys>>

(***************************************************************************)
(* findLead, then the clock: a late review is to be EXPIRED whatever the   *)
(* decision; an approval needs an approved source.                         *)
(***************************************************************************)
DecideReadLead(r) ==
  LET q == request[r]
      Deciding(outcome) ==
        request' = [request EXCEPT ![r] =
          [pc |-> "decide.reread", key |-> q.key, review |-> q.review, lead |-> q.lead,
           decision |-> q.decision, outcome |-> outcome,
           expected |-> lead[q.lead].version, next |-> 0]]
  IN /\ q.pc = "decide.lead"
     /\ lead[q.lead].status = "CONTACT_PENDING"
     /\ \/ review[q.review].late /\ Deciding("EXPIRED")
        \/ /\ ~review[q.review].late
           /\ \/ q.decision = "APPROVE" /\ q.lead \in Synthetic /\ Deciding("APPROVED")
              \/ q.decision = "REJECT" /\ Deciding("REJECTED")
     /\ UNCHANGED <<lead, review, transitions, prepareKeys, decisionKeys>>

\* commit() reads the lead again; the aggregate refuses any other status.
DecideReread(r) ==
  LET q == request[r]
  IN /\ q.pc = "decide.reread"
     /\ lead[q.lead].status = "CONTACT_PENDING"
     /\ request' = [request EXCEPT ![r].pc = "decide.commit",
                                   ![r].next = VersionAfter(lead[q.lead].version)]
     /\ UNCHANGED <<lead, review, transitions, prepareKeys, decisionKeys>>

\* commitDecision: reserve the key, move the lead, decide the review.
DecideCommit(r) ==
  LET q == request[r]
      delivery == DeliveryAfter(q.outcome)
  IN /\ q.pc = "decide.commit"
     /\ FreshKey(q.key, decisionKeys)
     /\ LeadIs(q.lead, "CONTACT_PENDING", q.expected)
     /\ Undecided(q.review)
     /\ decisionKeys' = decisionKeys \cup
          {[key |-> q.key, review |-> q.review, decision |-> q.decision]}
     /\ lead' = [lead EXCEPT ![q.lead].status = StatusAfter(q.outcome),
                             ![q.lead].version = q.next]
     /\ review' = [review EXCEPT ![q.review].status = q.outcome,
                                 ![q.review].delivery = delivery]
     /\ request' = [request EXCEPT ![r] =
          [pc |-> "replied", review |-> q.review, reply |-> ReplyOf(q.outcome, delivery)]]
     /\ UNCHANGED <<transitions, prepareKeys>>

\* commitDecision finds its key with the same fingerprint: REPLAY of that review.
DecideReplay(r) ==
  LET q == request[r]
  IN /\ q.pc = "decide.commit"
     /\ [key |-> q.key, review |-> q.review, decision |-> q.decision] \in decisionKeys
     /\ request' = [request EXCEPT ![r] =
          [pc |-> "replied", review |-> q.review, reply |-> ReplayReply(q)]]
     /\ UNCHANGED <<lead, review, transitions, prepareKeys, decisionKeys>>

-----------------------------------------------------------------------------

(***************************************************************************)
(* The request is over: it was answered, one of its checks failed, its     *)
(* transaction rolled back, or the API process died.                       *)
(***************************************************************************)
Finish(r) ==
  /\ request[r] # Idle
  /\ request' = [request EXCEPT ![r] = Idle]
  /\ UNCHANGED <<lead, review, transitions, prepareKeys, decisionKeys>>

Next ==
  \/ \E r \in Requests, k \in Keys :
       AdvanceLookup(r, k) \/ PrepareReadLead(r, k) \/ DecideReadReview(r, k)
  \/ \E r \in Requests :
       \/ AdvanceCommit(r)
       \/ PrepareReadReview(r) \/ PrepareCommit(r)
       \/ DecideReadLead(r) \/ DecideReread(r) \/ DecideCommit(r) \/ DecideReplay(r)
       \/ Finish(r)
  \/ \E v \in Reviews : Expire(v)

Spec == Init /\ [][Next]_vars

-----------------------------------------------------------------------------
(* Properties *)

\* The stage of a lead, looking through a suspension.
Stage(l) == IF lead[l].status \in Suspended THEN lead[l].resume ELSE lead[l].status

(***************************************************************************)
(* The lead's row and its reviews agree whatever requests raced: a lead    *)
(* that is not closed has one PENDING review, with its draft unsent, when  *)
(* it waits for (or is held while waiting for) a decision, and none at any *)
(* other stage.  PrepareCommit and DecideCommit write both tables; the     *)
(* workflow commands write only the lead.                                  *)
(***************************************************************************)
OpenReviewMatchesStage ==
  \A l \in Leads :
    lead[l].status # "CLOSED_LOST" =>
      /\ Stage(l) = "CONTACT_PENDING" <=> PendingReviews(l) # {}
      /\ \A v, w \in PendingReviews(l) : v = w

(***************************************************************************)
(* A decided review is never decided again, and the delivery status of its *)
(* message never changes: a second decision, a retry or a late expiry can  *)
(* not turn a rejected draft into a sent one or the reverse.               *)
(***************************************************************************)
DecidedReviewIsFinal ==
  [][\A v \in Reviews :
       review[v].status \in Outcomes => review'[v] = review[v]]_vars

(***************************************************************************)
(* Every change of a lead's row raises its version by exactly one, so that *)
(* expectedVersion identifies one state of the lead.  The contact flow     *)
(* writes a version it computed from an earlier read.                      *)
(***************************************************************************)
VersionStepsByOne ==
  [][\A l \in Leads :
       lead'[l] # lead[l] => lead'[l].version = lead[l].version + 1]_vars

(***************************************************************************)
(* An idempotency key takes effect once: two requests that both miss the   *)
(* key in their lookup never both commit.                                  *)
(***************************************************************************)
KeyTakesEffectOnce ==
  /\ \A t, u \in transitions : t.key = u.key => t = u
  /\ \A d, e \in decisionKeys : d.key = e.key \/ d.review = e.review => d = e

(***************************************************************************)
(* workflow.transitions is the history of the lead: no version is recorded *)
(* twice, rows of consecutive versions join up, and a row of the current   *)
(* version says what the lead's status is.                                 *)
(***************************************************************************)
LogIsHistory ==
  \A t \in transitions :
    /\ t.version <= lead[t.lead].version
    /\ t.version = lead[t.lead].version => t.to = lead[t.lead].status
    /\ \A u \in transitions :
         u.lead = t.lead =>
           /\ u.version = t.version => u = t
           /\ u.version = t.version + 1 => u.from = t.to

(***************************************************************************)
(* A suspended lead knows the active stage it came from, through any chain *)
(* of holds, and a lead that is not suspended remembers none.  The contact *)
(* flow never touches the two columns.                                     *)
(***************************************************************************)
SuspendedKnowsResume ==
  \A l \in Leads :
    IF lead[l].status \in Suspended
    THEN lead[l].resume \in Active
    ELSE lead[l].resume = Nil

(***************************************************************************)
(* A decision that is answered with a delivery status tells the truth: the *)
(* message of that review has that status, in this and every later state.  *)
(***************************************************************************)
TrueReply(q) ==
  q.pc = "replied" /\ q.reply # "REVIEW_EXPIRED" => review[q.review].delivery = q.reply

ReplyTellsDelivery == \A r \in Requests : TrueReply(request[r])

(***************************************************************************)
(* The promise of the contract: LeadContract with the reviews' messages as *)
(* what was delivered.                                                     *)
(***************************************************************************)
Delivered ==
  {l \in Leads : \E v \in Reviews :
     review[v].lead = l /\ review[v].delivery = "MOCK_ACCEPTED"}

Contract ==
  INSTANCE LeadContract
    WITH status <- [l \in Leads |-> lead[l].status],
         resume <- [l \in Leads |-> lead[l].resume],
         delivered <- Delivered

ImplementsContract == Contract!Spec

(***************************************************************************)
(* The tests drive these use cases over the in-memory stores, where a      *)
(* request is one step: every step the database takes is one of theirs, or *)
(* leaves the tables as they are.                                          *)
(***************************************************************************)
Stores == INSTANCE LeadMemory

ImplementsStores == Stores!Spec

-----------------------------------------------------------------------------
(* The inductive invariant *)

\* A review's row and its message's row move together.
ReviewRowsAgree ==
  \A v \in Reviews :
    /\ review[v].status = "ABSENT" => review[v] = NoReview
    /\ review[v].status # "ABSENT" => review[v].lead \in Leads
    /\ review[v].delivery = "DRAFT" <=> review[v].status \in {"ABSENT", "PENDING"}
    /\ review[v].delivery = "MOCK_ACCEPTED" <=> review[v].status = "APPROVED"

\* The key of a decision belongs to a decided review.
KeysNameDecisions ==
  \A d \in decisionKeys : review[d.review].status \in Outcomes

\* A first message went out for the leads past first contact and no other.
ContactIsDelivery ==
  \A l \in Leads :
    lead[l].status # "CLOSED_LOST" =>
      (l \in Delivered <=> Stage(l) \notin {"NEW", "CONTACT_PENDING"})

(***************************************************************************)
(* What a deciding request still knows of rows it read in earlier          *)
(* statements: the review's lead for good, its versions only as bounds.    *)
(***************************************************************************)
Usable(q) ==
  /\ q.pc \in {"decide.lead", "decide.reread", "decide.commit"} =>
       review[q.review].status # "ABSENT" /\ review[q.review].lead = q.lead
  /\ q.pc = "decide.reread" => q.expected <= lead[q.lead].version
  /\ q.pc = "decide.commit" =>
       q.expected < q.next /\ q.next <= lead[q.lead].version + 1

ReadsStayUsable == \A r \in Requests : Usable(request[r])

(***************************************************************************)
(* All the safety properties above that speak of one state follow from     *)
(* this conjunction, which every step preserves.                           *)
(***************************************************************************)
IInv ==
  /\ TypeOK
  /\ ReviewRowsAgree
  /\ KeysNameDecisions
  /\ SuspendedKnowsResume
  /\ OpenReviewMatchesStage
  /\ ContactIsDelivery
  /\ ReadsStayUsable
  /\ ReplyTellsDelivery

-----------------------------------------------------------------------------
(* What the documents say and the code does not do *)

(***************************************************************************)
(* INTEGRATION_CONTRACTS: "409 REVIEW_EXPIRED: the decision arrived after  *)
(* expiry, so nothing was sent."                                           *)
(***************************************************************************)
ExpiredReplyMeansNothingSent ==
  \A r \in Requests :
    request[r].pc = "replied" /\ request[r].reply = "REVIEW_EXPIRED" =>
      review[request[r].review].delivery # "MOCK_ACCEPTED"

(***************************************************************************)
(* STATE_MACHINE: "A held state returns only to its stored resume state":  *)
(* a suspended lead can be returned to the state stored for it, by a       *)
(* caller that vouches for everything.                                     *)
(***************************************************************************)
HeldLeadCanReturn ==
  \A l \in Leads :
    lead[l].status \in Suspended =>
      Allows(lead[l].status, lead[l].resume, lead[l].resume, Nil, Flags)

(***************************************************************************)
(* STATE_MACHINE: "JOB_READY, CLOSED_LOST and BLOCKED are terminal for the *)
(* workflow instance."                                                     *)
(***************************************************************************)
TerminalStaysTerminal ==
  [][\A l \in Leads :
       lead[l].status \in {"JOB_READY", "CLOSED_LOST"} => lead'[l] = lead[l]]_vars

=============================================================================
