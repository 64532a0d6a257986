----------------------------- MODULE Automation -----------------------------
(***************************************************************************)
(* One lead under automation: AutomationService.run, which looks its key   *)
(* up, reads the lead and its conversation, takes the one step that the    *)
(* status calls for through FirstContactService or OperationsService, and  *)
(* stores the outcome under the key.  Every one of these is awaited, so    *)
(* that people, the customer and other runs act in between and the process *)
(* may die there.                                                          *)
(*                                                                         *)
(* The mode is autonomous, the source synthetic and the channel MOCK, all  *)
(* fixed for a process; in any other setting run refuses to act.           *)
(*                                                                         *)
(* PrepareFirstContact and DecideFirstContact are two steps each here: the *)
(* reads, of which the commit checks what may have changed, and the        *)
(* commit, which may also meet the key of a run that was faster.  A        *)
(* workflow command is one step.  LeadLifecycle has all their statements.  *)
(***************************************************************************)
EXTENDS WorkflowPolicy, FiniteSets

CONSTANTS
  Requests,          \* runs in flight at the same time
  Keys,              \* values of the Idempotency-Key header
  AutoFirstContact,  \* AUTO_FIRST_CONTACT
  OtherTargets,      \* what other requests move the lead to
  MaxReviews,        \* bound on the reviews opened
  MaxVersion         \* bound on the lead's version where others move it

ASSUME AutomationAssumption ==
  /\ AutoFirstContact \in BOOLEAN
  /\ OtherTargets \subseteq WorkflowTargets
  /\ MaxReviews \in Nat /\ MaxVersion \in Nat

VARIABLES
  lead,      \* acquisition.leads
  review,    \* the last contact review: whether it is pending and has expired
  approved,  \* numbers of the approved reviews; each was delivered
  prepared,  \* keys of first-contact-prepare, with the review they opened
  decided,   \* keys of first-contact-decision, with the review they closed
  mode,      \* control mode of the lead's conversation, Nil before there is one
  quotes,    \* keys of the QUOTE records, with the version each was asked for
  moves,     \* keys of the quotes' workflow commands: target, version moved from
  plans,     \* keys of the FOLLOW_UP records
  runs,      \* the AUTOMATION records
  acts,      \* what was done to the lead, by the key of the run that did it
  request    \* where each run is

contact == <<review, approved, prepared, decided>>
commerce == <<quotes, moves, plans>>
tables == <<lead, contact, commerce, runs, acts>>
vars == <<tables, mode, request>>

-----------------------------------------------------------------------------
(* Rows and runs *)

LeadRows == [status: Statuses, version: Nat, resume: Statuses \cup {Nil}]

ReviewRows == [number: 0..MaxReviews, pending: BOOLEAN, late: BOOLEAN]

ContactKeys == [key: Keys, review: 1..MaxReviews]

QuoteRows == [key: Keys, version: Nat]

MoveRows == [key: Keys, to: {"QUOTE_READY", "QUOTE_SENT"}, version: Nat]

ControlModes == {"AI_ACTIVE", "HUMAN_CONTROL", "PAUSED", Nil}

Reasons == {"FIRST_CONTACT", "CUSTOMER_INTEREST", "REQUIREMENTS", "QUOTE",
            "FOLLOW_UP_PLANNED", "ACCEPTANCE", "MANUAL_REVIEW", "COMPLETE"}

Outcomes == [disposition: {"ADVANCED", "WAITING", "COMPLETE"}, reason: Reasons,
             status: Statuses]

\* Nothing to answer yet.
NoOutcome == [disposition |-> Nil, reason |-> Nil, status |-> Nil]

Steps == {"CONTACT", "QUOTE", "FOLLOW_UP"}

Idle == [pc |-> "idle"]

(***************************************************************************)
(* status, version: the lead as last read or moved; review: the one that   *)
(* was prepared; held: ever since the run began, the conversation was not  *)
(* AI_ACTIVE; outcome: what step returned.  At "approve" and "expire" a    *)
(* run has planned what to make of the review.                             *)
(***************************************************************************)
Running ==
  [pc: {"lead", "conversation", "step", "prepare", "decide", "approve", "expire", "reread",
        "record", "quote", "move", "plan", "save", "answered"},
   key: Keys, status: Statuses \cup {Nil}, version: Nat, review: Nat,
   held: BOOLEAN, outcome: Outcomes \cup {NoOutcome}]

TypeOK ==
  /\ lead \in LeadRows
  /\ review \in ReviewRows
  /\ approved \subseteq 1..MaxReviews
  /\ prepared \subseteq ContactKeys
  /\ decided \subseteq ContactKeys
  /\ mode \in ControlModes
  /\ quotes \subseteq QuoteRows
  /\ moves \subseteq MoveRows
  /\ plans \subseteq Keys
  /\ runs \subseteq [key: Keys, outcome: Outcomes]
  /\ acts \subseteq [key: Keys, step: Steps]
  /\ request \in [Requests -> {Idle} \cup Running]

-----------------------------------------------------------------------------
(* What the service decides *)

\* A control mode that stops automation, as conversationView reports it.
StopsHuman(m) == m = "HUMAN_CONTROL"
Stops(m) == m \in {"HUMAN_CONTROL", "PAUSED"}

\* Automation is to keep its hands off.
Held(m) == m \notin {"AI_ACTIVE", Nil}

MaySign(status) == status \in {"NEW", "CONTACT_PENDING"}

FollowUpStatuses == {"QUOTE_SENT", "NEGOTIATING", "CUSTOMER_ACCEPTED", "JOB_READY"}

WaitingAsStatus(status) == status

\* What step answers for a status in which it does nothing.
Waiting(status) ==
  CASE status = "CONTACTED"                      -> "CUSTOMER_INTEREST"
    [] status \in {"INTERESTED", "QUALIFYING"}   -> "REQUIREMENTS"
    [] status = "QUOTE_READY"                    -> "QUOTE"
    [] status = "JOB_READY"                      -> "COMPLETE"
    [] OTHER                                     -> "MANUAL_REVIEW"

Outcome(disposition, reason, status) ==
  [disposition |-> disposition, reason |-> reason, status |-> status]

Acted(k, step) == acts' = acts \cup {[key |-> k, step |-> step]}

Moved(to) == lead' = [status |-> to, version |-> lead.version + 1,
                      resume |-> ResumeAfter(lead.status, to, lead.resume)]

\* UPDATE acquisition.leads ... WHERE version AND status finds the row.
LeadIs(status, version) == lead.status = status /\ lead.version = version

\* A new review, and the lead that waits for its decision.
Opened ==
  /\ review' = [number |-> review.number + 1, pending |-> TRUE, late |-> FALSE]
  /\ Moved("CONTACT_PENDING")

HasQuote(k) == \E row \in quotes : row.key = k

Init ==
  /\ lead = [status |-> "NEW", version |-> 1, resume |-> Nil]
  /\ review = [number |-> 0, pending |-> FALSE, late |-> FALSE]
  /\ approved = {} /\ prepared = {} /\ decided = {} /\ mode = Nil
  /\ quotes = {} /\ moves = {} /\ plans = {} /\ runs = {} /\ acts = {}
  /\ request = [r \in Requests |-> Idle]

-----------------------------------------------------------------------------
(* AutomationService.run *)

At(r, pc) == request[r].pc = pc
Go(r, pc) == request' = [request EXCEPT ![r].pc = pc]
Deciding(r, n) == request' = [request EXCEPT ![r].pc = "decide", ![r].review = n]
Save(r, outcome) == request' = [request EXCEPT ![r].pc = "save", ![r].outcome = outcome]

Start(r, k) ==
  /\ request[r] = Idle
  /\ request' = [request EXCEPT ![r] =
       [pc |-> "lead", key |-> k, status |-> Nil, version |-> 0, review |-> 0,
        held |-> Held(mode), outcome |-> NoOutcome]]
  /\ UNCHANGED <<tables, mode>>

\* A key with an outcome is answered with it.
FindRun(r) ==
  LET q == request[r]
  IN /\ At(r, "lead")
     /\ \E run \in runs :
          /\ run.key = q.key
          /\ request' = [request EXCEPT ![r].pc = "answered", ![r].outcome = run.outcome]
     /\ UNCHANGED <<tables, mode>>

\* Otherwise maskedLead reads the lead.
ReadLead(r) ==
  LET q == request[r]
  IN /\ At(r, "lead")
     /\ \A run \in runs : run.key # q.key
     /\ request' = [request EXCEPT ![r].pc = "conversation", ![r].status = lead.status,
                                   ![r].version = lead.version]
     /\ UNCHANGED <<tables, mode>>

\* conversationView and assessAutomation; a held conversation refuses the run.
ReadConversation(r) ==
  /\ At(r, "conversation")
  /\ ~Stops(mode)
  /\ Go(r, "step")
  /\ UNCHANGED <<tables, mode>>

(***************************************************************************)
(* PrepareFirstContact reads the lead and its open review, which is then   *)
(* the one to decide on.  Without one, a NEW lead is to get a review.      *)
(***************************************************************************)
PrepareRead(r) ==
  /\ At(r, "step")
  /\ MaySign(request[r].status) /\ AutoFirstContact
  /\ \/ /\ review.pending /\ lead.status # "CONTACTED"
        /\ Deciding(r, review.number)
     \/ /\ ~review.pending /\ lead.status = "NEW"
        /\ request' = [request EXCEPT ![r].pc = "prepare", ![r].version = lead.version]
  /\ UNCHANGED <<tables, mode>>

PrepareCommit(r) ==
  LET q == request[r]
  IN /\ At(r, "prepare")
     /\ \A row \in prepared : row.key # q.key
     /\ ~review.pending /\ review.number < MaxReviews
     /\ LeadIs("NEW", q.version)
     /\ Opened
     /\ prepared' = prepared \cup {[key |-> q.key, review |-> review.number + 1]}
     /\ Deciding(r, review.number + 1)
     /\ UNCHANGED <<approved, decided, mode, commerce, runs, acts>>

\* The key has opened a review before, whatever has become of it.
PrepareReplay(r) ==
  /\ At(r, "prepare")
  /\ \E row \in prepared : row.key = request[r].key /\ Deciding(r, row.review)
  /\ UNCHANGED <<tables, mode>>

\* The review is still the one to decide on, and so is its lead.
Pending(n) == review.pending /\ review.number = n /\ lead.status = "CONTACT_PENDING"

\* The decision was made before: an approved review is answered as it is.
FoundClosed(n) == ~review.pending
FoundApproved(n) == n \in approved

(***************************************************************************)
(* DecideFirstContact reads the review, the lead and the clock.  Approved, *)
(* the review needs no more; pending, it is to be approved, or expired     *)
(* when it is late.  Any other is REVIEW_CLOSED.                           *)
(***************************************************************************)
DecideRead(r) ==
  LET q == request[r]
  IN /\ At(r, "decide")
     /\ \/ FoundApproved(q.review) /\ Go(r, "reread")
        \/ /\ Pending(q.review)
           /\ request' = [request EXCEPT ![r].pc = IF review.late THEN "expire" ELSE "approve",
                                         ![r].version = lead.version]
     /\ UNCHANGED <<tables, mode>>

\* commitDecision under a new key: the review and its lead are as they were read.
Decidable(q) ==
  /\ \A row \in decided : row.key # q.key
  /\ Pending(q.review) /\ LeadIs("CONTACT_PENDING", q.version)

Decided(q, to) ==
  /\ Moved(to)
  /\ review' = [review EXCEPT !.pending = FALSE]
  /\ decided' = decided \cup {[key |-> q.key, review |-> q.review]}

\* APPROVE: delivered now.
DecideCommit(r) ==
  LET q == request[r]
  IN /\ At(r, "approve")
     /\ Decidable(q) /\ Decided(q, "CONTACTED")
     /\ approved' = approved \cup {q.review}
     /\ Acted(q.key, "CONTACT")
     /\ Go(r, "reread")
     /\ UNCHANGED <<prepared, mode, commerce, runs>>

\* The late review is closed, and the run ends with REVIEW_EXPIRED.
DecideExpired(r) ==
  LET q == request[r]
  IN /\ At(r, "expire")
     /\ Decidable(q) /\ Decided(q, "NEW")
     /\ request' = [request EXCEPT ![r] = Idle]
     /\ UNCHANGED <<approved, prepared, mode, commerce, runs, acts>>

(***************************************************************************)
(* The key has decided this review before: its row is the answer, and a    *)
(* run takes any answer for an approval, that of an expired review too.    *)
(***************************************************************************)
DecideReplay(r) ==
  LET q == request[r]
  IN /\ At(r, "approve")
     /\ [key |-> q.key, review |-> q.review] \in decided
     /\ Go(r, "reread")
     /\ UNCHANGED <<tables, mode>>

Reread(r) ==
  /\ At(r, "reread")
  /\ Save(r, Outcome("ADVANCED", "FIRST_CONTACT", lead.status))
  /\ UNCHANGED <<tables, mode>>

\* Statuses with nothing for automation to do.
Wait(r) ==
  LET status == request[r].status
  IN /\ At(r, "step")
     /\ ~MaySign(status)
     /\ status \notin {"QUALIFIED", "QUOTE_SENT", "NEGOTIATING", "CUSTOMER_ACCEPTED"}
     /\ Save(r, Outcome(IF status = "JOB_READY" THEN "COMPLETE" ELSE "WAITING",
                        Waiting(status), status))
     /\ UNCHANGED <<tables, mode>>

(***************************************************************************)
(* OperationsService.quote for the version read at first: a new key needs  *)
(* a QUALIFIED lead of that version; then the record, then two moves.      *)
(***************************************************************************)
BeginQuote(r) ==
  LET q == request[r]
  IN /\ At(r, "step")
     /\ q.status = "QUALIFIED"
     /\ HasQuote(q.key) \/ LeadIs("QUALIFIED", q.version)
     /\ Go(r, "record")
     /\ UNCHANGED <<tables, mode>>

(***************************************************************************)
(* remember: the record of this key, stored now or met.  The version is    *)
(* part of its fingerprint: another one is IDEMPOTENCY_KEY_REUSED.         *)
(***************************************************************************)
RecordQuote(r) ==
  LET q == request[r]
  IN /\ At(r, "record")
     /\ \A row \in quotes : row.key = q.key => row.version = q.version
     /\ quotes' = quotes \cup {[key |-> q.key, version |-> q.version]}
     /\ Go(r, "quote")
     /\ UNCHANGED <<lead, contact, mode, moves, plans, runs, acts>>

\* advanceCommercial reads the lead before its moves.
ReadQuoted(r) ==
  /\ At(r, "quote")
  /\ request' = [request EXCEPT ![r].pc = "move", ![r].status = lead.status,
                                ![r].version = lead.version]
  /\ UNCHANGED <<tables, mode>>

\* One of the two commands: its key, its fingerprint and where it takes the lead.
QuoteMove(q) ==
  [key |-> q.key, version |-> q.version,
   to |-> IF q.status = "QUALIFIED" THEN "QUOTE_READY" ELSE "QUOTE_SENT"]

MovedOn(r, move) ==
  request' = [request EXCEPT ![r].status = move.to, ![r].version = move.version + 1]

MoveQuoted(r) ==
  LET q == request[r]
      move == QuoteMove(q)
  IN /\ At(r, "move")
     /\ q.status \in {"QUALIFIED", "QUOTE_READY"}
     /\ \A m \in moves : m.key = move.key => m.to # move.to
     /\ LeadIs(q.status, q.version)
     /\ Moved(move.to)
     /\ moves' = moves \cup {move}
     /\ MovedOn(r, move)
     /\ Acted(q.key, "QUOTE")
     /\ UNCHANGED <<contact, mode, quotes, plans, runs>>

\* A run with this key has made the move: its result is the stored one.
MoveReplay(r) ==
  LET q == request[r]
      move == QuoteMove(q)
  IN /\ At(r, "move")
     /\ q.status \in {"QUALIFIED", "QUOTE_READY"}
     /\ move \in moves
     /\ MovedOn(r, move)
     /\ UNCHANGED <<tables, mode>>

Quoted(r) ==
  LET q == request[r]
  IN /\ At(r, "move")
     /\ q.status \notin {"QUALIFIED", "QUOTE_READY"}
     /\ Save(r, Outcome("ADVANCED", "QUOTE", q.status))
     /\ UNCHANGED <<tables, mode>>

\* OperationsService.followUp reads the lead again, then remembers a plan.
BeginPlan(r) ==
  /\ At(r, "step")
  /\ request[r].status \in {"QUOTE_SENT", "NEGOTIATING", "CUSTOMER_ACCEPTED"}
  /\ lead.status \in FollowUpStatuses
  /\ Go(r, "plan")
  /\ UNCHANGED <<tables, mode>>

Plan(r) ==
  LET q == request[r]
  IN /\ At(r, "plan")
     /\ plans' = plans \cup {q.key}
     /\ IF q.key \in plans THEN UNCHANGED acts ELSE Acted(q.key, "FOLLOW_UP")
     /\ Save(r, Outcome("WAITING",
                        IF q.status = "CUSTOMER_ACCEPTED" THEN "ACCEPTANCE"
                        ELSE "FOLLOW_UP_PLANNED", q.status))
     /\ UNCHANGED <<lead, contact, mode, quotes, moves, runs>>

\* The outcome to answer with: the stored one, whoever stored it.
AnswerOwn(q) == q.outcome
Answer(q) == IF \E run \in runs : run.key = q.key
             THEN (CHOOSE run \in runs : run.key = q.key).outcome
             ELSE q.outcome

\* commercial.save: stored, or DUPLICATE and read again.
SaveRun(r) ==
  LET q == request[r]
  IN /\ At(r, "save")
     /\ runs' = IF \E run \in runs : run.key = q.key THEN runs
                ELSE runs \cup {[key |-> q.key, outcome |-> q.outcome]}
     /\ request' = [request EXCEPT ![r].pc = "answered", ![r].outcome = Answer(q)]
     /\ UNCHANGED <<lead, contact, mode, commerce, acts>>

\* Refused, failed, answered and gone, or the process died.
Finish(r) ==
  /\ request[r] # Idle
  /\ request' = [request EXCEPT ![r] = Idle]
  /\ UNCHANGED <<tables, mode>>

Proceed(r) ==
  \/ FindRun(r) \/ ReadLead(r) \/ ReadConversation(r)
  \/ PrepareRead(r) \/ PrepareCommit(r) \/ PrepareReplay(r)
  \/ DecideRead(r) \/ DecideCommit(r) \/ DecideExpired(r) \/ DecideReplay(r) \/ Reread(r)
  \/ Wait(r)
  \/ BeginQuote(r) \/ RecordQuote(r) \/ ReadQuoted(r)
  \/ MoveQuoted(r) \/ MoveReplay(r) \/ Quoted(r)
  \/ BeginPlan(r) \/ Plan(r) \/ SaveRun(r)

-----------------------------------------------------------------------------
(* People, the customer and their requests *)

\* A person prepares a first contact.
OpenReview ==
  /\ lead.status = "NEW" /\ ~review.pending
  /\ review.number < MaxReviews
  /\ Opened
  /\ UNCHANGED <<approved, prepared, decided, mode, commerce, runs, acts, request>>

\* The clock passes the pending review's expiresAt.
Expire ==
  /\ review.pending /\ ~review.late
  /\ review' = [review EXCEPT !.late = TRUE]
  /\ UNCHANGED <<lead, approved, prepared, decided, mode, commerce, runs, acts, request>>

\* A person's decision, planned before or after the expiry: approved, or back to NEW.
CloseReview ==
  /\ Pending(review.number)
  /\ review' = [review EXCEPT !.pending = FALSE]
  /\ \/ Moved("CONTACTED") /\ approved' = approved \cup {review.number}
     \/ Moved("NEW") /\ UNCHANGED approved
  /\ UNCHANGED <<prepared, decided, mode, commerce, runs, acts, request>>

\* A workflow command, or an operation with what it vouches for.
OtherMove ==
  /\ lead.version < MaxVersion
  /\ \E to \in OtherTargets :
       /\ Allows(lead.status, to, lead.resume, Nil, Flags \ {"quoteReady", "quoteSent"})
       /\ Moved(to)
  /\ UNCHANGED <<contact, mode, commerce, runs, acts, request>>

\* An inbound message makes the conversation; an operator changes its mode.
SetMode ==
  /\ \E m \in ControlModes \ {Nil, mode} :
       /\ mode = Nil => m # "HUMAN_CONTROL"
       /\ mode' = m
       /\ request' = [r \in Requests |->
            IF request[r] # Idle /\ ~Held(m) THEN [request[r] EXCEPT !.held = FALSE]
            ELSE request[r]]
  /\ UNCHANGED tables

Next ==
  \/ \E r \in Requests : (\E k \in Keys : Start(r, k)) \/ Proceed(r) \/ Finish(r)
  \/ OpenReview \/ Expire \/ CloseReview \/ OtherMove \/ SetMode

Spec == Init /\ [][Next]_vars

-----------------------------------------------------------------------------
(* Properties *)

(***************************************************************************)
(* ADR-0017: a pause or HUMAN_CONTROL stops the next run.  A run that      *)
(* begins while the conversation is held does nothing to the lead unless   *)
(* the conversation is handed back meanwhile.                              *)
(***************************************************************************)
HeldRunsDoNothing ==
  \A r \in Requests :
    ~At(r, "idle") /\ request[r].held => request[r].pc \in {"lead", "conversation", "answered"}

(***************************************************************************)
(* A stored outcome rests on a record, whoever else worked on the lead: an *)
(* advance by first contact on an approved review or, failing that, on a   *)
(* decision of the run's own key, one by a quote on the QUOTE record of    *)
(* its key, and a planned follow-up on the FOLLOW_UP record of its key.    *)
(***************************************************************************)
StoredRunsHaveRecords ==
  \A run \in runs :
    /\ run.outcome.reason = "FIRST_CONTACT" =>
         approved # {} \/ \E row \in decided : row.key = run.key
    /\ run.outcome.disposition = "ADVANCED" /\ run.outcome.reason = "QUOTE" =>
         HasQuote(run.key)
    /\ run.outcome.reason \in {"FOLLOW_UP_PLANNED", "ACCEPTANCE"} => run.key \in plans

(***************************************************************************)
(* Runs under one key that are answered have one answer, the stored one,   *)
(* however they overlap and whatever each of them found.                   *)
(***************************************************************************)
OneAnswerPerKey ==
  /\ \A run, other \in runs : run.key = other.key => run = other
  /\ \A r \in Requests :
       At(r, "answered") => [key |-> request[r].key, outcome |-> request[r].outcome] \in runs

-----------------------------------------------------------------------------
(* What the documents say and the code does not do *)

(***************************************************************************)
(* STATE_MACHINE: "Kill switch or `HUMAN_CONTROL` prevents automated       *)
(* outbound delivery": when automation's approval delivers, no human has   *)
(* control.                                                                *)
(***************************************************************************)
HumanControlPreventsDelivery ==
  [][\A k \in Keys :
       [key |-> k, step |-> "CONTACT"] \in acts' \ acts => mode # "HUMAN_CONTROL"]_vars

(***************************************************************************)
(* INTEGRATION_CONTRACTS: "`201 ADVANCED`: mock first contact was          *)
(* approved, or the sandbox quote was issued": a run that is stored as an  *)
(* advance by first contact has an approval, its own or one it found.      *)
(***************************************************************************)
AdvanceWasApproved ==
  \A run \in runs : run.outcome.reason = "FIRST_CONTACT" => approved # {}

(***************************************************************************)
(* INTEGRATION_CONTRACTS: "One call performs one allowed synthetic step.   *)
(* The same key returns the stored result": a key stands for one step.     *)
(***************************************************************************)
OneStepPerKey == \A a, b \in acts : a.key = b.key => a.step = b.step

(***************************************************************************)
(* ADR-0017: at QUOTE_READY a run waits "because the fixture quote is      *)
(* already in progress": some quote request is then on its way.            *)
(***************************************************************************)
QuoteInProgress ==
  \A r \in Requests :
    At(r, "save") /\ request[r].outcome.status = "QUOTE_READY" /\ lead.status = "QUOTE_READY" =>
      \E s \in Requests : request[s].pc \in {"quote", "move"}

=============================================================================
