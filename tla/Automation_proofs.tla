-------------------------- MODULE Automation_proofs --------------------------
(***************************************************************************)
(* Theorems about Automation, for every set of requests and keys, whatever *)
(* the others do to the lead and however many reviews it has.              *)
(***************************************************************************)
EXTENDS Automation, TLAPS

-----------------------------------------------------------------------------
(* The inductive invariant: what each run may rely on *)

\* A run held since it began is refused: the mode is still what it was.
HeldKnows(r) ==
  request[r].pc # "idle" /\ request[r].held =>
    Held(mode) /\ request[r].pc \in {"lead", "conversation", "answered"}

\* From its first read of the lead on, a run has a status to act by.
StatusKnown(r) ==
  request[r].pc \in {"conversation", "step", "prepare", "decide", "approve", "expire", "reread",
                     "record", "quote", "move", "plan", "save"} =>
    request[r].status \in Statuses

ReviewKnown(r) ==
  request[r].pc \in {"decide", "approve", "expire"} => request[r].review \in 1..MaxReviews

\* A review was approved, or a run with this key has decided one.
ContactDecided(key) == approved # {} \/ \E row \in decided : row.key = key

\* The record that an outcome rests on.
Stands(key, outcome) ==
  /\ outcome.reason = "FIRST_CONTACT" => ContactDecided(key)
  /\ outcome.disposition = "ADVANCED" /\ outcome.reason = "QUOTE" => HasQuote(key)
  /\ outcome.reason \in {"FOLLOW_UP_PLANNED", "ACCEPTANCE"} => key \in plans

\* A run has the record of what it is going to answer.
WorkDone(r) ==
  /\ request[r].pc = "reread" => ContactDecided(request[r].key)
  /\ request[r].pc \in {"quote", "move"} => HasQuote(request[r].key)
  /\ request[r].pc = "save" =>
       request[r].outcome \in Outcomes /\ Stands(request[r].key, request[r].outcome)
  /\ request[r].pc = "answered" =>
       [key |-> request[r].key, outcome |-> request[r].outcome] \in runs

Knows(r) == HeldKnows(r) /\ StatusKnown(r) /\ ReviewKnown(r) /\ WorkDone(r)

\* An open review has a number.
Numbered == review.pending => review.number \in 1..MaxReviews

OneOutcome == \A run, other \in runs : run.key = other.key => run = other

IInv ==
  TypeOK /\ Numbered /\ (\A r \in Requests : Knows(r)) /\ StoredRunsHaveRecords /\ OneOutcome

-----------------------------------------------------------------------------

LEMMA RunFields ==
  ASSUME TypeOK, NEW r \in Requests, request[r].pc # "idle"
  PROVE  request[r] \in Running
BY DEF TypeOK, Idle

\* One run goes from q to p.
LEMMA OneRun ==
  ASSUME TypeOK, NEW r \in Requests, NEW p \in {Idle} \cup Running,
         request' = [request EXCEPT ![r] = p]
  PROVE  /\ request'[r] = p
         /\ \A s \in Requests \ {r} : request'[s] = request[s]
         /\ request' \in [Requests -> {Idle} \cup Running]
BY DEF TypeOK

\* Records are only ever added; a run may rely on what it has seen stored.
LEMMA StoreGrows ==
  ASSUME IInv, mode' = mode, runs' = runs,
         approved \subseteq approved', decided \subseteq decided',
         quotes \subseteq quotes', plans \subseteq plans',
         TypeOK', Numbered',
         \A s \in Requests : request'[s] = request[s] \/ Knows(s)'
  PROVE  IInv'
<1>1. ASSUME NEW s \in Requests PROVE Knows(s)'
  BY <1>1
     DEF IInv, Knows, HeldKnows, StatusKnown, ReviewKnown, WorkDone, Stands, ContactDecided, HasQuote
<1>2. StoredRunsHaveRecords'
  BY DEF IInv, StoredRunsHaveRecords, HasQuote
<1>3. OneOutcome'
  BY DEF IInv, OneOutcome
<1>4. QED
  BY <1>1, <1>2, <1>3 DEF IInv

\* A step that touches no table.
LEMMA LocalStep ==
  ASSUME IInv, UNCHANGED <<tables, mode>>, NEW r \in Requests, NEW p \in {Idle} \cup Running,
         request' = [request EXCEPT ![r] = p], Knows(r)'
  PROVE  IInv'
<1>1. /\ lead' = lead /\ review' = review /\ approved' = approved /\ prepared' = prepared
      /\ decided' = decided /\ quotes' = quotes /\ moves' = moves /\ plans' = plans
      /\ mode' = mode /\ runs' = runs /\ acts' = acts
  BY DEF tables, contact, commerce
<1>2. /\ request' \in [Requests -> {Idle} \cup Running]
      /\ \A s \in Requests : request'[s] = request[s] \/ Knows(s)'
  BY OneRun DEF IInv
<1>3. TypeOK' /\ Numbered'
  BY <1>1, <1>2 DEF IInv, TypeOK, Numbered
<1>4. QED
  BY <1>1, <1>2, <1>3, StoreGrows

LEMMA StartStep ==
  ASSUME IInv, NEW r \in Requests, NEW k \in Keys, Start(r, k)
  PROVE  IInv'
<1> DEFINE p == [pc |-> "lead", key |-> k, status |-> Nil, version |-> 0, review |-> 0,
                 held |-> Held(mode), outcome |-> NoOutcome]
<1>1. /\ request' = [request EXCEPT ![r] = p]
      /\ UNCHANGED <<tables, mode>>
  BY DEF Start
<1>2. p \in Running
  BY DEF Running, Held
<1>3. request'[r] = p /\ mode' = mode /\ p.pc = "lead" /\ (p.held => Held(mode))
  BY <1>1, <1>2, OneRun DEF IInv
<1> HIDE DEF p
<1>4. Knows(r)'
  BY <1>3 DEF Knows, HeldKnows, StatusKnown, ReviewKnown, WorkDone, Held
<1>5. QED
  BY <1>1, <1>2, <1>4, LocalStep

LEMMA FindRunStep ==
  ASSUME IInv, NEW r \in Requests, FindRun(r)
  PROVE  IInv'
<1> DEFINE q == request[r]
<1>1. q \in Running /\ q.pc = "lead"
  BY RunFields DEF FindRun, At, IInv
<1>2. PICK run \in runs :
        /\ run.key = q.key
        /\ request' = [request EXCEPT ![r].pc = "answered", ![r].outcome = run.outcome]
  BY DEF FindRun
<1> DEFINE p == [q EXCEPT !.pc = "answered", !.outcome = run.outcome]
<1>3. run \in [key: Keys, outcome: Outcomes]
  BY DEF IInv, TypeOK
<1>4. /\ p \in Running /\ p.pc = "answered" /\ p.key = run.key /\ p.outcome = run.outcome
      /\ p.held = q.held
  BY <1>1, <1>2, <1>3 DEF Running
<1>5. request' = [request EXCEPT ![r] = p] /\ UNCHANGED <<tables, mode>>
  BY <1>2 DEF FindRun
<1> HIDE DEF p
<1>6. request'[r] = p /\ mode' = mode /\ runs' = runs
  BY <1>4, <1>5, OneRun DEF IInv, tables
<1>7. run = [key |-> p.key, outcome |-> p.outcome]
  BY <1>3, <1>4
<1>8. Knows(r)'
  BY <1>1, <1>4, <1>6, <1>7 DEF IInv, Knows, HeldKnows, StatusKnown, ReviewKnown, WorkDone
<1>9. QED
  BY <1>4, <1>5, <1>8, LocalStep

LEMMA ReadLeadStep ==
  ASSUME IInv, NEW r \in Requests, ReadLead(r)
  PROVE  IInv'
<1> DEFINE q == request[r]
           p == [q EXCEPT !.pc = "conversation", !.status = lead.status, !.version = lead.version]
<1>1. q \in Running /\ q.pc = "lead"
  BY RunFields DEF ReadLead, At, IInv
<1>2. lead.status \in Statuses /\ lead.version \in Nat
  BY DEF IInv, TypeOK, LeadRows
<1>3. /\ p \in Running /\ p.held = q.held /\ p.key = q.key
      /\ p.pc = "conversation" /\ p.status \in Statuses
  BY <1>1, <1>2 DEF Running
<1>4. request' = [request EXCEPT ![r] = p] /\ UNCHANGED <<tables, mode>>
  BY DEF ReadLead
<1> HIDE DEF p
<1>5. request'[r] = p /\ mode' = mode /\ runs' = runs /\ approved' = approved
      /\ decided' = decided /\ quotes' = quotes /\ plans' = plans
  BY <1>3, <1>4, OneRun DEF IInv, tables, contact, commerce
<1>6. Knows(r)'
  BY <1>1, <1>3, <1>5 DEF IInv, Knows, HeldKnows, StatusKnown, ReviewKnown, WorkDone, Stands
<1>7. QED
  BY <1>3, <1>4, <1>6, LocalStep

LEMMA ReadConversationStep ==
  ASSUME IInv, NEW r \in Requests, ReadConversation(r)
  PROVE  IInv'
<1> DEFINE q == request[r]
           p == [q EXCEPT !.pc = "step"]
<1>1. q \in Running /\ q.pc = "conversation"
  BY RunFields DEF ReadConversation, At, IInv
<1>2. ~q.held
  BY <1>1 DEF ReadConversation, Stops, IInv, TypeOK, ControlModes, Knows, HeldKnows, Held
<1>3. /\ p \in Running /\ p.held = q.held /\ p.key = q.key
      /\ p.pc = "step" /\ p.status = q.status
  BY <1>1 DEF Running
<1>4. request' = [request EXCEPT ![r] = p] /\ UNCHANGED <<tables, mode>>
  BY DEF ReadConversation, Go
<1> HIDE DEF p
<1>5. request'[r] = p /\ mode' = mode /\ runs' = runs /\ approved' = approved
      /\ decided' = decided /\ quotes' = quotes /\ plans' = plans
  BY <1>3, <1>4, OneRun DEF IInv, tables, contact, commerce
<1>6. Knows(r)'
  BY <1>1, <1>3, <1>5, <1>2 DEF IInv, Knows, HeldKnows, StatusKnown, ReviewKnown, WorkDone, Stands
<1>7. QED
  BY <1>3, <1>4, <1>6, LocalStep

LEMMA RereadStep ==
  ASSUME IInv, NEW r \in Requests, Reread(r)
  PROVE  IInv'
<1> DEFINE q == request[r]
           p == [q EXCEPT !.pc = "save", !.outcome = Outcome("ADVANCED", "FIRST_CONTACT", lead.status)]
<1>1. q \in Running /\ q.pc = "reread"
  BY RunFields DEF Reread, At, IInv
<1>2. /\ Outcome("ADVANCED", "FIRST_CONTACT", lead.status) \in Outcomes
      /\ Outcome("ADVANCED", "FIRST_CONTACT", lead.status).reason = "FIRST_CONTACT"
  BY DEF IInv, TypeOK, LeadRows, Outcome, Outcomes, Reasons
<1>3. /\ p \in Running /\ p.held = q.held /\ p.key = q.key
      /\ p.pc = "save" /\ p.status = q.status
      /\ p.outcome = Outcome("ADVANCED", "FIRST_CONTACT", lead.status)
  BY <1>1, <1>2 DEF Running
<1>4. request' = [request EXCEPT ![r] = p] /\ UNCHANGED <<tables, mode>>
  BY DEF Reread, Save
<1> HIDE DEF p
<1>5. request'[r] = p /\ mode' = mode /\ runs' = runs /\ approved' = approved
      /\ decided' = decided /\ quotes' = quotes /\ plans' = plans
  BY <1>3, <1>4, OneRun DEF IInv, tables, contact, commerce
<1>6. Knows(r)'
  BY <1>1, <1>3, <1>5, <1>2 DEF IInv, Knows, HeldKnows, StatusKnown, ReviewKnown, WorkDone, Stands,
     ContactDecided
<1>7. QED
  BY <1>3, <1>4, <1>6, LocalStep

LEMMA BeginQuoteStep ==
  ASSUME IInv, NEW r \in Requests, BeginQuote(r)
  PROVE  IInv'
<1> DEFINE q == request[r]
           p == [q EXCEPT !.pc = "record"]
<1>1. q \in Running /\ q.pc = "step"
  BY RunFields DEF BeginQuote, At, IInv
<1>3. /\ p \in Running /\ p.held = q.held /\ p.key = q.key
      /\ p.pc = "record" /\ p.status = q.status
  BY <1>1 DEF Running
<1>4. request' = [request EXCEPT ![r] = p] /\ UNCHANGED <<tables, mode>>
  BY DEF BeginQuote, Go
<1> HIDE DEF p
<1>5. request'[r] = p /\ mode' = mode /\ runs' = runs /\ approved' = approved
      /\ decided' = decided /\ quotes' = quotes /\ plans' = plans
  BY <1>3, <1>4, OneRun DEF IInv, tables, contact, commerce
<1>6. Knows(r)'
  BY <1>1, <1>3, <1>5 DEF IInv, Knows, HeldKnows, StatusKnown, ReviewKnown, WorkDone, Stands
<1>7. QED
  BY <1>3, <1>4, <1>6, LocalStep

LEMMA ReadQuotedStep ==
  ASSUME IInv, NEW r \in Requests, ReadQuoted(r)
  PROVE  IInv'
<1> DEFINE q == request[r]
           p == [q EXCEPT !.pc = "move", !.status = lead.status, !.version = lead.version]
<1>1. q \in Running /\ q.pc = "quote"
  BY RunFields DEF ReadQuoted, At, IInv
<1>2. lead.status \in Statuses /\ lead.version \in Nat
  BY DEF IInv, TypeOK, LeadRows
<1>3. /\ p \in Running /\ p.held = q.held /\ p.key = q.key
      /\ p.pc = "move" /\ p.status \in Statuses
  BY <1>1, <1>2 DEF Running
<1>4. request' = [request EXCEPT ![r] = p] /\ UNCHANGED <<tables, mode>>
  BY DEF ReadQuoted
<1> HIDE DEF p
<1>5. request'[r] = p /\ mode' = mode /\ runs' = runs /\ approved' = approved
      /\ decided' = decided /\ quotes' = quotes /\ plans' = plans
  BY <1>3, <1>4, OneRun DEF IInv, tables, contact, commerce
<1>6. Knows(r)'
  BY <1>1, <1>3, <1>5
     DEF IInv, Knows, HeldKnows, StatusKnown, ReviewKnown, WorkDone, HasQuote
<1>7. QED
  BY <1>3, <1>4, <1>6, LocalStep

LEMMA QuotedStep ==
  ASSUME IInv, NEW r \in Requests, Quoted(r)
  PROVE  IInv'
<1> DEFINE q == request[r]
           p == [q EXCEPT !.pc = "save", !.outcome = Outcome("ADVANCED", "QUOTE", q.status)]
<1>1. q \in Running /\ q.pc = "move"
  BY RunFields DEF Quoted, At, IInv
<1>2. /\ Outcome("ADVANCED", "QUOTE", q.status) \in Outcomes
      /\ Outcome("ADVANCED", "QUOTE", q.status).reason = "QUOTE"
  BY <1>1 DEF IInv, Knows, StatusKnown, Outcome, Outcomes, Reasons
<1>3. /\ p \in Running /\ p.held = q.held /\ p.key = q.key
      /\ p.pc = "save" /\ p.status = q.status
      /\ p.outcome = Outcome("ADVANCED", "QUOTE", q.status)
  BY <1>1, <1>2 DEF Running
<1>4. request' = [request EXCEPT ![r] = p] /\ UNCHANGED <<tables, mode>>
  BY DEF Quoted, Save
<1> HIDE DEF p
<1>5. request'[r] = p /\ mode' = mode /\ runs' = runs /\ approved' = approved
      /\ decided' = decided /\ quotes' = quotes /\ plans' = plans
  BY <1>3, <1>4, OneRun DEF IInv, tables, contact, commerce
<1>6. Knows(r)'
  BY <1>1, <1>3, <1>5, <1>2 DEF IInv, Knows, HeldKnows, StatusKnown, ReviewKnown, WorkDone, Stands,
     HasQuote
<1>7. QED
  BY <1>3, <1>4, <1>6, LocalStep

LEMMA BeginPlanStep ==
  ASSUME IInv, NEW r \in Requests, BeginPlan(r)
  PROVE  IInv'
<1> DEFINE q == request[r]
           p == [q EXCEPT !.pc = "plan"]
<1>1. q \in Running /\ q.pc = "step"
  BY RunFields DEF BeginPlan, At, IInv
<1>3. /\ p \in Running /\ p.held = q.held /\ p.key = q.key
      /\ p.pc = "plan" /\ p.status = q.status
  BY <1>1 DEF Running
<1>4. request' = [request EXCEPT ![r] = p] /\ UNCHANGED <<tables, mode>>
  BY DEF BeginPlan, Go
<1> HIDE DEF p
<1>5. request'[r] = p /\ mode' = mode /\ runs' = runs /\ approved' = approved
      /\ decided' = decided /\ quotes' = quotes /\ plans' = plans
  BY <1>3, <1>4, OneRun DEF IInv, tables, contact, commerce
<1>6. Knows(r)'
  BY <1>1, <1>3, <1>5 DEF IInv, Knows, HeldKnows, StatusKnown, ReviewKnown, WorkDone, Stands
<1>7. QED
  BY <1>3, <1>4, <1>6, LocalStep

LEMMA WaitStep ==
  ASSUME IInv, NEW r \in Requests, Wait(r)
  PROVE  IInv'
<1> DEFINE q == request[r]
           o == Outcome(IF q.status = "JOB_READY" THEN "COMPLETE" ELSE "WAITING",
                        Waiting(q.status), q.status)
           p == [q EXCEPT !.pc = "save", !.outcome = o]
<1>1. q \in Running /\ q.pc = "step" /\ q.status \in Statuses
  BY RunFields DEF Wait, At, IInv, Knows, StatusKnown
<1>2. Waiting(q.status) \in Reasons
        \ {"FIRST_CONTACT", "FOLLOW_UP_PLANNED", "ACCEPTANCE"}
  BY DEF Waiting, Reasons
<1>3. o \in Outcomes /\ o.disposition # "ADVANCED" /\ o.reason = Waiting(q.status)
  BY <1>1, <1>2 DEF Outcome, Outcomes
<1> HIDE DEF o
<1>4. /\ p \in Running /\ p.held = q.held /\ p.key = q.key
      /\ p.pc = "save" /\ p.status = q.status /\ p.outcome = o
  BY <1>1, <1>3 DEF Running
<1>5. request' = [request EXCEPT ![r] = p] /\ UNCHANGED <<tables, mode>>
  BY DEF Wait, Save, o
<1> HIDE DEF p
<1>6. request'[r] = p /\ mode' = mode /\ approved' = approved /\ decided' = decided
      /\ quotes' = quotes /\ plans' = plans
  BY <1>4, <1>5, OneRun DEF IInv, tables, contact, commerce
<1>7. Knows(r)'
  BY <1>1, <1>2, <1>3, <1>4, <1>6 DEF IInv, Knows, HeldKnows, StatusKnown, ReviewKnown, WorkDone, Stands
<1>8. QED
  BY <1>4, <1>5, <1>7, LocalStep

LEMMA FinishStep ==
  ASSUME IInv, NEW r \in Requests, Finish(r)
  PROVE  IInv'
<1>1. request' = [request EXCEPT ![r] = Idle] /\ UNCHANGED <<tables, mode>>
  BY DEF Finish
<1>2. request'[r].pc = "idle"
  BY <1>1, OneRun DEF IInv, Idle
<1>3. Knows(r)'
  BY <1>2 DEF Knows, HeldKnows, StatusKnown, ReviewKnown, WorkDone
<1>4. QED
  BY <1>1, <1>3, LocalStep

-----------------------------------------------------------------------------
(* Steps that write *)

LEMMA MovedRow ==
  ASSUME TypeOK, NEW to \in Statuses, Moved(to)
  PROVE  lead' \in LeadRows
<1>1. lead.status \in Statuses /\ lead.version \in Nat /\ lead.resume \in Statuses \cup {Nil}
  BY DEF TypeOK, LeadRows
<1>2. ResumeAfter(lead.status, to, lead.resume) \in Statuses \cup {Nil}
  BY <1>1 DEF ResumeAfter, HoldResume
<1>3. QED
  BY <1>1, <1>2 DEF Moved, LeadRows

\* A run goes from q to p and adds to the store.
LEMMA WriteStep ==
  ASSUME IInv, NEW r \in Requests, NEW p \in Running,
         request' = [request EXCEPT ![r] = p], mode' = mode, runs' = runs,
         approved \subseteq approved', decided \subseteq decided',
         quotes \subseteq quotes', plans \subseteq plans',
         lead' \in LeadRows, review' \in ReviewRows, Numbered',
         approved' \subseteq 1..MaxReviews, prepared' \subseteq ContactKeys,
         decided' \subseteq ContactKeys,
         quotes' \subseteq QuoteRows, moves' \subseteq MoveRows, plans' \subseteq Keys,
         acts' \subseteq [key: Keys, step: Steps], Knows(r)'
  PROVE  IInv'
<1>1. /\ request' \in [Requests -> {Idle} \cup Running]
      /\ \A s \in Requests : request'[s] = request[s] \/ Knows(s)'
  BY OneRun DEF IInv
<1>2. TypeOK'
  BY <1>1 DEF IInv, TypeOK
<1>3. QED
  BY <1>1, <1>2, StoreGrows

LEMMA DecidingFields ==
  ASSUME TypeOK, NEW q \in Running, NEW n \in 1..MaxReviews
  PROVE  LET p == [q EXCEPT !.pc = "decide", !.review = n]
         IN /\ p \in Running /\ p.pc = "decide" /\ p.review = n
            /\ p.held = q.held /\ p.status = q.status /\ p.key = q.key
<1>1. n \in Nat
  BY AutomationAssumption
<1>2. QED
  BY <1>1 DEF Running

\* A run has found the review to decide on.
LEMMA DecidingStep ==
  ASSUME IInv, UNCHANGED <<tables, mode>>, NEW r \in Requests,
         request[r].pc \in {"step", "prepare"}, NEW n \in 1..MaxReviews, Deciding(r, n)
  PROVE  IInv'
<1> DEFINE q == request[r]
           p == [q EXCEPT !.pc = "decide", !.review = n]
<1>1. q \in Running
  BY RunFields DEF IInv
<1>2. /\ p \in Running /\ p.pc = "decide" /\ p.review = n
      /\ p.held = q.held /\ p.status = q.status
  BY <1>1, DecidingFields DEF IInv
<1>3. request' = [request EXCEPT ![r] = p]
  BY DEF Deciding
<1> HIDE DEF p
<1>4. request'[r] = p /\ mode' = mode
  BY <1>2, <1>3, OneRun DEF IInv
<1>5. Knows(r)'
  BY <1>1, <1>2, <1>4 DEF IInv, Knows, HeldKnows, StatusKnown, ReviewKnown, WorkDone
<1>6. QED
  BY <1>2, <1>3, <1>5, LocalStep

LEMMA PrepareReadStep ==
  ASSUME IInv, NEW r \in Requests, PrepareRead(r)
  PROVE  IInv'
<1> DEFINE q == request[r]
           p == [q EXCEPT !.pc = "prepare", !.version = lead.version]
<1>1. q \in Running /\ q.pc = "step" /\ UNCHANGED <<tables, mode>>
  BY RunFields DEF PrepareRead, At, IInv
<1>2. CASE review.pending /\ Deciding(r, review.number)
  <2>1. review.number \in 1..MaxReviews
    BY <1>2 DEF IInv, Numbered
  <2>2. QED
    BY <1>1, <1>2, <2>1, DecidingStep
<1>3. CASE request' = [request EXCEPT ![r].pc = "prepare", ![r].version = lead.version]
  <2>1. lead.version \in Nat
    BY DEF IInv, TypeOK, LeadRows
  <2>2. p \in Running /\ p.pc = "prepare" /\ p.held = q.held /\ p.status = q.status
    BY <1>1, <2>1 DEF Running
  <2>3. request' = [request EXCEPT ![r] = p]
    BY <1>3
  <2> HIDE DEF p
  <2>4. request'[r] = p /\ mode' = mode
    BY <1>1, <2>2, <2>3, OneRun DEF IInv
  <2>5. Knows(r)'
    BY <1>1, <2>2, <2>4 DEF IInv, Knows, HeldKnows, StatusKnown, ReviewKnown, WorkDone
  <2>6. QED
    BY <1>1, <2>2, <2>3, <2>5, LocalStep
<1>4. QED
  BY <1>2, <1>3 DEF PrepareRead

LEMMA PrepareReplayStep ==
  ASSUME IInv, NEW r \in Requests, PrepareReplay(r)
  PROVE  IInv'
<1>1. PICK row \in prepared : Deciding(r, row.review)
  BY DEF PrepareReplay
<1>2. row.review \in 1..MaxReviews
  BY DEF IInv, TypeOK, ContactKeys
<1>3. QED
  BY <1>1, <1>2, DecidingStep DEF PrepareReplay, At

\* A new review has a number and its lead a row.
LEMMA OpenedRows ==
  ASSUME IInv, Opened, review.number < MaxReviews
  PROVE  /\ review.number + 1 \in 1..MaxReviews
         /\ lead' \in LeadRows /\ review' \in ReviewRows /\ Numbered'
<1>1. review.number + 1 \in 1..MaxReviews /\ review.number + 1 \in 0..MaxReviews
  BY AutomationAssumption DEF IInv, TypeOK, ReviewRows
<1>2. lead' \in LeadRows
  BY MovedRow DEF IInv, Opened, Statuses
<1>3. review' \in ReviewRows /\ Numbered'
  BY <1>1 DEF Opened, ReviewRows, Numbered
<1>4. QED
  BY <1>1, <1>2, <1>3

\* A decided review stays in its table and its lead has a row.
LEMMA ClosedRows ==
  ASSUME IInv, NEW to \in Statuses, Moved(to), review' = [review EXCEPT !.pending = FALSE]
  PROVE  lead' \in LeadRows /\ review' \in ReviewRows /\ Numbered'
<1>1. lead' \in LeadRows
  BY MovedRow DEF IInv
<1>2. review' \in ReviewRows /\ ~review'.pending
  BY DEF IInv, TypeOK, ReviewRows
<1>3. QED
  BY <1>1, <1>2 DEF Numbered

LEMMA PrepareCommitStep ==
  ASSUME IInv, NEW r \in Requests, PrepareCommit(r)
  PROVE  IInv'
<1> DEFINE q == request[r]
           n == review.number + 1
           p == [q EXCEPT !.pc = "decide", !.review = n]
<1>1. q \in Running /\ q.pc = "prepare" /\ q.key \in Keys
  BY RunFields DEF PrepareCommit, At, IInv, Running
<1>2. n \in 1..MaxReviews /\ lead' \in LeadRows /\ review' \in ReviewRows /\ Numbered'
  BY OpenedRows DEF PrepareCommit
<1>3. /\ p \in Running /\ p.pc = "decide" /\ p.review = n
      /\ p.held = q.held /\ p.status = q.status
  BY <1>1, <1>2, DecidingFields DEF IInv
<1>4. /\ request' = [request EXCEPT ![r] = p]
      /\ prepared' = prepared \cup {[key |-> q.key, review |-> n]}
      /\ approved' = approved /\ decided' = decided /\ mode' = mode /\ quotes' = quotes
      /\ moves' = moves /\ plans' = plans /\ runs' = runs /\ acts' = acts
  BY DEF PrepareCommit, Deciding, commerce
<1> HIDE DEF p, n
<1>5. prepared' \subseteq ContactKeys
  BY <1>1, <1>2, <1>4 DEF IInv, TypeOK, ContactKeys
<1>6. request'[r] = p
  BY <1>3, <1>4, OneRun DEF IInv
<1>7. Knows(r)'
  BY <1>1, <1>2, <1>3, <1>4, <1>6
     DEF IInv, Knows, HeldKnows, StatusKnown, ReviewKnown, WorkDone
<1>8. TypeOK
  BY DEF IInv
<1>9. QED
  BY <1>2, <1>3, <1>4, <1>5, <1>7, <1>8, WriteStep DEF TypeOK

\* A run is past its decision when there is one to rely on.
LEMMA ContactStep ==
  ASSUME IInv, UNCHANGED <<tables, mode>>, NEW r \in Requests,
         request[r].pc \in {"decide", "approve"}, ContactDecided(request[r].key),
         Go(r, "reread")
  PROVE  IInv'
<1> DEFINE q == request[r]
           p == [q EXCEPT !.pc = "reread"]
<1>1. q \in Running
  BY RunFields DEF IInv
<1>2. /\ p \in Running /\ p.pc = "reread" /\ p.key = q.key
      /\ p.held = q.held /\ p.status = q.status
  BY <1>1 DEF Running
<1>3. request' = [request EXCEPT ![r] = p]
  BY DEF Go
<1> HIDE DEF p
<1>4. request'[r] = p /\ mode' = mode /\ approved' = approved /\ decided' = decided
  BY <1>2, <1>3, OneRun DEF IInv, tables, contact
<1>5. Knows(r)'
  BY <1>1, <1>2, <1>4
     DEF IInv, Knows, HeldKnows, StatusKnown, ReviewKnown, WorkDone, ContactDecided
<1>6. QED
  BY <1>2, <1>3, <1>5, LocalStep

LEMMA DecideReadStep ==
  ASSUME IInv, NEW r \in Requests, DecideRead(r)
  PROVE  IInv'
<1> DEFINE q == request[r]
           to == IF review.late THEN "expire" ELSE "approve"
           p == [q EXCEPT !.pc = to, !.version = lead.version]
<1>1. q \in Running /\ q.pc = "decide" /\ UNCHANGED <<tables, mode>>
  BY RunFields DEF DecideRead, At, IInv
<1>2. CASE FoundApproved(q.review) /\ Go(r, "reread")
  BY <1>1, <1>2, ContactStep DEF FoundApproved, ContactDecided
<1>3. CASE request' = [request EXCEPT ![r].pc = to, ![r].version = lead.version]
  <2>1. lead.version \in Nat /\ to \in {"expire", "approve"}
    BY DEF IInv, TypeOK, LeadRows
  <2> HIDE DEF to
  <2>2. /\ p \in Running /\ p.pc \in {"expire", "approve"} /\ p.held = q.held
        /\ p.status = q.status /\ p.review = q.review
    BY <1>1, <2>1 DEF Running
  <2>3. request' = [request EXCEPT ![r] = p]
    BY <1>3
  <2> HIDE DEF p
  <2>4. request'[r] = p /\ mode' = mode
    BY <1>1, <2>2, <2>3, OneRun DEF IInv
  <2>5. Knows(r)'
    BY <1>1, <2>2, <2>4 DEF IInv, Knows, HeldKnows, StatusKnown, ReviewKnown, WorkDone
  <2>6. QED
    BY <1>1, <2>2, <2>3, <2>5, LocalStep
<1>4. QED
  BY <1>2, <1>3 DEF DecideRead

LEMMA DecideReplayStep ==
  ASSUME IInv, NEW r \in Requests, DecideReplay(r)
  PROVE  IInv'
<1>1. /\ request[r].pc = "approve" /\ Go(r, "reread") /\ UNCHANGED <<tables, mode>>
      /\ [key |-> request[r].key, review |-> request[r].review] \in decided
  BY DEF DecideReplay, At
<1>2. ContactDecided(request[r].key)
  BY <1>1 DEF ContactDecided
<1>3. QED
  BY <1>1, <1>2, ContactStep

LEMMA DecideCommitStep ==
  ASSUME IInv, NEW r \in Requests, DecideCommit(r)
  PROVE  IInv'
<1> DEFINE q == request[r]
           p == [q EXCEPT !.pc = "reread"]
           row == [key |-> q.key, review |-> q.review]
<1>1. q \in Running /\ q.pc = "approve" /\ q.key \in Keys /\ q.review \in 1..MaxReviews
  BY RunFields DEF DecideCommit, At, IInv, Knows, ReviewKnown, Running
<1>2. /\ p \in Running /\ p.pc = "reread" /\ p.key = q.key
      /\ p.held = q.held /\ p.status = q.status
  BY <1>1 DEF Running
<1>3. /\ Moved("CONTACTED") /\ review' = [review EXCEPT !.pending = FALSE]
      /\ decided' = decided \cup {row} /\ approved' = approved \cup {q.review}
      /\ acts' = acts \cup {[key |-> q.key, step |-> "CONTACT"]}
      /\ request' = [request EXCEPT ![r] = p]
      /\ prepared' = prepared /\ mode' = mode /\ quotes' = quotes /\ moves' = moves
      /\ plans' = plans /\ runs' = runs
  BY DEF DecideCommit, Decided, Acted, Go, commerce
<1>4. lead' \in LeadRows /\ review' \in ReviewRows /\ Numbered'
  BY <1>3, ClosedRows DEF Statuses
<1>5. /\ approved' \subseteq 1..MaxReviews /\ decided' \subseteq ContactKeys
      /\ acts' \subseteq [key: Keys, step: Steps]
  BY <1>1, <1>3 DEF IInv, TypeOK, ContactKeys, Steps
<1> HIDE DEF p, row
<1>6. request'[r] = p
  BY <1>2, <1>3, OneRun DEF IInv
<1>7. Knows(r)'
  BY <1>1, <1>2, <1>3, <1>6
     DEF IInv, Knows, HeldKnows, StatusKnown, ReviewKnown, WorkDone, ContactDecided
<1>8. TypeOK
  BY DEF IInv
<1>9. QED
  BY <1>2, <1>3, <1>4, <1>5, <1>7, <1>8, WriteStep DEF TypeOK

LEMMA DecideExpiredStep ==
  ASSUME IInv, NEW r \in Requests, DecideExpired(r)
  PROVE  IInv'
<1> DEFINE q == request[r]
<1>1. q.key \in Keys /\ q.review \in 1..MaxReviews
  BY RunFields DEF DecideExpired, At, IInv, Knows, ReviewKnown, Running
<1>2. /\ Moved("NEW") /\ review' = [review EXCEPT !.pending = FALSE]
      /\ decided' = decided \cup {[key |-> q.key, review |-> q.review]}
      /\ request' = [request EXCEPT ![r] = Idle]
      /\ approved' = approved /\ prepared' = prepared /\ mode' = mode /\ quotes' = quotes
      /\ moves' = moves /\ plans' = plans /\ runs' = runs /\ acts' = acts
  BY DEF DecideExpired, Decided, commerce
<1>3. lead' \in LeadRows /\ review' \in ReviewRows /\ Numbered'
  BY <1>2, ClosedRows DEF Statuses
<1>4. decided' \subseteq ContactKeys
  BY <1>1, <1>2 DEF IInv, TypeOK, ContactKeys
<1>5. /\ request'[r] = Idle
      /\ \A s \in Requests \ {r} : request'[s] = request[s]
      /\ request' \in [Requests -> {Idle} \cup Running]
  BY <1>2, OneRun DEF IInv
<1>6. Knows(r)'
  BY <1>5 DEF Idle, Knows, HeldKnows, StatusKnown, ReviewKnown, WorkDone
<1>7. TypeOK'
  BY <1>2, <1>3, <1>4, <1>5 DEF IInv, TypeOK
<1>8. QED
  BY <1>2, <1>3, <1>5, <1>6, <1>7, StoreGrows

LEMMA RecordQuoteStep ==
  ASSUME IInv, NEW r \in Requests, RecordQuote(r)
  PROVE  IInv'
<1> DEFINE q == request[r]
           p == [q EXCEPT !.pc = "quote"]
           row == [key |-> q.key, version |-> q.version]
<1>1. q \in Running /\ q.pc = "record" /\ q.key \in Keys
  BY RunFields DEF RecordQuote, At, IInv, Running
<1>2. /\ p \in Running /\ p.pc = "quote" /\ p.held = q.held /\ p.status = q.status
      /\ p.key = q.key
  BY <1>1 DEF Running
<1>3. /\ request' = [request EXCEPT ![r] = p] /\ mode' = mode /\ runs' = runs
      /\ lead' = lead /\ review' = review /\ approved' = approved /\ prepared' = prepared
      /\ decided' = decided /\ quotes' = quotes \cup {row} /\ moves' = moves
      /\ plans' = plans /\ acts' = acts
  BY DEF RecordQuote, Go, contact
<1>4. row \in QuoteRows /\ row.key = q.key
  BY <1>1 DEF QuoteRows, Running
<1> HIDE DEF p, row
<1>5. request'[r] = p
  BY <1>2, <1>3, OneRun DEF IInv
<1>6. Knows(r)'
  <2>1. ~p.held /\ p.status \in Statuses
    BY <1>1, <1>2, <1>3, <1>5 DEF IInv, Knows, HeldKnows, StatusKnown
  <2>2. HeldKnows(r)' /\ StatusKnown(r)' /\ ReviewKnown(r)'
    BY <1>1, <1>2, <1>3, <1>5, <2>1 DEF HeldKnows, StatusKnown, ReviewKnown
  <2>3. WorkDone(r)'
    <3>1. \E other \in quotes' : other.key = request'[r].key
      BY <1>2, <1>3, <1>4, <1>5
    <3>2. QED
      BY <1>2, <1>5, <3>1 DEF WorkDone, HasQuote
  <2>4. QED
    BY <2>2, <2>3 DEF Knows
<1>7. TypeOK /\ Numbered'
  BY <1>3 DEF IInv, Numbered
<1>8. QED
  BY <1>1, <1>2, <1>3, <1>4, <1>6, <1>7, WriteStep DEF TypeOK

LEMMA MovedOnFields ==
  ASSUME NEW q \in Running
  PROVE  LET move == QuoteMove(q)
             p == [q EXCEPT !.status = move.to, !.version = move.version + 1]
         IN /\ p \in Running /\ p.pc = q.pc /\ p.held = q.held /\ p.key = q.key
            /\ p.status \in Statuses
            /\ move \in [key: Keys, to: {"QUOTE_READY", "QUOTE_SENT"}, version: Nat]
<1> DEFINE move == QuoteMove(q)
<1>1. /\ move \in [key: Keys, to: {"QUOTE_READY", "QUOTE_SENT"}, version: Nat]
      /\ move.version + 1 \in Nat /\ move.to \in Statuses
  BY DEF QuoteMove, Running, Statuses
<1> HIDE DEF move
<1>2. QED
  BY <1>1 DEF Running, move

\* A run whose quote is recorded goes from one status to the next.
LEMMA MovedOnKnows ==
  ASSUME IInv, NEW r \in Requests, request[r].pc = "move", MovedOn(r, QuoteMove(request[r])),
         mode' = mode, quotes' = quotes
  PROVE  Knows(r)'
<1> DEFINE q == request[r]
           move == QuoteMove(q)
           p == [q EXCEPT !.status = move.to, !.version = move.version + 1]
<1>1. q \in Running
  BY RunFields DEF IInv
<1>2. /\ p \in Running /\ p.pc = "move" /\ p.held = q.held /\ p.key = q.key
      /\ p.status \in Statuses
  BY <1>1, MovedOnFields
<1>3. request' = [request EXCEPT ![r] = p]
  BY DEF MovedOn
<1> HIDE DEF p
<1>4. request'[r] = p
  BY <1>2, <1>3, OneRun DEF IInv
<1>5. QED
  BY <1>1, <1>2, <1>4 DEF IInv, Knows, HeldKnows, StatusKnown, ReviewKnown, WorkDone, HasQuote

LEMMA MoveReplayStep ==
  ASSUME IInv, NEW r \in Requests, MoveReplay(r)
  PROVE  IInv'
<1> DEFINE q == request[r]
           move == QuoteMove(q)
           p == [q EXCEPT !.status = move.to, !.version = move.version + 1]
<1>1. q \in Running /\ q.pc = "move" /\ MovedOn(r, move) /\ UNCHANGED <<tables, mode>>
  BY RunFields DEF MoveReplay, At, IInv
<1>2. p \in Running
  BY <1>1, MovedOnFields
<1>3. request' = [request EXCEPT ![r] = p]
  BY <1>1 DEF MovedOn
<1>4. mode' = mode /\ quotes' = quotes
  BY <1>1 DEF tables, commerce
<1> HIDE DEF p
<1>5. Knows(r)'
  BY <1>1, <1>4, MovedOnKnows
<1>6. QED
  BY <1>1, <1>2, <1>3, <1>5, LocalStep

LEMMA MoveQuotedStep ==
  ASSUME IInv, NEW r \in Requests, MoveQuoted(r)
  PROVE  IInv'
<1> DEFINE q == request[r]
           move == QuoteMove(q)
           p == [q EXCEPT !.status = move.to, !.version = move.version + 1]
<1>1. q \in Running /\ q.pc = "move" /\ q.key \in Keys
  BY RunFields DEF MoveQuoted, At, IInv, Running
<1>2. /\ MovedOn(r, move) /\ Moved(move.to) /\ moves' = moves \cup {move}
      /\ acts' = acts \cup {[key |-> q.key, step |-> "QUOTE"]}
      /\ mode' = mode /\ runs' = runs /\ review' = review /\ approved' = approved
      /\ prepared' = prepared /\ decided' = decided /\ quotes' = quotes /\ plans' = plans
  BY DEF MoveQuoted, Acted, contact
<1>3. p \in Running /\ move.to \in Statuses /\ move \in MoveRows
  BY <1>1, MovedOnFields DEF MoveRows, Running
<1>4. request' = [request EXCEPT ![r] = p]
  BY <1>2 DEF MovedOn
<1>5. Knows(r)'
  BY <1>1, <1>2, MovedOnKnows
<1> HIDE DEF p, move
<1>6. TypeOK /\ Numbered'
  BY <1>2 DEF IInv, Numbered
<1>7. lead' \in LeadRows
  BY <1>2, <1>3, <1>6, MovedRow
<1>8. acts' \subseteq [key: Keys, step: Steps] /\ moves' \subseteq MoveRows
  BY <1>1, <1>2, <1>3, <1>6 DEF TypeOK, Steps
<1>9. QED
  BY <1>2, <1>3, <1>4, <1>5, <1>6, <1>7, <1>8, WriteStep DEF TypeOK

LEMMA PlanStep ==
  ASSUME IInv, NEW r \in Requests, Plan(r)
  PROVE  IInv'
<1> DEFINE q == request[r]
           o == Outcome("WAITING",
                        IF q.status = "CUSTOMER_ACCEPTED" THEN "ACCEPTANCE"
                        ELSE "FOLLOW_UP_PLANNED", q.status)
           p == [q EXCEPT !.pc = "save", !.outcome = o]
<1>1. q \in Running /\ q.pc = "plan" /\ q.status \in Statuses /\ q.key \in Keys
  BY RunFields DEF Plan, At, IInv, Knows, StatusKnown, Running
<1>2. /\ o \in Outcomes /\ o.disposition = "WAITING"
      /\ o.reason \in {"FOLLOW_UP_PLANNED", "ACCEPTANCE"}
  BY <1>1 DEF Outcome, Outcomes, Reasons
<1>3. /\ request' = [request EXCEPT ![r] = p]
      /\ mode' = mode /\ runs' = runs /\ lead' = lead /\ review' = review
      /\ approved' = approved /\ prepared' = prepared /\ decided' = decided
      /\ quotes' = quotes /\ moves' = moves /\ plans' = plans \cup {q.key}
  BY DEF Plan, Save, contact
<1> HIDE DEF o
<1>4. /\ p \in Running /\ p.pc = "save" /\ p.held = q.held /\ p.status = q.status
      /\ p.key = q.key /\ p.outcome = o
  BY <1>1, <1>2 DEF Running
<1> HIDE DEF p
<1>5. request'[r] = p
  BY <1>3, <1>4, OneRun DEF IInv
<1>6. Knows(r)'
  <2>1. ~p.held /\ p.status \in Statuses
    BY <1>1, <1>2, <1>3, <1>4, <1>5 DEF IInv, Knows, HeldKnows, StatusKnown
  <2>2. HeldKnows(r)' /\ StatusKnown(r)' /\ ReviewKnown(r)'
    BY <1>1, <1>2, <1>3, <1>4, <1>5, <2>1 DEF HeldKnows, StatusKnown, ReviewKnown
  <2>3. WorkDone(r)'
    BY <1>1, <1>2, <1>3, <1>4, <1>5 DEF WorkDone, Stands
  <2>4. QED
    BY <2>2, <2>3 DEF Knows
<1>7. TypeOK /\ Numbered'
  BY <1>3 DEF IInv, Numbered
<1>8. acts' \subseteq [key: Keys, step: Steps]
  <2>1. [key |-> q.key, step |-> "FOLLOW_UP"] \in [key: Keys, step: Steps]
    BY <1>1 DEF Steps
  <2>2. acts' = acts \/ acts' = acts \cup {[key |-> q.key, step |-> "FOLLOW_UP"]}
    BY DEF Plan, Acted
  <2>3. QED
    BY <1>7, <2>1, <2>2 DEF TypeOK
<1>9. QED
  BY <1>1, <1>3, <1>4, <1>6, <1>7, <1>8, WriteStep DEF TypeOK

LEMMA SaveRunStep ==
  ASSUME IInv, NEW r \in Requests, SaveRun(r)
  PROVE  IInv'
<1> DEFINE q == request[r]
           a == Answer(q)
           p == [q EXCEPT !.pc = "answered", !.outcome = a]
<1>1. /\ q \in Running /\ q.pc = "save" /\ q.key \in Keys
      /\ q.outcome \in Outcomes /\ Stands(q.key, q.outcome)
  BY RunFields DEF SaveRun, At, IInv, Knows, WorkDone, Running
<1>2. runs \subseteq [key: Keys, outcome: Outcomes]
  BY DEF IInv, TypeOK
<1>3. /\ request' = [request EXCEPT ![r] = p]
      /\ mode' = mode /\ lead' = lead /\ review' = review /\ approved' = approved
      /\ prepared' = prepared /\ decided' = decided /\ quotes' = quotes /\ moves' = moves
      /\ plans' = plans /\ acts' = acts
  BY DEF SaveRun, contact, commerce
<1>4. /\ runs \subseteq runs' /\ runs' \subseteq [key: Keys, outcome: Outcomes]
      /\ a \in Outcomes /\ [key |-> q.key, outcome |-> a] \in runs'
      /\ OneOutcome' /\ StoredRunsHaveRecords'
  <2>1. CASE \E run \in runs : run.key = q.key
    <3>1. runs' = runs
      BY <2>1 DEF SaveRun
    <3>2. PICK run \in runs : run.key = q.key /\ a = run.outcome
      BY <2>1 DEF Answer
    <3>3. run = [key |-> q.key, outcome |-> a] /\ a \in Outcomes
      BY <1>2, <3>2
    <3>4. OneOutcome' /\ StoredRunsHaveRecords'
      BY <1>3, <3>1 DEF IInv, OneOutcome, StoredRunsHaveRecords, HasQuote
    <3>5. QED
      BY <1>2, <3>1, <3>2, <3>3, <3>4
  <2>2. CASE ~ \E run \in runs : run.key = q.key
    <3> DEFINE new == [key |-> q.key, outcome |-> q.outcome]
    <3>1. runs' = runs \cup {new} /\ a = q.outcome
      BY <2>2 DEF SaveRun, Answer
    <3>2. new \in [key: Keys, outcome: Outcomes] /\ new.key = q.key /\ new.outcome = q.outcome
      BY <1>1
    <3> HIDE DEF new
    <3>3. OneOutcome'
      BY <2>2, <3>1, <3>2 DEF IInv, OneOutcome
    <3>4. StoredRunsHaveRecords'
      BY <1>1, <1>3, <3>1, <3>2 DEF IInv, StoredRunsHaveRecords, Stands, ContactDecided, HasQuote
    <3>5. QED
      BY <1>1, <1>2, <3>1, <3>2, <3>3, <3>4 DEF new
  <2>3. QED
    BY <2>1, <2>2
<1> HIDE DEF a
<1>5. /\ p \in Running /\ p.pc = "answered" /\ p.held = q.held /\ p.key = q.key
      /\ p.outcome = a
  BY <1>1, <1>4 DEF Running
<1> HIDE DEF p
<1>6. /\ request'[r] = p /\ \A s \in Requests \ {r} : request'[s] = request[s]
      /\ request' \in [Requests -> {Idle} \cup Running]
  BY <1>3, <1>5, OneRun DEF IInv
<1>7. Knows(r)'
  BY <1>1, <1>3, <1>4, <1>5, <1>6 DEF IInv, Knows, HeldKnows, StatusKnown, ReviewKnown, WorkDone
<1>8. \A s \in Requests \ {r} : Knows(s)'
  BY <1>3, <1>4, <1>6
     DEF IInv, Knows, HeldKnows, StatusKnown, ReviewKnown, WorkDone, Stands, ContactDecided, HasQuote
<1>9. TypeOK' /\ Numbered'
  BY <1>3, <1>4, <1>6 DEF IInv, TypeOK, Numbered
<1>10. QED
  BY <1>4, <1>7, <1>8, <1>9 DEF IInv

-----------------------------------------------------------------------------
(* The others *)

\* People and the customer write the lead, its review and what is approved.
LEMMA OtherStep ==
  ASSUME IInv, lead' \in LeadRows, review' \in ReviewRows,
         Numbered', approved \subseteq approved', approved' \subseteq 1..MaxReviews,
         UNCHANGED <<prepared, decided, mode, commerce, runs, acts, request>>
  PROVE  IInv'
<1>1. TypeOK'
  BY DEF IInv, TypeOK, commerce
<1>2. QED
  BY <1>1, StoreGrows DEF commerce

LEMMA OpenReviewStep == ASSUME IInv, OpenReview PROVE IInv'
<1>1. /\ lead' \in LeadRows /\ review' \in ReviewRows /\ Numbered'
      /\ UNCHANGED <<approved, prepared, decided, mode, commerce, runs, acts, request>>
  BY OpenedRows DEF OpenReview
<1>2. QED
  BY <1>1, OtherStep DEF IInv, TypeOK

LEMMA ExpireStep == ASSUME IInv, Expire PROVE IInv'
<1>1. /\ review' = [review EXCEPT !.late = TRUE] /\ lead' = lead
      /\ UNCHANGED <<approved, prepared, decided, mode, commerce, runs, acts, request>>
  BY DEF Expire
<1>2. /\ review' \in ReviewRows /\ review'.pending = review.pending
      /\ review'.number = review.number
  BY <1>1 DEF IInv, TypeOK, ReviewRows
<1>3. Numbered'
  BY <1>2 DEF IInv, Numbered
<1>4. QED
  BY <1>1, <1>2, <1>3, OtherStep DEF IInv, TypeOK

LEMMA CloseReviewStep == ASSUME IInv, CloseReview PROVE IInv'
<1>1. /\ review' = [review EXCEPT !.pending = FALSE]
      /\ Moved("CONTACTED") \/ Moved("NEW")
      /\ approved' = approved \/ approved' = approved \cup {review.number}
      /\ UNCHANGED <<prepared, decided, mode, commerce, runs, acts, request>>
  BY DEF CloseReview
<1>2. lead' \in LeadRows /\ review' \in ReviewRows /\ Numbered'
  BY <1>1, ClosedRows DEF Statuses
<1>3. approved \subseteq 1..MaxReviews /\ review.number \in 1..MaxReviews
  BY DEF IInv, TypeOK, Numbered, CloseReview, Pending
<1>4. QED
  BY <1>1, <1>2, <1>3, OtherStep

LEMMA OtherMoveStep == ASSUME IInv, OtherMove PROVE IInv'
<1>1. PICK to \in OtherTargets :
        /\ Allows(lead.status, to, lead.resume, Nil, Flags \ {"quoteReady", "quoteSent"})
        /\ Moved(to)
  BY DEF OtherMove
<1>2. to \in Statuses
  BY <1>1, AutomationAssumption DEF Allows, Closes, Advances, Pauses, Holds, Resumes, OpenSteps,
     GatedSteps, Statuses, WorkflowTargets, Suspended, Active
<1>3. lead' \in LeadRows
  BY <1>1, <1>2, MovedRow DEF IInv
<1>4. /\ review' = review /\ approved' = approved
      /\ UNCHANGED <<prepared, decided, mode, commerce, runs, acts, request>>
  BY DEF OtherMove, contact
<1>5. Numbered'
  BY <1>4 DEF IInv, Numbered
<1>6. QED
  BY <1>3, <1>4, <1>5, OtherStep DEF IInv, TypeOK

LEMMA SetModeStep == ASSUME IInv, SetMode PROVE IInv'
<1>1. PICK m \in ControlModes \ {Nil, mode} :
        /\ mode' = m
        /\ request' = [r \in Requests |->
             IF request[r] # Idle /\ ~Held(m) THEN [request[r] EXCEPT !.held = FALSE]
             ELSE request[r]]
  BY DEF SetMode
<1>2. /\ lead' = lead /\ review' = review /\ approved' = approved /\ prepared' = prepared
      /\ decided' = decided /\ quotes' = quotes /\ moves' = moves /\ plans' = plans
      /\ runs' = runs /\ acts' = acts
  BY DEF SetMode, tables, contact, commerce
<1>3. ASSUME NEW r \in Requests
      PROVE  request'[r] \in {Idle} \cup Running /\ Knows(r)'
  <2>1. CASE request[r] # Idle /\ ~Held(m)
    <3> DEFINE q == request[r]
               p == [q EXCEPT !.held = FALSE]
    <3>1. q \in Running
      BY <2>1 DEF IInv, TypeOK
    <3>2. /\ p \in Running /\ p.held = FALSE /\ p.pc = q.pc /\ p.key = q.key
          /\ p.status = q.status /\ p.review = q.review /\ p.outcome = q.outcome
      BY <3>1 DEF Running
    <3>3. request'[r] = p
      BY <1>1, <2>1
    <3> HIDE DEF p
    <3>4. StatusKnown(r) /\ ReviewKnown(r) /\ WorkDone(r)
      BY DEF IInv, Knows
    <3>5. HeldKnows(r)' /\ StatusKnown(r)' /\ ReviewKnown(r)'
      BY <3>2, <3>3, <3>4 DEF HeldKnows, StatusKnown, ReviewKnown
    <3>6. WorkDone(r)'
      BY <1>2, <3>2, <3>3, <3>4 DEF WorkDone, Stands, ContactDecided, HasQuote
    <3>7. QED
      BY <3>2, <3>3, <3>5, <3>6 DEF Knows
  <2>2. CASE request[r] = Idle
    <3>1. request'[r] = Idle
      BY <1>1, <2>2
    <3>2. QED
      BY <3>1 DEF Idle, Knows, HeldKnows, StatusKnown, ReviewKnown, WorkDone
  <2>3. CASE Held(m)
    <3>1. request'[r] = request[r]
      BY <1>1, <2>3
    <3>2. HeldKnows(r)'
      BY <1>1, <2>3, <3>1 DEF IInv, Knows, HeldKnows, Held
    <3>3. StatusKnown(r)' /\ ReviewKnown(r)' /\ WorkDone(r)'
      BY <1>2, <3>1
         DEF IInv, Knows, StatusKnown, ReviewKnown, WorkDone, Stands, ContactDecided, HasQuote
    <3>4. QED
      BY <3>1, <3>2, <3>3 DEF IInv, TypeOK, Knows
  <2>4. QED
    BY <2>1, <2>2, <2>3
<1>4. TypeOK'
  BY <1>1, <1>2, <1>3 DEF IInv, TypeOK
<1>5. Numbered' /\ StoredRunsHaveRecords' /\ OneOutcome'
  BY <1>2 DEF IInv, Numbered, StoredRunsHaveRecords, OneOutcome, HasQuote
<1>6. QED
  BY <1>3, <1>4, <1>5 DEF IInv

-----------------------------------------------------------------------------

LEMMA InitHolds == Init => IInv
BY AutomationAssumption
   DEF Init, IInv, TypeOK, Numbered, Knows, HeldKnows, StatusKnown, ReviewKnown, WorkDone,
       StoredRunsHaveRecords, OneOutcome, Idle, LeadRows, ReviewRows, Statuses,
       ControlModes

LEMMA NextHolds == IInv /\ [Next]_vars => IInv'
<1>1. SUFFICES ASSUME IInv, [Next]_vars PROVE IInv'
  OBVIOUS
<1>2. CASE UNCHANGED vars
  <2>1. /\ lead' = lead /\ review' = review /\ approved' = approved /\ prepared' = prepared
        /\ decided' = decided /\ quotes' = quotes /\ moves' = moves /\ plans' = plans
        /\ mode' = mode /\ runs' = runs /\ acts' = acts /\ request' = request
    BY <1>2 DEF vars, tables, contact, commerce
  <2>2. TypeOK' /\ Numbered'
    BY <1>1, <2>1 DEF IInv, TypeOK, Numbered
  <2>3. QED
    BY <1>1, <2>1, <2>2, StoreGrows
<1>3. ASSUME NEW r \in Requests, (\E k \in Keys : Start(r, k)) \/ Proceed(r) \/ Finish(r)
      PROVE  IInv'
  BY <1>1, <1>3, StartStep, FindRunStep, ReadLeadStep, ReadConversationStep,
     PrepareReadStep, PrepareCommitStep, PrepareReplayStep,
     DecideReadStep, DecideCommitStep, DecideExpiredStep, DecideReplayStep, RereadStep,
     WaitStep, BeginQuoteStep, RecordQuoteStep, ReadQuotedStep,
     MoveQuotedStep, MoveReplayStep, QuotedStep, BeginPlanStep, PlanStep, SaveRunStep, FinishStep
     DEF Proceed
<1>4. QED
  BY <1>1, <1>2, <1>3, OpenReviewStep, ExpireStep, CloseReviewStep, OtherMoveStep, SetModeStep
     DEF Next

(***************************************************************************)
(* The inductive invariant of AutomationService.run: which records a run   *)
(* can rely on after each of its awaits, whatever the others have done     *)
(* meanwhile.  After its decision that is an approval, or any decision of  *)
(* its own key: run does not look at which.                                *)
(***************************************************************************)
THEOREM Invariance == Spec => []IInv
BY InitHolds, NextHolds, PTL DEF Spec

(***************************************************************************)
(* The types of the tables and of the runs in flight.                      *)
(***************************************************************************)
THEOREM TypeCorrect == Spec => []TypeOK
<1>1. IInv => TypeOK
  BY DEF IInv
<1>2. QED
  BY <1>1, Invariance, PTL

(***************************************************************************)
(* A pause or HUMAN_CONTROL stops the runs that begin under it, for as     *)
(* long as it lasts.                                                       *)
(***************************************************************************)
THEOREM HeldRunsAreRefused == Spec => []HeldRunsDoNothing
<1>1. IInv => HeldRunsDoNothing
  BY DEF IInv, Knows, HeldKnows, HeldRunsDoNothing, At
<1>2. QED
  BY <1>1, Invariance, PTL

(***************************************************************************)
(* What automation stores as done has its record, which nobody takes away. *)
(* The record of a first contact can be the decision that expired it.      *)
(***************************************************************************)
THEOREM StoredRunsRestOnRecords == Spec => []StoredRunsHaveRecords
<1>1. IInv => StoredRunsHaveRecords
  BY DEF IInv
<1>2. QED
  BY <1>1, Invariance, PTL

(***************************************************************************)
(* Runs that share a key are answered alike.                               *)
(***************************************************************************)
THEOREM KeysAnswerAlike == Spec => []OneAnswerPerKey
<1>1. IInv => OneAnswerPerKey
  BY DEF IInv, OneOutcome, Knows, WorkDone, OneAnswerPerKey, At
<1>2. QED
  BY <1>1, Invariance, PTL

=============================================================================
