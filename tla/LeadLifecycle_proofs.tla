------------------------ MODULE LeadLifecycle_proofs ------------------------
(***************************************************************************)
(* Theorems about LeadLifecycle, for every set of leads, reviews, requests *)
(* and keys, and every choice of commands.                                 *)
(*                                                                         *)
(* Everything follows from the inductive invariant IInv.  The steps that   *)
(* only read are alike and share the lemma ReadStep; AdvanceCommit,        *)
(* PrepareCommit, DecideCommit and Expire write tables and have one each.  *)
(* The refinement of the in-memory stores needs ChecksStayTrue besides.    *)
(***************************************************************************)
EXTENDS LeadLifecycle, TLAPS

-----------------------------------------------------------------------------
(* Facts about the catalogue and the requests *)

\* A request's program counter tells what kind of record it is.
LEMMA RequestKinds ==
  ASSUME NEW q \in RequestStates
  PROVE  /\ q.pc = "idle" => q = Idle
         /\ q.pc = "advance.commit" => q \in AdvanceRequests
         /\ q.pc \in {"prepare.open", "prepare.commit"} => q \in PrepareRequests
         /\ q.pc = "decide.lead" => q \in DecideRequests
         /\ q.pc \in {"decide.reread", "decide.commit"} => q \in DecidingRequests
         /\ q.pc = "replied" => q \in RepliedRequests
BY DEF RequestStates, Idle, AdvanceRequests, PrepareRequests, DecideRequests,
       DecidingRequests, RepliedRequests

\* The catalogue's results are statuses, and a suspension has a stage to resume.
LEMMA PolicyTypes ==
  ASSUME NEW from \in Statuses, NEW to \in WorkflowTargets,
         NEW resume \in Statuses \cup {Nil}, NEW reason, NEW evidence,
         Allows(from, to, resume, reason, evidence),
         from \in Suspended => resume \in Active
  PROVE  /\ to \in Statuses
         /\ PreviousAfter(from, to) \in Statuses \cup {Nil}
         /\ ResumeAfter(from, to, resume) \in Statuses \cup {Nil}
         /\ IF to \in Suspended THEN ResumeAfter(from, to, resume) \in Active
                                ELSE ResumeAfter(from, to, resume) = Nil
BY DEF Allows, Closes, Advances, Pauses, Holds, Resumes, HoldResume, PreviousAfter,
       ResumeAfter, OpenSteps, GatedSteps, Statuses, WorkflowTargets, Suspended, Active

\* No workflow command moves a lead into, out of or between the stages of first contact.
LEMMA PolicyKeepsContactStage ==
  ASSUME NEW from \in Statuses, NEW to \in WorkflowTargets,
         NEW resume \in Statuses \cup {Nil}, NEW reason, NEW evidence,
         Allows(from, to, resume, reason, evidence),
         from \in Suspended => resume \in Active,
         NEW before, before = IF from \in Suspended THEN resume ELSE from,
         NEW after,
         after = IF to \in Suspended THEN ResumeAfter(from, to, resume) ELSE to
  PROVE  /\ from # "CLOSED_LOST"
         /\ to # "CLOSED_LOST" =>
              \A stage \in {"NEW", "CONTACT_PENDING"} : before = stage <=> after = stage
BY DEF Allows, Closes, Advances, Pauses, Holds, Resumes, HoldResume,
       ResumeAfter, OpenSteps, GatedSteps, Statuses, WorkflowTargets, Suspended, Active

-----------------------------------------------------------------------------
(* Steps that write no table *)

\* A request that has only read may remember what is Usable and reply what is true.
LEMMA ReadStep ==
  ASSUME IInv, NEW r \in Requests, NEW q \in RequestStates, Usable(q), TrueReply(q),
         request' = [request EXCEPT ![r] = q],
         UNCHANGED <<lead, review, transitions, prepareKeys, decisionKeys>>
  PROVE  IInv'
<1>1. TypeOK'
  BY DEF IInv, TypeOK
<1>2. \A s \in Requests : request'[s] = IF s = r THEN q ELSE request[s]
  BY DEF IInv, TypeOK
<1>3. ReadsStayUsable'
  BY <1>2 DEF IInv, ReadsStayUsable, Usable
<1>4. ReplyTellsDelivery'
  BY <1>2 DEF IInv, ReplyTellsDelivery, TrueReply
<1>5. UNCHANGED <<ReviewRowsAgree, KeysNameDecisions, SuspendedKnowsResume,
                  OpenReviewMatchesStage, ContactIsDelivery>>
  BY DEF ReviewRowsAgree, KeysNameDecisions, SuspendedKnowsResume, OpenReviewMatchesStage,
         ContactIsDelivery, Delivered, PendingReviews, Stage
<1>6. QED
  BY <1>1, <1>3, <1>4, <1>5 DEF IInv

LEMMA AdvanceLookupStep ==
  ASSUME IInv, NEW r \in Requests, NEW k \in Keys, AdvanceLookup(r, k)
  PROVE  IInv'
<1>1. PICK l \in Leads, to \in Targets, reason \in Reasons, evidence \in EvidenceSets :
        request' = [request EXCEPT ![r] =
          [pc |-> "advance.commit", key |-> k,
           cmd |-> [lead |-> l, to |-> to, reason |-> reason,
                    version |-> lead[l].version, evidence |-> evidence]]]
  BY DEF AdvanceLookup
<1> DEFINE q == [pc |-> "advance.commit", key |-> k,
                 cmd |-> [lead |-> l, to |-> to, reason |-> reason,
                          version |-> lead[l].version, evidence |-> evidence]]
<1>2. q \in RequestStates
  BY DEF RequestStates, AdvanceRequests, Commands, IInv, TypeOK, LeadRows
<1>3. Usable(q) /\ TrueReply(q)
  BY DEF Usable, TrueReply
<1> HIDE DEF q
<1>4. QED
  BY <1>1, <1>2, <1>3, ReadStep DEF AdvanceLookup, q

LEMMA PrepareReadLeadStep ==
  ASSUME IInv, NEW r \in Requests, NEW k \in Keys, PrepareReadLead(r, k)
  PROVE  IInv'
<1>1. PICK l \in Leads :
        request' = [request EXCEPT ![r] =
          [pc |-> "prepare.open", key |-> k, lead |-> l, version |-> lead[l].version]]
  BY DEF PrepareReadLead
<1> DEFINE q == [pc |-> "prepare.open", key |-> k, lead |-> l, version |-> lead[l].version]
<1>2. q \in RequestStates
  BY DEF RequestStates, PrepareRequests, IInv, TypeOK, LeadRows
<1>3. Usable(q) /\ TrueReply(q)
  BY DEF Usable, TrueReply
<1> HIDE DEF q
<1>4. QED
  BY <1>1, <1>2, <1>3, ReadStep DEF PrepareReadLead, q

LEMMA PrepareReadReviewStep ==
  ASSUME IInv, NEW r \in Requests, PrepareReadReview(r)
  PROVE  IInv'
<1> DEFINE q == [request[r] EXCEPT !.pc = "prepare.commit"]
<1>1. request' = [request EXCEPT ![r] = q]
  BY DEF PrepareReadReview
<1>2. request[r] \in PrepareRequests
  BY RequestKinds DEF PrepareReadReview, IInv, TypeOK
<1>3. q \in PrepareRequests /\ q.pc = "prepare.commit"
  BY <1>2 DEF PrepareRequests
<1>4. q \in RequestStates /\ Usable(q) /\ TrueReply(q)
  BY <1>3 DEF Usable, TrueReply, RequestStates
<1> HIDE DEF q
<1>5. QED
  BY <1>1, <1>4, ReadStep DEF PrepareReadReview

LEMMA DecideReadReviewStep ==
  ASSUME IInv, NEW r \in Requests, NEW k \in Keys, DecideReadReview(r, k)
  PROVE  IInv'
<1>1. PICK v \in Reviews, decision \in {"APPROVE", "REJECT"} :
        \/ /\ review[v].status = "PENDING"
           /\ request' = [request EXCEPT ![r] =
                [pc |-> "decide.lead", key |-> k, review |-> v, lead |-> review[v].lead,
                 decision |-> decision]]
        \/ /\ review[v].status = "APPROVED"
           /\ request' = [request EXCEPT ![r] =
                [pc |-> "replied", review |-> v, reply |-> review[v].delivery]]
  BY DEF DecideReadReview
<1>2. CASE review[v].status = "PENDING"
  <2> DEFINE q == [pc |-> "decide.lead", key |-> k, review |-> v,
                   lead |-> review[v].lead, decision |-> decision]
  <2>1. review[v].lead \in Leads
    BY <1>2 DEF IInv, ReviewRowsAgree
  <2>2. q \in RequestStates
    BY <2>1 DEF RequestStates, DecideRequests
  <2>3. Usable(q) /\ TrueReply(q)
    BY <1>2 DEF Usable, TrueReply
  <2> HIDE DEF q
  <2>4. QED
    BY <1>1, <1>2, <2>2, <2>3, ReadStep DEF DecideReadReview, q
<1>3. CASE review[v].status = "APPROVED"
  <2> DEFINE q == [pc |-> "replied", review |-> v, reply |-> review[v].delivery]
  <2>1. review[v].delivery = "MOCK_ACCEPTED"
    BY <1>3 DEF IInv, ReviewRowsAgree
  <2>2. q \in RequestStates
    BY <2>1 DEF RequestStates, RepliedRequests, Replies
  <2>3. Usable(q) /\ TrueReply(q)
    BY DEF Usable, TrueReply
  <2> HIDE DEF q
  <2>4. QED
    BY <1>1, <1>3, <2>2, <2>3, ReadStep DEF DecideReadReview, q
<1>4. QED
  BY <1>1, <1>2, <1>3

LEMMA DecideReadLeadStep ==
  ASSUME IInv, NEW r \in Requests, DecideReadLead(r)
  PROVE  IInv'
<1>1. request[r] \in DecideRequests /\ Usable(request[r])
  BY RequestKinds DEF DecideReadLead, IInv, TypeOK, ReadsStayUsable
<1>2. PICK outcome \in Outcomes :
        request' = [request EXCEPT ![r] =
          [pc |-> "decide.reread", key |-> request[r].key, review |-> request[r].review,
           lead |-> request[r].lead, decision |-> request[r].decision,
           outcome |-> outcome, expected |-> lead[request[r].lead].version, next |-> 0]]
  BY DEF DecideReadLead, Outcomes
<1> DEFINE q == [pc |-> "decide.reread", key |-> request[r].key,
                 review |-> request[r].review, lead |-> request[r].lead,
                 decision |-> request[r].decision, outcome |-> outcome,
                 expected |-> lead[request[r].lead].version, next |-> 0]
<1>3. lead[request[r].lead].version \in Nat
  BY <1>1 DEF DecideRequests, IInv, TypeOK, LeadRows
<1>4. q \in RequestStates
  BY <1>1, <1>3 DEF RequestStates, DecideRequests, DecidingRequests
<1>5. Usable(q) /\ TrueReply(q)
  BY <1>1, <1>3 DEF Usable, TrueReply, DecideRequests
<1> HIDE DEF q
<1>6. QED
  BY <1>2, <1>4, <1>5, ReadStep DEF DecideReadLead, q

LEMMA DecideRereadStep ==
  ASSUME IInv, NEW r \in Requests, DecideReread(r)
  PROVE  IInv'
<1>1. request[r] \in DecidingRequests /\ request[r].pc = "decide.reread"
  BY RequestKinds DEF DecideReread, IInv, TypeOK
<1>2. Usable(request[r])
  BY DEF IInv, ReadsStayUsable
<1>3. PICK version \in Nat : version = lead[request[r].lead].version
  BY <1>1 DEF DecidingRequests, IInv, TypeOK, LeadRows
<1> DEFINE p == [request[r] EXCEPT !.pc = "decide.commit"]
           q == [p EXCEPT !.next = version + 1]
<1>4. p \in DecidingRequests
  BY <1>1 DEF DecidingRequests
<1>5. /\ q \in DecidingRequests
      /\ q.pc = "decide.commit" /\ q.next = version + 1
      /\ q.review = request[r].review /\ q.lead = request[r].lead
      /\ q.expected = request[r].expected
  <2> HIDE DEF p
  <2>1. q \in DecidingRequests
    BY <1>4 DEF DecidingRequests
  <2>2. q.pc = p.pc /\ q.next = version + 1
    BY <1>4 DEF DecidingRequests
  <2>3. q.review = p.review /\ q.lead = p.lead /\ q.expected = p.expected
    BY <1>4 DEF DecidingRequests
  <2> QED
    BY <1>1, <2>1, <2>2, <2>3 DEF DecidingRequests, p
<1>6. request' = [request EXCEPT ![r] = q]
  BY <1>3 DEF DecideReread, VersionAfter
<1> HIDE DEF q
<1>7. Usable(q) /\ TrueReply(q) /\ q \in RequestStates
  BY <1>1, <1>2, <1>3, <1>5 DEF Usable, TrueReply, DecidingRequests, RequestStates
<1>8. QED
  BY <1>6, <1>7, ReadStep DEF DecideReread

LEMMA DecideReplayStep ==
  ASSUME IInv, NEW r \in Requests, DecideReplay(r)
  PROVE  IInv'
<1> DEFINE q == [pc |-> "replied", review |-> request[r].review,
                 reply |-> ReplayReply(request[r])]
<1>1. request[r] \in DecidingRequests
  BY RequestKinds DEF DecideReplay, IInv, TypeOK
<1>2. review[request[r].review].status \in Outcomes
  BY DEF DecideReplay, IInv, KeysNameDecisions
<1>3. review[request[r].review].delivery \in {"MOCK_ACCEPTED", "NOT_SENT"}
  BY <1>1, <1>2 DEF DecidingRequests, IInv, TypeOK, ReviewRows, Deliveries,
                    ReviewRowsAgree, Outcomes
<1>4. q \in RequestStates
  BY <1>1, <1>3 DEF DecidingRequests, RequestStates, RepliedRequests, Replies,
                    ReplayReply, ReplyOf
<1>5. Usable(q) /\ TrueReply(q)
  BY DEF Usable, TrueReply, ReplayReply, ReplyOf
<1> HIDE DEF q
<1>6. QED
  BY <1>4, <1>5, ReadStep DEF DecideReplay, q

LEMMA FinishStep ==
  ASSUME IInv, NEW r \in Requests, Finish(r)
  PROVE  IInv'
<1>1. Idle \in RequestStates /\ Usable(Idle) /\ TrueReply(Idle)
  BY DEF RequestStates, Usable, TrueReply, Idle
<1>2. QED
  BY <1>1, ReadStep DEF Finish

-----------------------------------------------------------------------------
(* Steps that write tables *)

(***************************************************************************)
(* What requests remember survives a step that only raises versions, never *)
(* gives a review that exists to another lead, and ends requests or leaves *)
(* them alone.                                                             *)
(***************************************************************************)
LEMMA UsableStays ==
  ASSUME TypeOK, ReadsStayUsable,
         \A l \in Leads : lead'[l].version \in Nat /\ lead[l].version <= lead'[l].version,
         \A v \in Reviews :
           review[v].status # "ABSENT" =>
             review'[v].status # "ABSENT" /\ review'[v].lead = review[v].lead,
         \A s \in Requests :
           request'[s] = request[s] \/ request'[s].pc \in {"idle", "replied"}
  PROVE  ReadsStayUsable'
<1> SUFFICES ASSUME NEW s \in Requests, request'[s] = request[s]
             PROVE  Usable(request[s])'
  BY DEF ReadsStayUsable, Usable
<1>1. request[s].pc = "decide.lead" => request[s] \in DecideRequests
  BY RequestKinds DEF TypeOK
<1>2. request[s].pc \in {"decide.reread", "decide.commit"} => request[s] \in DecidingRequests
  BY RequestKinds DEF TypeOK
<1>3. Usable(request[s])
  BY DEF ReadsStayUsable
<1>4. QED
  BY <1>1, <1>2, <1>3 DEF Usable, TypeOK, LeadRows, DecideRequests, DecidingRequests

LEMMA ExpireStep ==
  ASSUME IInv, NEW v \in Reviews, Expire(v)
  PROVE  IInv'
<1>1. \A w \in Reviews :
        /\ review'[w].status = review[w].status
        /\ review'[w].lead = review[w].lead
        /\ review'[w].delivery = review[w].delivery
        /\ w # v => review'[w] = review[w]
  BY DEF Expire, IInv, TypeOK, ReviewRows
<1>2. TypeOK'
  BY DEF Expire, IInv, TypeOK, ReviewRows
<1>3. ReviewRowsAgree'
  BY <1>1 DEF Expire, IInv, ReviewRowsAgree, NoReview
<1>4. KeysNameDecisions'
  BY <1>1 DEF Expire, IInv, TypeOK, DecisionKeyRows, KeysNameDecisions
<1>5. SuspendedKnowsResume'
  BY DEF Expire, IInv, SuspendedKnowsResume
<1>6. OpenReviewMatchesStage'
  BY <1>1 DEF Expire, IInv, OpenReviewMatchesStage, PendingReviews, Stage
<1>7. ContactIsDelivery'
  BY <1>1 DEF Expire, IInv, ContactIsDelivery, Delivered, Stage
<1>8. ReadsStayUsable'
  BY <1>1, UsableStays DEF Expire, IInv, TypeOK, LeadRows
<1>9. ReplyTellsDelivery'
  BY <1>1, RequestKinds DEF Expire, IInv, TypeOK, ReplyTellsDelivery, TrueReply, RepliedRequests
<1>10. QED
  BY <1>2, <1>3, <1>4, <1>5, <1>6, <1>7, <1>8, <1>9 DEF IInv

LEMMA AdvanceCommitStep ==
  ASSUME IInv, NEW r \in Requests, AdvanceCommit(r)
  PROVE  IInv'
<1>1. request[r] \in AdvanceRequests
  BY RequestKinds DEF AdvanceCommit, IInv, TypeOK
<1>2. PICK m \in Leads, to \in WorkflowTargets, key \in Keys :
        m = request[r].cmd.lead /\ to = request[r].cmd.to /\ key = request[r].key
  BY <1>1, LeadAssumption DEF AdvanceRequests, Commands
<1>3. PICK old \in LeadRows : old = lead[m]
  BY DEF IInv, TypeOK
<1>4. old.status \in Statuses /\ old.version \in Nat /\ old.resume \in Statuses \cup {Nil}
  BY DEF LeadRows
<1>5. /\ Allows(old.status, to, old.resume, request[r].cmd.reason, request[r].cmd.evidence)
      /\ old.status \in Suspended => old.resume \in Active
  BY <1>2, <1>3 DEF AdvanceCommit, IInv, SuspendedKnowsResume
<1> DEFINE previous == PreviousAfter(old.status, to)
           resume == ResumeAfter(old.status, to, old.resume)
<1>6. /\ to \in Statuses
      /\ previous \in Statuses \cup {Nil}
      /\ resume \in Statuses \cup {Nil}
      /\ IF to \in Suspended THEN resume \in Active ELSE resume = Nil
  BY <1>4, <1>5, PolicyTypes
<1>7. /\ old.status # "CLOSED_LOST"
      /\ to # "CLOSED_LOST" =>
           \A stage \in {"NEW", "CONTACT_PENDING"} :
             (IF old.status \in Suspended THEN old.resume ELSE old.status) = stage
               <=> (IF to \in Suspended THEN resume ELSE to) = stage
  BY <1>4, <1>5, PolicyKeepsContactStage
<1>8. /\ lead' = [lead EXCEPT ![m] =
           [status |-> to, version |-> old.version + 1,
            previous |-> previous, resume |-> resume]]
      /\ transitions' = transitions \cup
           {[key |-> key, lead |-> m, from |-> old.status, to |-> to,
             version |-> old.version + 1]}
      /\ request' = [request EXCEPT ![r] = Idle]
      /\ UNCHANGED <<review, prepareKeys, decisionKeys>>
  BY <1>2, <1>3 DEF AdvanceCommit, VersionAfter
<1> HIDE DEF previous, resume
<1>9. PICK moved \in LeadRows :
        /\ moved.status = to /\ moved.version = old.version + 1 /\ moved.resume = resume
        /\ lead' = [lead EXCEPT ![m] = moved]
  <2> DEFINE row == [status |-> to, version |-> old.version + 1,
                     previous |-> previous, resume |-> resume]
  <2>1. row \in LeadRows
    BY <1>4, <1>6 DEF LeadRows
  <2>2. QED
    BY <1>8, <2>1
<1>10. \A l \in Leads : lead'[l] = IF l = m THEN moved ELSE lead[l]
  BY <1>9 DEF IInv, TypeOK
<1>11. TypeOK'
  <2>1. [key |-> key, lead |-> m, from |-> old.status, to |-> to,
         version |-> old.version + 1] \in TransitionRows
    BY <1>4, <1>6 DEF TransitionRows
  <2>2. QED
    BY <1>8, <1>9, <2>1 DEF IInv, TypeOK, RequestStates
<1>12. SuspendedKnowsResume'
  BY <1>6, <1>9, <1>10 DEF IInv, SuspendedKnowsResume
<1>13. \A l \in Leads :
         lead'[l].status # "CLOSED_LOST" =>
           /\ lead[l].status # "CLOSED_LOST"
           /\ \A stage \in {"NEW", "CONTACT_PENDING"} : Stage(l) = stage <=> Stage(l)' = stage
  BY <1>3, <1>7, <1>9, <1>10 DEF Stage
<1>14. OpenReviewMatchesStage'
  BY <1>8, <1>13 DEF IInv, OpenReviewMatchesStage, PendingReviews
<1>15. ContactIsDelivery'
  BY <1>8, <1>13 DEF IInv, ContactIsDelivery, Delivered
<1>16. UNCHANGED <<ReviewRowsAgree, KeysNameDecisions>>
  BY <1>8 DEF ReviewRowsAgree, KeysNameDecisions
<1>17. \A s \in Requests : request'[s] = request[s] \/ request'[s] = Idle
  BY <1>8 DEF IInv, TypeOK
<1>18. ReadsStayUsable'
  <2>1. \A l \in Leads : lead'[l].version \in Nat /\ lead[l].version <= lead'[l].version
    BY <1>3, <1>4, <1>9, <1>10 DEF IInv, TypeOK, LeadRows
  <2>2. QED
    BY <1>8, <1>17, <2>1, UsableStays DEF IInv, Idle
<1>19. ReplyTellsDelivery'
  BY <1>8, <1>17 DEF IInv, ReplyTellsDelivery, TrueReply, Idle
<1>20. QED
  BY <1>11, <1>12, <1>14, <1>15, <1>16, <1>18, <1>19 DEF IInv

LEMMA PrepareCommitStep ==
  ASSUME IInv, NEW r \in Requests, PrepareCommit(r)
  PROVE  IInv'
<1>1. request[r] \in PrepareRequests
  BY RequestKinds DEF PrepareCommit, IInv, TypeOK
<1>2. PICK m \in Leads, key \in Keys :
        m = request[r].lead /\ key = request[r].key
  BY <1>1 DEF PrepareRequests
<1>3. lead[m] \in LeadRows /\ lead[m].status = "NEW" /\ PendingReviews(m) = {}
  BY <1>2 DEF PrepareCommit, LeadIs, IInv, TypeOK
<1> DEFINE row == [lead |-> m, status |-> "PENDING", delivery |-> "DRAFT", late |-> FALSE]
<1>4. PICK v \in Reviews :
        /\ review[v] = NoReview
        /\ review' = [review EXCEPT ![v] = row]
        /\ prepareKeys' = prepareKeys \cup {[key |-> key, lead |-> m, review |-> v]}
  BY <1>2 DEF PrepareCommit
<1>5. \A w \in Reviews : review'[w] = IF w = v THEN row ELSE review[w]
  BY <1>4 DEF IInv, TypeOK
<1>6. /\ lead' = [lead EXCEPT ![m].status = "CONTACT_PENDING",
                              ![m].version = lead[m].version + 1]
      /\ request' = [request EXCEPT ![r] = Idle]
      /\ UNCHANGED <<transitions, decisionKeys>>
  BY <1>2 DEF PrepareCommit, LeadIs, VersionAfter
<1>7. /\ lead' \in [Leads -> LeadRows]
      /\ lead'[m].status = "CONTACT_PENDING"
      /\ lead'[m].version = lead[m].version + 1
      /\ lead'[m].resume = lead[m].resume
      /\ \A l \in Leads \ {m} : lead'[l] = lead[l]
  BY <1>3, <1>6 DEF IInv, TypeOK, LeadRows, Statuses
<1>8. TypeOK'
  <2>1. row \in ReviewRows
    BY DEF ReviewRows, ReviewStatuses, Deliveries
  <2>2. QED
    BY <1>4, <1>6, <1>7, <2>1 DEF IInv, TypeOK, PrepareKeyRows, RequestStates
<1>9. ReviewRowsAgree'
  BY <1>5 DEF IInv, ReviewRowsAgree
<1>10. KeysNameDecisions'
  BY <1>4, <1>5, <1>6 DEF IInv, TypeOK, DecisionKeyRows, KeysNameDecisions, NoReview, Outcomes
<1>11. SuspendedKnowsResume'
  BY <1>3, <1>7 DEF IInv, SuspendedKnowsResume, Suspended
<1>12. PendingReviews(m)' = {v}
  BY <1>3, <1>5 DEF PendingReviews
<1>13. \A l \in Leads \ {m} : PendingReviews(l)' = PendingReviews(l)
  BY <1>4, <1>5 DEF PendingReviews, NoReview
<1>14. OpenReviewMatchesStage'
  BY <1>7, <1>12, <1>13 DEF IInv, OpenReviewMatchesStage, Stage, Suspended
<1>15. Delivered' = Delivered
  BY <1>4, <1>5 DEF Delivered, NoReview
<1>16. ContactIsDelivery'
  BY <1>3, <1>7, <1>15 DEF IInv, ContactIsDelivery, Stage, Suspended
<1>17. \A s \in Requests : request'[s] = request[s] \/ request'[s] = Idle
  BY <1>6 DEF IInv, TypeOK
<1>18. ReadsStayUsable'
  <2>1. \A l \in Leads : lead'[l].version \in Nat /\ lead[l].version <= lead'[l].version
    BY <1>3, <1>7 DEF IInv, TypeOK, LeadRows
  <2>2. QED
    BY <1>4, <1>5, <1>17, <2>1, UsableStays DEF IInv, Idle, NoReview
<1>19. ReplyTellsDelivery'
  <2>1. ASSUME NEW s \in Requests, request'[s] = request[s], request[s].pc = "replied",
               request[s].reply # "REVIEW_EXPIRED"
        PROVE  review'[request[s].review].delivery = request[s].reply
    <3>1. request[s] \in RepliedRequests
      BY <2>1, RequestKinds DEF IInv, TypeOK
    <3>2. review[request[s].review].delivery = request[s].reply
      BY <2>1 DEF IInv, ReplyTellsDelivery, TrueReply
    <3>3. request[s].reply # "DRAFT"
      BY <3>1 DEF RepliedRequests, Replies
    <3>4. QED
      BY <1>4, <1>5, <3>1, <3>2, <3>3 DEF RepliedRequests, NoReview
  <2>2. QED
    BY <1>17, <2>1 DEF ReplyTellsDelivery, TrueReply, Idle
<1>20. QED
  BY <1>8, <1>9, <1>10, <1>11, <1>14, <1>16, <1>18, <1>19 DEF IInv

LEMMA DecideCommitStep ==
  ASSUME IInv, NEW r \in Requests, DecideCommit(r)
  PROVE  IInv'
<1>1. request[r] \in DecidingRequests /\ request[r].pc = "decide.commit"
  BY RequestKinds DEF DecideCommit, IInv, TypeOK
<1>2. PICK m \in Leads, key \in Keys, v \in Reviews, outcome \in Outcomes,
           decision \in {"APPROVE", "REJECT"}, next \in Nat :
        /\ m = request[r].lead /\ key = request[r].key /\ v = request[r].review
        /\ outcome = request[r].outcome /\ decision = request[r].decision
        /\ next = request[r].next
  BY <1>1 DEF DecidingRequests
<1>3. /\ lead[m] \in LeadRows /\ lead[m].status = "CONTACT_PENDING"
      /\ lead[m].version = request[r].expected
      /\ review[v] \in ReviewRows /\ review[v].status = "PENDING"
  BY <1>2 DEF DecideCommit, LeadIs, Undecided, IInv, TypeOK
<1>4. review[v].lead = m /\ next = lead[m].version + 1
  BY <1>1, <1>2, <1>3 DEF IInv, ReadsStayUsable, Usable, DecidingRequests, LeadRows
<1>5. PendingReviews(m) = {v}
  BY <1>3, <1>4 DEF IInv, OpenReviewMatchesStage, PendingReviews
<1> DEFINE reply == [pc |-> "replied", review |-> v,
                     reply |-> ReplyOf(outcome, DeliveryAfter(outcome))]
<1>6. /\ lead' = [lead EXCEPT ![m].status = StatusAfter(outcome), ![m].version = next]
      /\ review' = [review EXCEPT ![v].status = outcome,
                                  ![v].delivery = DeliveryAfter(outcome)]
      /\ decisionKeys' = decisionKeys \cup
           {[key |-> key, review |-> v, decision |-> decision]}
      /\ request' = [request EXCEPT ![r] = reply]
      /\ UNCHANGED <<transitions, prepareKeys>>
  BY <1>2 DEF DecideCommit
<1>7. /\ lead' \in [Leads -> LeadRows]
      /\ lead'[m].status = StatusAfter(outcome)
      /\ lead'[m].version = lead[m].version + 1
      /\ lead'[m].resume = lead[m].resume
      /\ \A l \in Leads \ {m} : lead'[l] = lead[l]
  BY <1>3, <1>4, <1>6 DEF IInv, TypeOK, LeadRows, Statuses, StatusAfter
<1>8. /\ review' \in [Reviews -> ReviewRows]
      /\ review'[v].status = outcome
      /\ review'[v].delivery = DeliveryAfter(outcome)
      /\ review'[v].lead = m
      /\ \A w \in Reviews \ {v} : review'[w] = review[w]
  BY <1>3, <1>4, <1>6 DEF IInv, TypeOK, ReviewRows, ReviewStatuses, Deliveries, Outcomes,
                          DeliveryAfter
<1>9. reply \in RepliedRequests
  BY DEF RepliedRequests, Replies, ReplyOf, DeliveryAfter, Outcomes
<1> HIDE DEF reply
<1>10. TypeOK'
  BY <1>6, <1>7, <1>8, <1>9 DEF IInv, TypeOK, DecisionKeyRows, RequestStates
<1>11. ReviewRowsAgree'
  BY <1>8 DEF IInv, ReviewRowsAgree, Outcomes, DeliveryAfter
<1>12. KeysNameDecisions'
  BY <1>6, <1>8 DEF IInv, TypeOK, DecisionKeyRows, KeysNameDecisions
<1>13. SuspendedKnowsResume'
  BY <1>3, <1>7 DEF IInv, SuspendedKnowsResume, Suspended, StatusAfter
<1>14. PendingReviews(m)' = {}
  BY <1>5, <1>8 DEF PendingReviews, Outcomes
<1>15. \A l \in Leads \ {m} : PendingReviews(l)' = PendingReviews(l)
  BY <1>4, <1>8 DEF PendingReviews
<1>16. OpenReviewMatchesStage'
  BY <1>7, <1>14, <1>15 DEF IInv, OpenReviewMatchesStage, Stage, Suspended, StatusAfter
<1>17. Delivered' = IF outcome = "APPROVED" THEN Delivered \cup {m} ELSE Delivered
  BY <1>3, <1>4, <1>8 DEF Delivered, DeliveryAfter, IInv, ReviewRowsAgree
<1>18. ContactIsDelivery'
  BY <1>3, <1>7, <1>17 DEF IInv, ContactIsDelivery, Stage, Suspended, StatusAfter
<1>19. \A s \in Requests :
         request'[s] = request[s] \/ (request'[s] = reply /\ reply.pc = "replied")
  BY <1>6 DEF IInv, TypeOK, reply
<1>20. ReadsStayUsable'
  <2>1. \A l \in Leads : lead'[l].version \in Nat /\ lead[l].version <= lead'[l].version
    BY <1>3, <1>7 DEF IInv, TypeOK, LeadRows
  <2>2. \A w \in Reviews :
          review[w].status # "ABSENT" =>
            review'[w].status # "ABSENT" /\ review'[w].lead = review[w].lead
    BY <1>4, <1>8 DEF Outcomes
  <2>3. QED
    BY <1>19, <2>1, <2>2, UsableStays DEF IInv
<1>21. ReplyTellsDelivery'
  <2>1. ASSUME NEW s \in Requests, request'[s] = request[s], request[s].pc = "replied",
               request[s].reply # "REVIEW_EXPIRED"
        PROVE  review'[request[s].review].delivery = request[s].reply
    <3>1. request[s] \in RepliedRequests
      BY <2>1, RequestKinds DEF IInv, TypeOK
    <3>2. review[request[s].review].delivery = request[s].reply
      BY <2>1 DEF IInv, ReplyTellsDelivery, TrueReply
    <3>3. request[s].review # v
      BY <1>3, <3>1, <3>2 DEF RepliedRequests, Replies, IInv, ReviewRowsAgree
    <3>4. QED
      BY <1>8, <3>1, <3>2, <3>3 DEF RepliedRequests
  <2>2. reply.reply # "REVIEW_EXPIRED" => review'[reply.review].delivery = reply.reply
    BY <1>8 DEF reply, ReplyOf
  <2>3. QED
    BY <1>19, <2>1, <2>2 DEF ReplyTellsDelivery, TrueReply
<1>22. QED
  BY <1>10, <1>11, <1>12, <1>13, <1>16, <1>18, <1>20, <1>21 DEF IInv

-----------------------------------------------------------------------------
(* The invariant and what follows from it *)

\* No interleaving of requests breaks the conjunction the other theorems rest on.
THEOREM Invariance == Spec => []IInv
<1>1. Init => IInv
  <2> SUFFICES ASSUME Init PROVE IInv
    OBVIOUS
  <2>1. TypeOK
    BY DEF Init, TypeOK, LeadRows, ReviewRows, NoReview, RequestStates, Statuses,
           ReviewStatuses, Deliveries
  <2>2. \A v \in Reviews : review[v] = NoReview
    BY DEF Init
  <2>3. \A l \in Leads : lead[l].status = "NEW" /\ lead[l].resume = Nil
    BY DEF Init
  <2>4. ReviewRowsAgree /\ KeysNameDecisions /\ SuspendedKnowsResume
    BY <2>2, <2>3 DEF Init, ReviewRowsAgree, NoReview, KeysNameDecisions,
                      SuspendedKnowsResume, Suspended
  <2>5. OpenReviewMatchesStage /\ ContactIsDelivery
    BY <2>2, <2>3 DEF OpenReviewMatchesStage, PendingReviews, ContactIsDelivery, Delivered,
                      Stage, NoReview, Suspended
  <2>6. ReadsStayUsable /\ ReplyTellsDelivery
    BY DEF Init, ReadsStayUsable, ReplyTellsDelivery, Usable, TrueReply, Idle
  <2>7. QED
    BY <2>1, <2>4, <2>5, <2>6 DEF IInv
<1>2. IInv /\ [Next]_vars => IInv'
  <2> SUFFICES ASSUME IInv, [Next]_vars PROVE IInv'
    OBVIOUS
  <2>1. ASSUME NEW r \in Requests, NEW k \in Keys,
               AdvanceLookup(r, k) \/ PrepareReadLead(r, k) \/ DecideReadReview(r, k)
        PROVE  IInv'
    BY <2>1, AdvanceLookupStep, PrepareReadLeadStep, DecideReadReviewStep
  <2>2. ASSUME NEW r \in Requests, AdvanceCommit(r) PROVE IInv'
    BY <2>2, AdvanceCommitStep
  <2>3. ASSUME NEW r \in Requests, PrepareReadReview(r) \/ PrepareCommit(r) PROVE IInv'
    BY <2>3, PrepareReadReviewStep, PrepareCommitStep
  <2>4. ASSUME NEW r \in Requests, DecideReadLead(r) \/ DecideReread(r) PROVE IInv'
    BY <2>4, DecideReadLeadStep, DecideRereadStep
  <2>5. ASSUME NEW r \in Requests, DecideCommit(r) \/ DecideReplay(r) PROVE IInv'
    BY <2>5, DecideCommitStep, DecideReplayStep
  <2>6. ASSUME NEW r \in Requests, Finish(r) PROVE IInv'
    BY <2>6, FinishStep
  <2>7. ASSUME NEW v \in Reviews, Expire(v) PROVE IInv'
    BY <2>7, ExpireStep
  <2>8. CASE UNCHANGED vars
    <3> SUFFICES ASSUME UNCHANGED <<lead, review, transitions, prepareKeys, decisionKeys,
                                    request>>
                 PROVE  IInv'
      BY <2>8 DEF vars
    <3>1. QED
      BY DEF IInv, TypeOK, ReviewRowsAgree, KeysNameDecisions, SuspendedKnowsResume,
             OpenReviewMatchesStage, PendingReviews, ContactIsDelivery, Delivered, Stage,
             ReadsStayUsable, Usable, ReplyTellsDelivery, TrueReply
  <2>9. QED
    BY <2>1, <2>2, <2>3, <2>4, <2>5, <2>6, <2>7, <2>8 DEF Next
<1>3. QED
  BY <1>1, <1>2, PTL DEF Spec

\* Every row and every request in flight has its type.
THEOREM TypeCorrect == Spec => []TypeOK
<1>1. IInv => TypeOK
  BY DEF IInv
<1>2. QED
  BY <1>1, Invariance, PTL

\* The lead's row and its open review agree, whatever requests raced.
THEOREM ReviewsMatchStages == Spec => []OpenReviewMatchesStage
<1>1. IInv => OpenReviewMatchesStage
  BY DEF IInv
<1>2. QED
  BY <1>1, Invariance, PTL

\* A suspended lead knows the stage it came from; the others remember none.
THEOREM SuspensionsResumable == Spec => []SuspendedKnowsResume
<1>1. IInv => SuspendedKnowsResume
  BY DEF IInv
<1>2. QED
  BY <1>1, Invariance, PTL

\* A delivery status that was answered is the review's, then and later.
THEOREM RepliesAreTrue == Spec => []ReplyTellsDelivery
<1>1. IInv => ReplyTellsDelivery
  BY DEF IInv
<1>2. QED
  BY <1>1, Invariance, PTL

-----------------------------------------------------------------------------
(* What one step may do *)

\* The three writers are the only steps that touch a lead's row or decide a review.
LEMMA OnlyCommitsWrite ==
  ASSUME IInv, [Next]_vars
  PROVE  \/ /\ UNCHANGED <<lead, transitions, decisionKeys, Delivered>>
            /\ \A v \in Reviews : review[v].status # "PENDING" => review'[v] = review[v]
         \/ \E r \in Requests : AdvanceCommit(r) \/ PrepareCommit(r) \/ DecideCommit(r)
<1>1. ASSUME NEW v \in Reviews, Expire(v)
      PROVE  /\ UNCHANGED <<lead, transitions, decisionKeys, Delivered>>
             /\ \A w \in Reviews : review[w].status # "PENDING" => review'[w] = review[w]
  BY <1>1 DEF Expire, IInv, TypeOK, ReviewRows, Delivered
<1>2. QED
  BY <1>1 DEF Next, vars, AdvanceLookup, PrepareReadLead, DecideReadReview,
              PrepareReadReview, DecideReadLead, DecideReread, DecideReplay, Finish,
              Delivered

\* A workflow command's write.
LEMMA AdvanceWrites ==
  ASSUME IInv, NEW r \in Requests, AdvanceCommit(r)
  PROVE  \E m \in Leads, to \in WorkflowTargets :
           /\ lead'[m].status = to
           /\ lead'[m].version = lead[m].version + 1
           /\ \A l \in Leads \ {m} : lead'[l] = lead[l]
           /\ transitions' = transitions \cup
                {[key |-> request[r].key, lead |-> m, from |-> lead[m].status, to |-> to,
                  version |-> lead[m].version + 1]}
<1>1. request[r] \in AdvanceRequests
  BY RequestKinds DEF AdvanceCommit, IInv, TypeOK
<1>2. PICK m \in Leads, to \in WorkflowTargets :
        m = request[r].cmd.lead /\ to = request[r].cmd.to
  BY <1>1, LeadAssumption DEF AdvanceRequests, Commands
<1>3. /\ lead'[m].status = to
      /\ lead'[m].version = lead[m].version + 1
      /\ \A l \in Leads \ {m} : lead'[l] = lead[l]
  BY <1>2 DEF AdvanceCommit, VersionAfter, IInv, TypeOK
<1>4. QED
  BY <1>2, <1>3 DEF AdvanceCommit, VersionAfter

\* A preparation's write.
LEMMA PrepareWrites ==
  ASSUME IInv, NEW r \in Requests, PrepareCommit(r)
  PROVE  /\ \E m \in Leads :
              /\ lead[m].status = "NEW" /\ lead'[m].status = "CONTACT_PENDING"
              /\ lead'[m].resume = lead[m].resume
              /\ lead'[m].version = lead[m].version + 1
              /\ \A l \in Leads \ {m} : lead'[l] = lead[l]
         /\ \A v \in Reviews : review[v].status # "ABSENT" => review'[v] = review[v]
         /\ Delivered' = Delivered
<1>1. request[r] \in PrepareRequests
  BY RequestKinds DEF PrepareCommit, IInv, TypeOK
<1>2. PICK m \in Leads : m = request[r].lead
  BY <1>1 DEF PrepareRequests
<1>3. lead[m] \in LeadRows /\ lead[m].status = "NEW"
  BY <1>2 DEF PrepareCommit, LeadIs, IInv, TypeOK
<1>4. lead' = [lead EXCEPT ![m].status = "CONTACT_PENDING",
                           ![m].version = lead[m].version + 1]
  BY <1>2 DEF PrepareCommit, LeadIs, VersionAfter
<1>5. /\ lead'[m].status = "CONTACT_PENDING"
      /\ lead'[m].resume = lead[m].resume
      /\ lead'[m].version = lead[m].version + 1
      /\ \A l \in Leads \ {m} : lead'[l] = lead[l]
  BY <1>3, <1>4 DEF IInv, TypeOK, LeadRows
<1>6. PICK v \in Reviews :
        /\ review[v] = NoReview
        /\ \A w \in Reviews \ {v} : review'[w] = review[w]
        /\ review'[v].delivery = "DRAFT"
  BY DEF PrepareCommit, IInv, TypeOK
<1>7. Delivered' = Delivered
  BY <1>6 DEF Delivered, NoReview
<1>8. QED
  BY <1>3, <1>5, <1>6, <1>7 DEF NoReview

\* A decision's write.
LEMMA DecideWrites ==
  ASSUME IInv, NEW r \in Requests, DecideCommit(r)
  PROVE  \E m \in Leads, v \in Reviews, outcome \in Outcomes :
           /\ lead[m].status = "CONTACT_PENDING" /\ lead'[m].status = StatusAfter(outcome)
           /\ lead'[m].resume = lead[m].resume
           /\ lead'[m].version = lead[m].version + 1
           /\ \A l \in Leads \ {m} : lead'[l] = lead[l]
           /\ v = request[r].review
           /\ review[v].status = "PENDING" /\ review[v].lead = m
           /\ review'[v].status = outcome
           /\ review'[v].delivery = DeliveryAfter(outcome) /\ review'[v].lead = m
           /\ \A w \in Reviews \ {v} : review'[w] = review[w]
<1>1. request[r] \in DecidingRequests /\ request[r].pc = "decide.commit"
  BY RequestKinds DEF DecideCommit, IInv, TypeOK
<1>2. PICK m \in Leads, v \in Reviews, outcome \in Outcomes :
        m = request[r].lead /\ v = request[r].review /\ outcome = request[r].outcome
  BY <1>1 DEF DecidingRequests
<1>3. /\ lead[m] \in LeadRows /\ lead[m].status = "CONTACT_PENDING"
      /\ lead[m].version = request[r].expected
      /\ review[v] \in ReviewRows /\ review[v].status = "PENDING"
  BY <1>2 DEF DecideCommit, LeadIs, Undecided, IInv, TypeOK
<1>4. review[v].lead = m /\ request[r].next = lead[m].version + 1
  BY <1>1, <1>2, <1>3 DEF IInv, ReadsStayUsable, Usable, DecidingRequests, LeadRows
<1>5. /\ lead' = [lead EXCEPT ![m].status = StatusAfter(outcome),
                              ![m].version = lead[m].version + 1]
      /\ review' = [review EXCEPT ![v].status = outcome,
                                  ![v].delivery = DeliveryAfter(outcome)]
  BY <1>2, <1>4 DEF DecideCommit
<1>6. /\ lead'[m].status = StatusAfter(outcome)
      /\ lead'[m].resume = lead[m].resume
      /\ lead'[m].version = lead[m].version + 1
      /\ \A l \in Leads \ {m} : lead'[l] = lead[l]
  BY <1>3, <1>5 DEF IInv, TypeOK, LeadRows
<1>7. /\ review'[v].status = outcome
      /\ review'[v].delivery = DeliveryAfter(outcome)
      /\ review'[v].lead = review[v].lead
      /\ \A w \in Reviews \ {v} : review'[w] = review[w]
  BY <1>3, <1>5 DEF IInv, TypeOK, ReviewRows
<1>8. QED
  BY <1>2, <1>3, <1>4, <1>6, <1>7

\* The version of a lead's row is raised by exactly one by whatever changes the row.
THEOREM VersionsStep == Spec => VersionStepsByOne
<1>1. IInv /\ [Next]_vars =>
        [\A l \in Leads : lead'[l] # lead[l] => lead'[l].version = lead[l].version + 1]_vars
  BY OnlyCommitsWrite, AdvanceWrites, PrepareWrites, DecideWrites
<1>2. QED
  BY <1>1, Invariance, PTL DEF Spec, VersionStepsByOne

\* Once decided, a review and the delivery of its message never change.
THEOREM DecisionsAreFinal == Spec => DecidedReviewIsFinal
<1>1. IInv /\ [Next]_vars =>
        [\A v \in Reviews : review[v].status \in Outcomes => review'[v] = review[v]]_vars
  <2> SUFFICES ASSUME IInv, [Next]_vars, NEW v \in Reviews, review[v].status \in Outcomes
               PROVE  review'[v] = review[v]
    OBVIOUS
  <2>1. review[v].status \notin {"PENDING", "ABSENT"}
    BY DEF Outcomes
  <2>2. ASSUME NEW r \in Requests, AdvanceCommit(r) PROVE review'[v] = review[v]
    BY <2>2 DEF AdvanceCommit
  <2>3. QED
    BY <2>1, <2>2, OnlyCommitsWrite, PrepareWrites, DecideWrites
<1>2. QED
  BY <1>1, Invariance, PTL DEF Spec, DecidedReviewIsFinal

-----------------------------------------------------------------------------
(* Keys and history *)

\* An idempotency key takes effect once, in each of the two operations.
THEOREM KeysTakeEffectOnce == Spec => []KeyTakesEffectOnce
<1>1. Init => KeyTakesEffectOnce
  BY DEF Init, KeyTakesEffectOnce
<1>2. IInv /\ KeyTakesEffectOnce /\ [Next]_vars => KeyTakesEffectOnce'
  <2> SUFFICES ASSUME IInv, KeyTakesEffectOnce, [Next]_vars PROVE KeyTakesEffectOnce'
    OBVIOUS
  <2>1. ASSUME NEW r \in Requests, AdvanceCommit(r) PROVE KeyTakesEffectOnce'
    BY <2>1 DEF AdvanceCommit, KeyTakesEffectOnce, FreshKey
  <2>2. ASSUME NEW r \in Requests, PrepareCommit(r) PROVE KeyTakesEffectOnce'
    BY <2>2 DEF PrepareCommit, KeyTakesEffectOnce
  <2>3. ASSUME NEW r \in Requests, DecideCommit(r) PROVE KeyTakesEffectOnce'
    <3>1. \A d \in decisionKeys : d.review # request[r].review
      BY <2>3 DEF DecideCommit, Undecided, IInv, KeysNameDecisions, Outcomes
    <3>2. QED
      BY <2>3, <3>1 DEF DecideCommit, KeyTakesEffectOnce, FreshKey
  <2>4. CASE UNCHANGED <<transitions, decisionKeys>>
    BY <2>4 DEF KeyTakesEffectOnce
  <2>5. QED
    BY <2>1, <2>2, <2>3, <2>4, OnlyCommitsWrite
<1>3. QED
  BY <1>1, <1>2, Invariance, PTL DEF Spec

\* The transitions table is the history of the lead's row, whatever else writes the row.
THEOREM LogsAreHistory == Spec => []LogIsHistory
<1>1. Init => LogIsHistory
  BY DEF Init, LogIsHistory
<1>2. IInv /\ LogIsHistory /\ [Next]_vars => LogIsHistory'
  <2> SUFFICES ASSUME IInv, LogIsHistory, [Next]_vars PROVE LogIsHistory'
    OBVIOUS
  <2>1. /\ \A l \in Leads : lead[l].version \in Nat
        /\ \A t \in transitions : t.lead \in Leads /\ t.version \in Nat
    BY DEF IInv, TypeOK, LeadRows, TransitionRows
  <2>2. ASSUME NEW m \in Leads, lead'[m].version = lead[m].version + 1,
               \A l \in Leads \ {m} : lead'[l] = lead[l], transitions' = transitions
        PROVE  LogIsHistory'
    BY <2>1, <2>2 DEF LogIsHistory
  <2>3. ASSUME NEW r \in Requests, AdvanceCommit(r) PROVE LogIsHistory'
    <3>1. PICK m \in Leads, to \in WorkflowTargets :
            /\ lead'[m].status = to
            /\ lead'[m].version = lead[m].version + 1
            /\ \A l \in Leads \ {m} : lead'[l] = lead[l]
            /\ transitions' = transitions \cup
                 {[key |-> request[r].key, lead |-> m, from |-> lead[m].status, to |-> to,
                   version |-> lead[m].version + 1]}
      BY <2>3, AdvanceWrites
    <3> DEFINE row == [key |-> request[r].key, lead |-> m, from |-> lead[m].status,
                       to |-> to, version |-> lead[m].version + 1]
    <3>2. /\ row.lead = m /\ row.from = lead[m].status /\ row.to = to
          /\ row.version = lead[m].version + 1
      OBVIOUS
    <3> HIDE DEF row
    <3>3. \A t \in transitions :
            t.lead = m => /\ t.version < row.version
                          /\ t.version + 1 = row.version => t.to = row.from
      BY <2>1, <3>2 DEF LogIsHistory
    <3>4. transitions' = transitions \cup {row}
      BY <3>1 DEF row
    <3>5. \A t \in transitions' :
            /\ t.version <= lead'[t.lead].version
            /\ t.version = lead'[t.lead].version => t.to = lead'[t.lead].status
      BY <2>1, <3>1, <3>2, <3>3, <3>4 DEF LogIsHistory
    <3>6. ASSUME NEW t \in transitions', NEW u \in transitions', u.lead = t.lead
          PROVE  /\ u.version = t.version => u = t
                 /\ u.version = t.version + 1 => u.from = t.to
      BY <2>1, <3>2, <3>3, <3>4, <3>6 DEF LogIsHistory
    <3>7. QED
      BY <3>5, <3>6 DEF LogIsHistory
  <2>4. ASSUME NEW r \in Requests, PrepareCommit(r) PROVE LogIsHistory'
    BY <2>2, <2>4, PrepareWrites DEF PrepareCommit
  <2>5. ASSUME NEW r \in Requests, DecideCommit(r) PROVE LogIsHistory'
    BY <2>2, <2>5, DecideWrites DEF DecideCommit
  <2>6. CASE UNCHANGED <<lead, transitions>>
    BY <2>6 DEF LogIsHistory
  <2>7. QED
    BY <2>3, <2>4, <2>5, <2>6, OnlyCommitsWrite
<1>3. QED
  BY <1>1, <1>2, Invariance, PTL DEF Spec

-----------------------------------------------------------------------------
(* The contract *)

\* LeadContract has its own copy of the catalogue; it is the same one.
LEMMA SamePolicy ==
  ASSUME NEW from, NEW to, NEW resume, NEW reason, NEW evidence
  PROVE  /\ Contract!Allows(from, to, resume, reason, evidence)
              <=> Allows(from, to, resume, reason, evidence)
         /\ Contract!ResumeAfter(from, to, resume) = ResumeAfter(from, to, resume)
         /\ Contract!WorkflowTargets = WorkflowTargets /\ Contract!Flags = Flags
         /\ Contract!ClosedLostReasons = ClosedLostReasons /\ Contract!Nil = Nil
BY DEF Contract!Allows, Allows, Contract!ResumeAfter, ResumeAfter,
       Contract!WorkflowTargets, WorkflowTargets, Contract!Flags, Flags,
       Contract!ClosedLostReasons, ClosedLostReasons, Contract!Nil, Nil,
       Contract!Closes, Closes, Contract!Advances, Advances, Contract!Pauses, Pauses,
       Contract!Holds, Holds, Contract!Resumes, Resumes, Contract!HoldResume, HoldResume,
       Contract!OpenSteps, OpenSteps, Contract!GatedSteps, GatedSteps,
       Contract!FlagOf, FlagOf, Contract!Statuses, Statuses, Contract!Suspended, Suspended,
       Contract!Active, Active, Contract!DecidedByTarget, DecidedByTarget

\* A caller that vouches for everything may do what any caller may.
LEMMA MoreEvidence ==
  ASSUME NEW from, NEW to, NEW resume, NEW reason, NEW evidence \in SUBSET Flags,
         Allows(from, to, resume, reason, evidence)
  PROVE  Allows(from, to, resume, reason, Flags)
BY DEF Allows, Advances

(***************************************************************************)
(* Seen through the status and resume columns and the messages delivered,  *)
(* the racing requests do what LeadContract allows: every commit is one of *)
(* its steps, and every other step changes nothing that it speaks of.      *)
(***************************************************************************)
THEOREM Refinement == Spec => ImplementsContract
<1> DEFINE status == [l \in Leads |-> lead[l].status]
           resume == [l \in Leads |-> lead[l].resume]
<1>1. Init => Contract!Init
  BY DEF Init, Contract!Init, Contract!Nil, Nil, Delivered, NoReview
<1>2. IInv /\ [Next]_vars => [Contract!Next]_(Contract!vars)
  <2> SUFFICES ASSUME IInv, [Next]_vars PROVE [Contract!Next]_(Contract!vars)
    OBVIOUS
  <2>1. ASSUME NEW r \in Requests, AdvanceCommit(r) PROVE Contract!Next
    <3>1. request[r] \in AdvanceRequests
      BY <2>1, RequestKinds DEF AdvanceCommit, IInv, TypeOK
    <3>2. PICK m \in Leads, to \in WorkflowTargets, reason \in ClosedLostReasons \cup {Nil},
               evidence \in SUBSET Flags :
            /\ m = request[r].cmd.lead /\ to = request[r].cmd.to
            /\ reason = request[r].cmd.reason /\ evidence = request[r].cmd.evidence
      BY <3>1, LeadAssumption DEF AdvanceRequests, Commands
    <3>3. Contract!Allows(lead[m].status, to, lead[m].resume, reason, Contract!Flags)
      BY <2>1, <3>2, MoreEvidence, SamePolicy DEF AdvanceCommit
    <3>4. /\ lead'[m].status = to
          /\ lead'[m].resume = Contract!ResumeAfter(lead[m].status, to, lead[m].resume)
          /\ \A l \in Leads \ {m} : lead'[l] = lead[l]
      BY <2>1, <3>2, SamePolicy DEF AdvanceCommit, IInv, TypeOK
    <3>5. /\ status' = [status EXCEPT ![m] = to]
          /\ resume' = [resume EXCEPT
               ![m] = Contract!ResumeAfter(status[m], to, resume[m])]
      BY <3>4
    <3>6. Delivered' = Delivered
      BY <2>1 DEF AdvanceCommit, Delivered
    <3>7. Contract!Move(m)
      BY <3>2, <3>3, <3>5, <3>6, SamePolicy DEF Contract!Move
    <3>8. QED
      BY <3>7 DEF Contract!Next
  <2>2. ASSUME NEW r \in Requests, PrepareCommit(r) PROVE Contract!Next
    <3>1. PICK m \in Leads :
            /\ lead[m].status = "NEW" /\ lead'[m].status = "CONTACT_PENDING"
            /\ lead'[m].resume = lead[m].resume
            /\ \A l \in Leads \ {m} : lead'[l] = lead[l]
            /\ Delivered' = Delivered
      BY <2>2, PrepareWrites
    <3>2. status' = [status EXCEPT ![m] = "CONTACT_PENDING"] /\ resume' = resume
      BY <3>1
    <3>3. Contract!Open(m)
      BY <3>1, <3>2 DEF Contract!Open
    <3>4. QED
      BY <3>3 DEF Contract!Next
  <2>3. ASSUME NEW r \in Requests, DecideCommit(r) PROVE Contract!Next
    <3>1. PICK m \in Leads, v \in Reviews, outcome \in Outcomes :
            /\ lead[m].status = "CONTACT_PENDING" /\ lead'[m].status = StatusAfter(outcome)
            /\ lead'[m].resume = lead[m].resume
            /\ \A l \in Leads \ {m} : lead'[l] = lead[l]
            /\ review[v].status = "PENDING" /\ review[v].lead = m
            /\ review'[v].delivery = DeliveryAfter(outcome) /\ review'[v].lead = m
            /\ \A w \in Reviews \ {v} : review'[w] = review[w]
      BY <2>3, DecideWrites
    <3>2. status' = [status EXCEPT ![m] = StatusAfter(outcome)] /\ resume' = resume
      BY <3>1
    <3>3. m \notin Delivered
      BY <3>1 DEF IInv, ContactIsDelivery, Stage, Suspended
    <3>4. CASE outcome = "APPROVED"
      <4>1. Delivered' = Delivered \cup {m}
        BY <3>1, <3>4 DEF Delivered, DeliveryAfter, IInv, ReviewRowsAgree
      <4>2. Contract!Deliver(m)
        BY <3>1, <3>2, <3>3, <3>4, <4>1 DEF Contract!Deliver, StatusAfter
      <4>3. QED
        BY <4>2 DEF Contract!Next
    <3>5. CASE outcome # "APPROVED"
      <4>1. Delivered' = Delivered
        BY <3>1, <3>5 DEF Delivered, DeliveryAfter, IInv, ReviewRowsAgree
      <4>2. Contract!Release(m)
        BY <3>1, <3>2, <3>5, <4>1 DEF Contract!Release, StatusAfter
      <4>3. QED
        BY <4>2 DEF Contract!Next
    <3>6. QED
      BY <3>4, <3>5
  <2>4. CASE UNCHANGED <<lead, Delivered>>
    BY <2>4 DEF Contract!vars
  <2>5. QED
    BY <2>1, <2>2, <2>3, <2>4, OnlyCommitsWrite
<1>3. QED
  BY <1>1, <1>2, Invariance, PTL DEF Spec, ImplementsContract, Contract!Spec

-----------------------------------------------------------------------------
(* The in-memory stores *)

(***************************************************************************)
(* What the checks of a request's reads found and no other request can     *)
(* undo before the commit: the lead's source, the decision that is being   *)
(* carried out, and that a review is late.                                 *)
(***************************************************************************)
Checked(q, reviews) ==
  /\ q.pc = "prepare.commit" => q.lead \in Synthetic
  /\ q.pc \in {"decide.reread", "decide.commit"} =>
       /\ q.outcome = "EXPIRED" => reviews[q.review].late
       /\ q.outcome = "APPROVED" => q.decision = "APPROVE" /\ q.lead \in Synthetic
       /\ q.outcome = "REJECTED" => q.decision = "REJECT"

ChecksStayTrue == \A r \in Requests : Checked(request[r], review)

\* Checks outlive a step that takes no late mark off a review that exists.
LEMMA CheckedStays ==
  ASSUME IInv, ChecksStayTrue,
         \A v \in Reviews : review[v].status # "ABSENT" /\ review[v].late => review'[v].late,
         \A s \in Requests :
           \/ request'[s] = request[s]
           \/ request'[s].pc \notin {"prepare.commit", "decide.reread", "decide.commit"}
           \/ Checked(request'[s], review')
  PROVE  ChecksStayTrue'
<1> SUFFICES ASSUME NEW s \in Requests, request'[s] = request[s]
             PROVE  Checked(request[s], review')
  BY DEF ChecksStayTrue, Checked
<1>1. Checked(request[s], review)
  BY DEF ChecksStayTrue
<1>2. CASE request[s].pc \in {"decide.reread", "decide.commit"}
  <2>1. request[s] \in DecidingRequests
    BY <1>2, RequestKinds DEF IInv, TypeOK
  <2>2. request[s].review \in Reviews /\ review[request[s].review].status # "ABSENT"
    BY <1>2, <2>1 DEF IInv, ReadsStayUsable, Usable, DecidingRequests
  <2>3. QED
    BY <1>1, <2>2 DEF Checked
<1>3. CASE request[s].pc \notin {"decide.reread", "decide.commit"}
  BY <1>1, <1>3 DEF Checked
<1>4. QED
  BY <1>2, <1>3

\* A request keeps what its checks found.
LEMMA ChecksInvariance == Spec => []ChecksStayTrue
<1>1. Init => ChecksStayTrue
  BY DEF Init, ChecksStayTrue, Checked, Idle
<1>2. IInv /\ ChecksStayTrue /\ [Next]_vars => ChecksStayTrue'
  <2> SUFFICES ASSUME IInv, ChecksStayTrue, [Next]_vars PROVE ChecksStayTrue'
    OBVIOUS
  <2>1. ASSUME NEW r \in Requests, NEW q,
               request' = [request EXCEPT ![r] = q], review' = review,
               q.pc \notin {"prepare.commit", "decide.reread", "decide.commit"}
        PROVE  ChecksStayTrue'
    BY <2>1, CheckedStays DEF IInv, TypeOK
  <2>2. ASSUME NEW r \in Requests, NEW k \in Keys,
               AdvanceLookup(r, k) \/ PrepareReadLead(r, k) \/ DecideReadReview(r, k)
        PROVE  ChecksStayTrue'
    <3>1. CASE AdvanceLookup(r, k)
      BY <2>1, <3>1 DEF AdvanceLookup
    <3>2. CASE PrepareReadLead(r, k)
      BY <2>1, <3>2 DEF PrepareReadLead
    <3>3. CASE DecideReadReview(r, k)
      BY <2>1, <3>3 DEF DecideReadReview
    <3>4. QED
      BY <2>2, <3>1, <3>2, <3>3
  <2>3. ASSUME NEW r \in Requests, AdvanceCommit(r) \/ DecideReplay(r) \/ Finish(r)
        PROVE  ChecksStayTrue'
    BY <2>1, <2>3 DEF AdvanceCommit, DecideReplay, Finish, Idle
  <2>4. ASSUME NEW r \in Requests, PrepareReadReview(r) PROVE ChecksStayTrue'
    <3> DEFINE q == [request[r] EXCEPT !.pc = "prepare.commit"]
    <3>1. request[r] \in PrepareRequests
      BY <2>4, RequestKinds DEF PrepareReadReview, IInv, TypeOK
    <3>2. q.pc = "prepare.commit" /\ q.lead \in Synthetic
      BY <2>4, <3>1 DEF PrepareReadReview, PrepareRequests
    <3>3. request' = [request EXCEPT ![r] = q] /\ review' = review
      BY <2>4 DEF PrepareReadReview
    <3> HIDE DEF q
    <3>4. \A s \in Requests : request'[s] = request[s] \/ Checked(request'[s], review')
      BY <3>2, <3>3 DEF Checked, IInv, TypeOK
    <3>5. QED
      BY <3>3, <3>4, CheckedStays
  <2>5. ASSUME NEW r \in Requests, PrepareCommit(r) PROVE ChecksStayTrue'
    <3>1. PICK v \in Reviews :
            /\ review[v] = NoReview
            /\ \A w \in Reviews \ {v} : review'[w] = review[w]
      BY <2>5 DEF PrepareCommit, IInv, TypeOK
    <3>2. \A s \in Requests : request'[s] = request[s] \/ request'[s] = Idle
      BY <2>5 DEF PrepareCommit, IInv, TypeOK
    <3>3. QED
      BY <3>1, <3>2, CheckedStays DEF NoReview, Idle
  <2>6. ASSUME NEW r \in Requests, DecideReadLead(r) PROVE ChecksStayTrue'
    <3>1. PICK outcome \in Outcomes :
            /\ request' = [request EXCEPT ![r] =
                 [pc |-> "decide.reread", key |-> request[r].key,
                  review |-> request[r].review, lead |-> request[r].lead,
                  decision |-> request[r].decision, outcome |-> outcome,
                  expected |-> lead[request[r].lead].version, next |-> 0]]
            /\ outcome = "EXPIRED" => review[request[r].review].late
            /\ outcome = "APPROVED" =>
                 request[r].decision = "APPROVE" /\ request[r].lead \in Synthetic
            /\ outcome = "REJECTED" => request[r].decision = "REJECT"
      BY <2>6 DEF DecideReadLead, Outcomes
    <3> DEFINE q == [pc |-> "decide.reread", key |-> request[r].key,
                     review |-> request[r].review, lead |-> request[r].lead,
                     decision |-> request[r].decision, outcome |-> outcome,
                     expected |-> lead[request[r].lead].version, next |-> 0]
    <3>2. /\ q.pc = "decide.reread" /\ q.outcome = outcome /\ q.review = request[r].review
          /\ q.decision = request[r].decision /\ q.lead = request[r].lead
      OBVIOUS
    <3>3. request' = [request EXCEPT ![r] = q] /\ review' = review
      BY <2>6, <3>1 DEF DecideReadLead
    <3> HIDE DEF q
    <3>4. \A s \in Requests : request'[s] = request[s] \/ Checked(request'[s], review')
      BY <3>1, <3>2, <3>3 DEF Checked, IInv, TypeOK
    <3>5. QED
      BY <3>3, <3>4, CheckedStays
  <2>7. ASSUME NEW r \in Requests, DecideReread(r) PROVE ChecksStayTrue'
    <3>1. request[r] \in DecidingRequests /\ Checked(request[r], review)
      BY <2>7, RequestKinds DEF DecideReread, IInv, TypeOK, ChecksStayTrue
    <3> DEFINE p == [request[r] EXCEPT !.pc = "decide.commit"]
               q == [p EXCEPT !.next = VersionAfter(lead[request[r].lead].version)]
    <3>2. /\ request' = [request EXCEPT ![r] = q]
          /\ q.outcome = request[r].outcome /\ q.review = request[r].review
          /\ q.decision = request[r].decision /\ q.lead = request[r].lead
          /\ q.pc = "decide.commit"
      <4>1. /\ p.pc = "decide.commit" /\ p.outcome = request[r].outcome
            /\ p.review = request[r].review /\ p.decision = request[r].decision
            /\ p.lead = request[r].lead
        BY <3>1 DEF DecidingRequests
      <4>2. /\ q.pc = p.pc /\ q.outcome = p.outcome /\ q.review = p.review
            /\ q.decision = p.decision /\ q.lead = p.lead
        BY <3>1 DEF DecidingRequests
      <4>3. request' = [request EXCEPT ![r] = q]
        BY <2>7 DEF DecideReread
      <4>4. QED
        BY <4>1, <4>2, <4>3
    <3> HIDE DEF p, q
    <3>3. review' = review
      BY <2>7 DEF DecideReread
    <3>4. Checked(q, review)
      BY <2>7, <3>1, <3>2, <3>3 DEF Checked, DecideReread
    <3>5. \A s \in Requests : request'[s] = request[s] \/ Checked(request'[s], review')
      <4>1. \A s \in Requests : request'[s] = request[s] \/ request'[s] = q
        BY <3>2 DEF IInv, TypeOK
      <4>2. QED
        BY <3>3, <3>4, <4>1
    <3>6. QED
      BY <3>3, <3>5, CheckedStays
  <2>8. ASSUME NEW r \in Requests, DecideCommit(r) PROVE ChecksStayTrue'
    <3>1. request[r].review \in Reviews
      BY <2>8, RequestKinds DEF DecideCommit, IInv, TypeOK, DecidingRequests
    <3>2. \A v \in Reviews : review[v].late = review'[v].late
      BY <2>8, <3>1 DEF DecideCommit, IInv, TypeOK, ReviewRows
    <3>3. \A s \in Requests : request'[s] = request[s] \/ request'[s].pc = "replied"
      BY <2>8 DEF DecideCommit, IInv, TypeOK
    <3>4. QED
      BY <3>2, <3>3, CheckedStays
  <2>9. ASSUME NEW v \in Reviews, Expire(v) PROVE ChecksStayTrue'
    <3>1. \A w \in Reviews : review[w].late => review'[w].late
      BY <2>9 DEF Expire, IInv, TypeOK, ReviewRows
    <3>2. request' = request
      BY <2>9 DEF Expire
    <3>3. QED
      BY <3>1, <3>2, CheckedStays
  <2>10. CASE UNCHANGED vars
    BY <2>10 DEF vars, ChecksStayTrue, Checked
  <2>11. QED
    BY <2>2, <2>3, <2>4, <2>5, <2>6, <2>7, <2>8, <2>9, <2>10 DEF Next
<1>3. QED
  BY <1>1, <1>2, Invariance, PTL DEF Spec

\* LeadMemory has its own copy of the catalogue too.
LEMMA StoresPolicy ==
  ASSUME NEW from, NEW to, NEW resume, NEW reason, NEW evidence
  PROVE  /\ Stores!Allows(from, to, resume, reason, evidence)
              <=> Allows(from, to, resume, reason, evidence)
         /\ Stores!ResumeAfter(from, to, resume) = ResumeAfter(from, to, resume)
         /\ Stores!PreviousAfter(from, to) = PreviousAfter(from, to)
         /\ Stores!WorkflowTargets = WorkflowTargets /\ Stores!Flags = Flags
         /\ Stores!ClosedLostReasons = ClosedLostReasons /\ Stores!Nil = Nil
BY DEF Stores!Allows, Allows, Stores!ResumeAfter, ResumeAfter,
       Stores!PreviousAfter, PreviousAfter,
       Stores!WorkflowTargets, WorkflowTargets, Stores!Flags, Flags,
       Stores!ClosedLostReasons, ClosedLostReasons, Stores!Nil, Nil,
       Stores!Closes, Closes, Stores!Advances, Advances, Stores!Pauses, Pauses,
       Stores!Holds, Holds, Stores!Resumes, Resumes, Stores!HoldResume, HoldResume,
       Stores!OpenSteps, OpenSteps, Stores!GatedSteps, GatedSteps,
       Stores!FlagOf, FlagOf, Stores!Statuses, Statuses, Stores!Suspended, Suspended,
       Stores!Active, Active, Stores!DecidedByTarget, DecidedByTarget

\* A workflow command's transaction is the command on the in-memory store.
LEMMA AdvanceIsOne ==
  ASSUME IInv, NEW r \in Requests, AdvanceCommit(r)
  PROVE  \E l \in Leads, k \in Keys : Stores!Advance(l, k)
<1>1. request[r] \in AdvanceRequests
  BY RequestKinds DEF AdvanceCommit, IInv, TypeOK
<1>2. PICK m \in Leads, k \in Keys, to \in WorkflowTargets,
           reason \in ClosedLostReasons \cup {Nil}, evidence \in SUBSET Flags :
        /\ m = request[r].cmd.lead /\ to = request[r].cmd.to /\ k = request[r].key
        /\ reason = request[r].cmd.reason /\ evidence = request[r].cmd.evidence
  BY <1>1, LeadAssumption DEF AdvanceRequests, Commands
<1>3. Stores!Fresh(k, transitions)
  BY <1>2 DEF AdvanceCommit, FreshKey, Stores!Fresh
<1>4. \E why \in Stores!ClosedLostReasons \cup {Stores!Nil} :
        Stores!Allows(lead[m].status, to, lead[m].resume, why, Stores!Flags)
  BY <1>2, MoreEvidence, StoresPolicy DEF AdvanceCommit
<1>5. lead' = [lead EXCEPT ![m] =
        [status |-> to, version |-> lead[m].version + 1,
         previous |-> Stores!PreviousAfter(lead[m].status, to),
         resume |-> Stores!ResumeAfter(lead[m].status, to, lead[m].resume)]]
  <2>1. /\ Stores!PreviousAfter(lead[m].status, to) = PreviousAfter(lead[m].status, to)
        /\ Stores!ResumeAfter(lead[m].status, to, lead[m].resume)
             = ResumeAfter(lead[m].status, to, lead[m].resume)
    BY StoresPolicy
  <2>2. lead' = [lead EXCEPT ![m] =
          [status |-> to, version |-> lead[m].version + 1,
           previous |-> PreviousAfter(lead[m].status, to),
           resume |-> ResumeAfter(lead[m].status, to, lead[m].resume)]]
    BY <1>2 DEF AdvanceCommit, VersionAfter
  <2>3. QED
    BY <2>1, <2>2
<1>6. transitions' = transitions \cup
        {[key |-> k, lead |-> m, from |-> lead[m].status, to |-> to,
          version |-> lead[m].version + 1]}
  BY <1>2 DEF AdvanceCommit, VersionAfter
<1>7. m \in Synthetic /\ UNCHANGED <<review, prepareKeys, decisionKeys>>
  BY <1>2 DEF AdvanceCommit
<1>8. to \in Stores!WorkflowTargets
  BY StoresPolicy
<1>9. Stores!Advance(m, k)
  BY <1>3, <1>4, <1>5, <1>6, <1>7, <1>8 DEF Stores!Advance
<1>10. QED
  BY <1>9

\* A preparation's transaction is the whole request on the in-memory store.
LEMMA PrepareIsOne ==
  ASSUME IInv, ChecksStayTrue, NEW r \in Requests, PrepareCommit(r)
  PROVE  \E l \in Leads, k \in Keys, v \in Reviews : Stores!Prepare(l, k, v)
<1>1. request[r] \in PrepareRequests /\ request[r].pc = "prepare.commit"
  BY RequestKinds DEF PrepareCommit, IInv, TypeOK
<1>2. PICK m \in Leads, k \in Keys : m = request[r].lead /\ k = request[r].key
  BY <1>1 DEF PrepareRequests
<1>3. Stores!Fresh(k, prepareKeys)
  BY <1>2 DEF PrepareCommit, FreshKey, Stores!Fresh
<1>4. Stores!Preparable(m)
  BY <1>1, <1>2 DEF PrepareCommit, LeadIs, ChecksStayTrue, Checked, Stores!Preparable
<1>5. PICK v \in Reviews :
        /\ review[v] = NoReview
        /\ review' = [review EXCEPT ![v] =
             [lead |-> m, status |-> "PENDING", delivery |-> "DRAFT", late |-> FALSE]]
        /\ prepareKeys' = prepareKeys \cup {[key |-> k, lead |-> m, review |-> v]}
  BY <1>2 DEF PrepareCommit
<1>6. review[v] = Stores!NoReview
  BY <1>5, StoresPolicy DEF NoReview, Stores!NoReview, Nil, Stores!Nil
<1>7. lead[m] \in LeadRows /\ lead[m].version = request[r].version
  BY <1>2 DEF PrepareCommit, LeadIs, IInv, TypeOK
<1>8. lead' = [lead EXCEPT ![m].status = "CONTACT_PENDING",
                           ![m].version = lead[m].version + 1]
  BY <1>2, <1>7 DEF PrepareCommit, VersionAfter
<1>9. lead' = Stores!Save(m, "CONTACT_PENDING")
  BY <1>7, <1>8 DEF Stores!Save, IInv, TypeOK, LeadRows
<1>10. UNCHANGED <<transitions, decisionKeys>>
  BY DEF PrepareCommit
<1>11. Stores!Prepare(m, k, v)
  BY <1>3, <1>4, <1>5, <1>6, <1>9, <1>10 DEF Stores!Prepare
<1>12. QED
  BY <1>11

(***************************************************************************)
(* A decision's transaction is the whole request on the in-memory store:   *)
(* what it read before, version, lateness and source, is what it would     *)
(* read now.                                                               *)
(***************************************************************************)
LEMMA DecideIsOne ==
  ASSUME IInv, ChecksStayTrue, NEW r \in Requests, DecideCommit(r)
  PROVE  \E k \in Keys, v \in Reviews, decision \in {"APPROVE", "REJECT"},
            outcome \in Outcomes :
           Stores!Outcome(v, decision, outcome) /\ Stores!Decide(v, k, decision, outcome)
<1>1. request[r] \in DecidingRequests /\ request[r].pc = "decide.commit"
  BY RequestKinds DEF DecideCommit, IInv, TypeOK
<1>2. PICK m \in Leads, k \in Keys, v \in Reviews, outcome \in Outcomes,
           decision \in {"APPROVE", "REJECT"} :
        /\ m = request[r].lead /\ k = request[r].key /\ v = request[r].review
        /\ outcome = request[r].outcome /\ decision = request[r].decision
  BY <1>1 DEF DecidingRequests
<1>3. /\ lead[m] \in LeadRows /\ lead[m].status = "CONTACT_PENDING"
      /\ lead[m].version = request[r].expected
      /\ review[v].status = "PENDING"
  BY <1>2 DEF DecideCommit, LeadIs, Undecided, IInv, TypeOK
<1>4. review[v].lead = m /\ request[r].next = lead[m].version + 1
  BY <1>1, <1>2, <1>3 DEF IInv, ReadsStayUsable, Usable, DecidingRequests, LeadRows
<1>5. Stores!Fresh(k, decisionKeys)
  BY <1>2 DEF DecideCommit, FreshKey, Stores!Fresh
<1>6. lead' = Stores!Save(m, StatusAfter(outcome))
  <2>1. lead' = [lead EXCEPT ![m].status = StatusAfter(outcome),
                             ![m].version = lead[m].version + 1]
    BY <1>2, <1>4 DEF DecideCommit
  <2>2. QED
    BY <1>3, <2>1 DEF Stores!Save, IInv, TypeOK, LeadRows
<1>7. /\ review' = [review EXCEPT ![v].status = outcome,
                                  ![v].delivery = Stores!DeliveryAfter(outcome)]
      /\ decisionKeys' = decisionKeys \cup
           {[key |-> k, review |-> v, decision |-> decision]}
      /\ UNCHANGED <<transitions, prepareKeys>>
  BY <1>2 DEF DecideCommit, DeliveryAfter, Stores!DeliveryAfter
<1>8. Stores!Decide(v, k, decision, outcome)
  BY <1>3, <1>4, <1>5, <1>6, <1>7 DEF Stores!Decide, StatusAfter
<1>9. Stores!Outcome(v, decision, outcome)
  BY <1>1, <1>2, <1>4 DEF ChecksStayTrue, Checked, Stores!Outcome, Outcomes
<1>10. QED
  BY <1>2, <1>8, <1>9

(***************************************************************************)
(* The database shows what the in-memory stores of the tests show: every   *)
(* commit of a racing request is the whole request there, done at that     *)
(* moment, and every other step leaves the tables as they are.             *)
(***************************************************************************)
THEOREM StoresRefinement == Spec => ImplementsStores
<1>1. Init => Stores!Init
  BY DEF Init, Stores!Init, Stores!Nil, Nil, NoReview, Stores!NoReview
<1>2. IInv /\ ChecksStayTrue /\ [Next]_vars => [Stores!Next]_(Stores!vars)
  <2> SUFFICES ASSUME IInv, ChecksStayTrue, [Next]_vars
               PROVE  [Stores!Next]_(Stores!vars)
    OBVIOUS
  <2>1. ASSUME NEW r \in Requests, AdvanceCommit(r) PROVE Stores!Next
    BY <2>1, AdvanceIsOne DEF Stores!Next
  <2>2. ASSUME NEW r \in Requests, PrepareCommit(r) PROVE Stores!Next
    BY <2>2, PrepareIsOne DEF Stores!Next
  <2>3. ASSUME NEW r \in Requests, DecideCommit(r) PROVE Stores!Next
    BY <2>3, DecideIsOne DEF Stores!Next, Outcomes
  <2>4. ASSUME NEW v \in Reviews, Expire(v) PROVE Stores!Next
    <3>1. Stores!Expire(v)
      BY <2>4 DEF Expire, Stores!Expire
    <3>2. QED
      BY <3>1 DEF Stores!Next
  <2>5. CASE UNCHANGED <<lead, review, transitions, prepareKeys, decisionKeys>>
    BY <2>5 DEF Stores!vars
  <2>6. QED
    BY <2>1, <2>2, <2>3, <2>4, <2>5
       DEF Next, vars, AdvanceLookup, PrepareReadLead, DecideReadReview,
           PrepareReadReview, DecideReadLead, DecideReread, DecideReplay, Finish
<1>3. QED
  BY <1>1, <1>2, Invariance, ChecksInvariance, PTL DEF Spec, ImplementsStores, Stores!Spec

=============================================================================
