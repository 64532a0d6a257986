------------------------- MODULE LeadContract_proofs -------------------------
(***************************************************************************)
(* Theorems about LeadContract, for every set of leads.                    *)
(***************************************************************************)
EXTENDS LeadContract, TLAPS

\* What makes ContactIsDelivery inductive: a suspended lead has a stage to return to.
SuspendedHasStage ==
  \A l \in Leads : status[l] \in Suspended => resume[l] \in Active

IInv == TypeOK /\ SuspendedHasStage /\ ContactIsDelivery

-----------------------------------------------------------------------------

\* What a catalogue move does to one lead.
LEMMA MoveKeepsStage ==
  ASSUME NEW from \in Statuses, NEW to \in WorkflowTargets,
         NEW back \in Active \cup {Nil}, NEW reason, NEW evidence,
         Allows(from, to, back, reason, evidence),
         from \in Suspended => back \in Active
  PROVE  /\ from # "CLOSED_LOST"
         /\ to \in Statuses
         /\ ResumeAfter(from, to, back) \in Active \cup {Nil}
         /\ to \in Suspended => ResumeAfter(from, to, back) \in Active
         /\ to # "CLOSED_LOST" =>
              ((IF from \in Suspended THEN back ELSE from) \in BeforeContact
                <=> (IF to \in Suspended THEN ResumeAfter(from, to, back) ELSE to)
                      \in BeforeContact)
         /\ (IF from \in Suspended THEN back ELSE from) \notin BeforeContact =>
              (IF to \in Suspended THEN ResumeAfter(from, to, back) ELSE to)
                \notin BeforeContact
BY DEF Allows, Closes, Advances, Pauses, Holds, Resumes, HoldResume, ResumeAfter, OpenSteps,
       GatedSteps, Statuses, WorkflowTargets, Suspended, Active, BeforeContact

\* One step, whichever lead it moves.
LEMMA NextStep ==
  ASSUME IInv, Next
  PROVE  /\ IInv'
         /\ \A l \in Leads : Stage(l) \notin BeforeContact => Stage(l)' \notin BeforeContact
<1>1. PICK m \in Leads : Move(m) \/ Open(m) \/ Deliver(m) \/ Release(m)
  BY DEF Next
<1>2. status[m] \in Statuses /\ resume[m] \in Active \cup {Nil}
  BY DEF IInv, TypeOK
<1>3. CASE Move(m)
  <2>1. PICK to \in WorkflowTargets, reason \in ClosedLostReasons \cup {Nil} :
          /\ Allows(status[m], to, resume[m], reason, Flags)
          /\ status' = [status EXCEPT ![m] = to]
          /\ resume' = [resume EXCEPT ![m] = ResumeAfter(status[m], to, resume[m])]
          /\ delivered' = delivered
    BY <1>3 DEF Move
  <2>2. status[m] \in Suspended => resume[m] \in Active
    BY DEF IInv, SuspendedHasStage
  <2>3. PICK back \in Active \cup {Nil} : back = ResumeAfter(status[m], to, resume[m])
    BY <1>2, <2>1, <2>2, MoveKeepsStage
  <2>4. /\ status[m] # "CLOSED_LOST" /\ to \in Statuses
        /\ to \in Suspended => back \in Active
        /\ to # "CLOSED_LOST" =>
             (Stage(m) \in BeforeContact
               <=> (IF to \in Suspended THEN back ELSE to) \in BeforeContact)
        /\ Stage(m) \notin BeforeContact =>
             (IF to \in Suspended THEN back ELSE to) \notin BeforeContact
    BY <1>2, <2>1, <2>2, <2>3, MoveKeepsStage DEF Stage
  <2>5. /\ status'[m] = to /\ resume'[m] = back
        /\ \A l \in Leads \ {m} : status'[l] = status[l] /\ resume'[l] = resume[l]
    BY <2>1, <2>3 DEF IInv, TypeOK
  <2>6. TypeOK' /\ SuspendedHasStage'
    BY <2>1, <2>3, <2>4, <2>5 DEF IInv, TypeOK, SuspendedHasStage
  <2>7. ContactIsDelivery'
    BY <2>1, <2>4, <2>5 DEF IInv, ContactIsDelivery, Stage
  <2>8. QED
    BY <2>4, <2>5, <2>6, <2>7 DEF IInv, Stage
<1>4. CASE Open(m) \/ Deliver(m) \/ Release(m)
  <2>1. /\ status[m] \in BeforeContact
        /\ status'[m] \in BeforeContact \cup {"CONTACTED"}
        /\ delivered' = IF status'[m] = "CONTACTED" THEN delivered \cup {m} ELSE delivered
        /\ resume' = resume
        /\ \A l \in Leads \ {m} : status'[l] = status[l]
        /\ status' \in [Leads -> Statuses]
    BY <1>4 DEF Open, Deliver, Release, IInv, TypeOK, BeforeContact, Statuses
  <2>2. TypeOK' /\ SuspendedHasStage'
    BY <2>1 DEF IInv, TypeOK, SuspendedHasStage, BeforeContact, Suspended
  <2>3. ContactIsDelivery'
    BY <2>1 DEF IInv, ContactIsDelivery, Stage, BeforeContact, Suspended
  <2>4. QED
    BY <2>1, <2>2, <2>3 DEF IInv, Stage, BeforeContact, Suspended
<1>5. QED
  BY <1>1, <1>3, <1>4

-----------------------------------------------------------------------------

LEMMA Invariance == Spec => []IInv
<1>1. Init => IInv
  BY DEF Init, IInv, TypeOK, SuspendedHasStage, ContactIsDelivery, Stage, Statuses,
         Suspended, BeforeContact
<1>2. IInv /\ [Next]_vars => IInv'
  <2>1. CASE UNCHANGED vars
    BY <2>1 DEF vars, IInv, TypeOK, SuspendedHasStage, ContactIsDelivery, Stage
  <2>2. QED
    BY <2>1, NextStep
<1>3. QED
  BY <1>1, <1>2, PTL DEF Spec

\* Every lead keeps a status of the catalogue and, while held, an active stage.
THEOREM TypeCorrect == Spec => []TypeOK
<1>1. IInv => TypeOK
  BY DEF IInv
<1>2. QED
  BY <1>1, Invariance, PTL

\* A lead is past first contact exactly when its first message went out.
THEOREM ContactsAreDeliveries == Spec => []ContactIsDelivery
<1>1. IInv => ContactIsDelivery
  BY DEF IInv
<1>2. QED
  BY <1>1, Invariance, PTL

\* No chain of moves takes a contacted lead back to the first-contact stages.
THEOREM ContactIsNeverUndone == Spec => NeverUncontacted
<1>1. IInv /\ [Next]_vars =>
        [\A l \in Leads : Stage(l) \notin BeforeContact => Stage(l)' \notin BeforeContact]_vars
  BY NextStep
<1>2. QED
  BY <1>1, Invariance, PTL DEF Spec, NeverUncontacted

=============================================================================
