--------------------------- MODULE WorkflowPolicy ---------------------------
(***************************************************************************)
(* The transition catalogue `workflow-v1`: which status changes of a lead  *)
(* a workflow command may make, and what they do to the columns that       *)
(* remember where a suspended lead came from.  The code is one pure        *)
(* function, decideWorkflowMove, that both adapters of the workflow store  *)
(* and the Lead aggregate call.                                            *)
(*                                                                         *)
(* Only the verdict and the new status, previous_status and resume_status  *)
(* are kept.  The code of a rejection is not: a rejected command changes   *)
(* no row, whatever its code.                                              *)
(*                                                                         *)
(* A definition right before another whose name it extends is that one     *)
(* with a bug, kept to see which property notices; no specification uses   *)
(* it.  The modules that extend this one have some too.                    *)
(***************************************************************************)
EXTENDS Naturals

\* A NULL column, and the absent reason of a command.
Nil == "NIL"

Statuses ==
  {"NEW", "CONTACT_PENDING", "CONTACTED", "INTERESTED", "QUALIFYING", "QUALIFIED",
   "QUOTE_READY", "QUOTE_SENT", "NEGOTIATING", "CUSTOMER_ACCEPTED", "JOB_READY",
   "NO_RESPONSE", "MANUAL_REVIEW", "CLOSED_LOST"}

\* What a command may ask for; the last two name states no lead can reach.
WorkflowTargets == Statuses \cup {"ANALYZED", "BLOCKED"}

ClosedLostReasons == {"WITHDRAWN", "NOT_INTERESTED", "DUPLICATE", "INVALID_CONTACT"}

Flags == {"requirementsReady", "quoteReady", "quoteSent", "negotiating",
          "acceptanceReady", "jobReady"}

Suspended == {"NO_RESPONSE", "MANUAL_REVIEW"}

Active == Statuses \ (Suspended \cup {"CLOSED_LOST"})

\* Moves that need nothing but the right status.
OpenSteps == {<<"CONTACTED", "INTERESTED">>, <<"INTERESTED", "QUALIFYING">>}

\* Moves that also need the flag of their target.
GatedSteps ==
  {<<"QUALIFYING", "QUALIFIED">>, <<"QUALIFIED", "QUOTE_READY">>,
   <<"QUOTE_READY", "QUOTE_SENT">>, <<"QUOTE_SENT", "NEGOTIATING">>,
   <<"QUOTE_SENT", "CUSTOMER_ACCEPTED">>, <<"NEGOTIATING", "CUSTOMER_ACCEPTED">>,
   <<"CUSTOMER_ACCEPTED", "JOB_READY">>}

FlagOf(to) ==
  CASE to = "QUALIFIED"         -> "requirementsReady"
    [] to = "QUOTE_READY"       -> "quoteReady"
    [] to = "QUOTE_SENT"        -> "quoteSent"
    [] to = "NEGOTIATING"       -> "negotiating"
    [] to = "CUSTOMER_ACCEPTED" -> "acceptanceReady"
    [] to = "JOB_READY"         -> "jobReady"

(***************************************************************************)
(* Targets the function decides before it looks at the resume status.  A   *)
(* suspended lead asking for one of them is turned down there.             *)
(***************************************************************************)
DecidedByTarget == {s[2] : s \in OpenSteps \cup GatedSteps}

Advances(from, to, evidence) ==
  \/ <<from, to>> \in OpenSteps
  \/ <<from, to>> \in GatedSteps /\ FlagOf(to) \in evidence

Pauses(from, to) == from = "CONTACTED" /\ to = "NO_RESPONSE"

\* Where a lead put on hold will come back to.
HoldResume(from, resume) == IF from = "NO_RESPONSE" THEN resume ELSE from

Holds(from, to, resume) == to = "MANUAL_REVIEW" /\ HoldResume(from, resume) \in Active

ResumesAnywhere(from, to, resume) ==
  from \in Suspended /\ to \in Active \ DecidedByTarget

Resumes(from, to, resume) ==
  from \in Suspended /\ to = resume /\ to \in Active \ DecidedByTarget

Closes(from, to, reason) ==
  to = "CLOSED_LOST" /\ from # "CLOSED_LOST" /\ reason \in ClosedLostReasons

\* decideWorkflowMove answers ok.
Allows(from, to, resume, reason, evidence) ==
  \/ Closes(from, to, reason)
  \/ /\ reason = Nil
     /\ \/ Advances(from, to, evidence)
        \/ Pauses(from, to)
        \/ Holds(from, to, resume)
        \/ Resumes(from, to, resume)

\* previous_status and resume_status of the lead after an allowed move.
PreviousAfter(from, to) ==
  IF to \in Suspended \cup {"CLOSED_LOST"} THEN from ELSE Nil

ResumeAfterKept(from, to, resume) ==
  IF to \in Suspended THEN HoldResume(from, resume) ELSE resume

ResumeAfter(from, to, resume) ==
  IF to \in Suspended THEN HoldResume(from, resume) ELSE Nil

=============================================================================
