---------------------------- MODULE LeadContract ----------------------------
(***************************************************************************)
(* What the lead, workflow and contact packages promise together, with no  *)
(* requests, keys, versions or reviews: a lead changes status one catalogue*)
(* move at a time, the three first-contact moves happen as single steps,   *)
(* and the step that makes a lead CONTACTED is the one step that delivers  *)
(* the first message, at most once in the life of the lead.                *)
(*                                                                         *)
(* LeadLifecycle, where every step is a database statement of a request    *)
(* that other requests overtake, implements this specification.            *)
(***************************************************************************)
EXTENDS WorkflowPolicy

CONSTANT Leads

VARIABLES
  status,      \* [Leads -> Statuses]
  resume,      \* [Leads -> Active \cup {Nil}]
  delivered    \* leads whose first message the mock channel accepted

vars == <<status, resume, delivered>>

Init ==
  /\ status = [l \in Leads |-> "NEW"]
  /\ resume = [l \in Leads |-> Nil]
  /\ delivered = {}

-----------------------------------------------------------------------------

\* A catalogue move; the flags and the reason are the caller's.
Move(l) ==
  \E to \in WorkflowTargets :
    /\ status' = [status EXCEPT ![l] = to]
    /\ resume' = [resume EXCEPT ![l] = ResumeAfter(status[l], to, resume[l])]
    /\ \E reason \in ClosedLostReasons \cup {Nil} :
         Allows(status[l], to, resume[l], reason, Flags)
    /\ UNCHANGED delivered

\* Lead.markContactPending
Open(l) ==
  /\ status[l] = "NEW"
  /\ status' = [status EXCEPT ![l] = "CONTACT_PENDING"]
  /\ UNCHANGED <<resume, delivered>>

\* Lead.markContacted, with the delivery of the approved draft
Deliver(l) ==
  /\ status[l] = "CONTACT_PENDING"
  /\ l \notin delivered
  /\ status' = [status EXCEPT ![l] = "CONTACTED"]
  /\ delivered' = delivered \cup {l}
  /\ UNCHANGED resume

ReleaseContacted(l) ==
  /\ status[l] \in {"CONTACT_PENDING", "CONTACTED"}
  /\ status' = [status EXCEPT ![l] = "NEW"]
  /\ UNCHANGED <<resume, delivered>>

\* Lead.releaseToNew
Release(l) ==
  /\ status[l] = "CONTACT_PENDING"
  /\ status' = [status EXCEPT ![l] = "NEW"]
  /\ UNCHANGED <<resume, delivered>>

Next == \E l \in Leads : Move(l) \/ Open(l) \/ Deliver(l) \/ Release(l)

Spec == Init /\ [][Next]_vars

-----------------------------------------------------------------------------

TypeOK ==
  /\ status \in [Leads -> Statuses]
  /\ resume \in [Leads -> Active \cup {Nil}]
  /\ delivered \subseteq Leads

\* The stage a lead is at, looking through a suspension.
Stage(l) == IF status[l] \in Suspended THEN resume[l] ELSE status[l]

BeforeContact == {"NEW", "CONTACT_PENDING"}

(***************************************************************************)
(* A lead is past first contact exactly when its first message went out.   *)
(* Held leads count by the stage they will resume; a closed lead may have  *)
(* been closed on either side.                                             *)
(***************************************************************************)
ContactIsDelivery ==
  \A l \in Leads :
    status[l] # "CLOSED_LOST" => (l \in delivered <=> Stage(l) \notin BeforeContact)

(***************************************************************************)
(* First contact is never undone: a lead that left the first-contact stages*)
(* does not come back to them, however often it is held and resumed.       *)
(***************************************************************************)
NeverUncontacted ==
  [][\A l \in Leads : Stage(l) \notin BeforeContact => Stage(l)' \notin BeforeContact]_vars
=============================================================================
