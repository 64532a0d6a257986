---------------------------- MODULE MCLeadSales ----------------------------
(***************************************************************************)
(* Instances of LeadLifecycle for TLC that follow one lead past first      *)
(* contact: one request at a time, as many keys as the path has commands.  *)
(***************************************************************************)
EXTENDS LeadLifecycle, TLC

CONSTANTS l1, v1, r1, k1, k2, k3, k4, k5, k6, k7, k8

OneLead == {l1}
OneReview == {v1}
OneRequest == {r1}
TwoKeys == {k1, k2}
EightKeys == TwoKeys \cup {k3, k4, k5, k6, k7, k8}

\* The straight way to a job, and the exit from it.
JobTargets ==
  {"INTERESTED", "QUALIFYING", "QUALIFIED", "QUOTE_READY", "QUOTE_SENT",
   "CUSTOMER_ACCEPTED", "JOB_READY", "MANUAL_REVIEW"}
HoldTargets == {"INTERESTED", "NO_RESPONSE", "CONTACTED", "MANUAL_REVIEW"}
NoReason == {Nil}
FullEvidence == {Flags}

Symmetry == Permutations({k1, k2, k3, k4}) \cup Permutations({k5, k6, k7, k8})

=============================================================================
