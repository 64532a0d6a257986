-------------------------- MODULE MCLeadLifecycle --------------------------
(***************************************************************************)
(* Instances of LeadLifecycle for TLC.                                     *)
(***************************************************************************)
EXTENDS LeadLifecycle, TLC

CONSTANTS l1, v1, v2, r1, r2, k1, k2

OneLead == {l1}
TwoReviews == {v1, v2}
TwoRequests == {r1, r2}
TwoKeys == {k1, k2}

\* Targets and reasons around first contact: holds, closing and resuming.
ContactTargets == {"MANUAL_REVIEW", "NEW", "CONTACT_PENDING", "CLOSED_LOST"}
ContactReasons == {Nil, "WITHDRAWN"}
NoEvidence == {{}}

Symmetry ==
  Permutations(TwoReviews) \cup Permutations(TwoRequests) \cup Permutations(TwoKeys)

=============================================================================
