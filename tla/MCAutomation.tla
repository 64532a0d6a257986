---------------------------- MODULE MCAutomation ----------------------------
(* Instances of Automation for TLC. *)
EXTENDS Automation, TLC

CONSTANTS r1, r2, k1, k2

OneRequest == {r1}
TwoRequests == {r1, r2}
OneKey == {k1}
TwoKeys == {k1, k2}

\* The customer's way to an accepted job, and a hold on it.
Journey == {"INTERESTED", "QUALIFYING", "QUALIFIED", "CUSTOMER_ACCEPTED", "JOB_READY"}
JourneyAndHold == Journey \cup {"MANUAL_REVIEW", "CONTACT_PENDING", "CONTACTED"}

Symmetry == Permutations(Requests) \cup Permutations(Keys)

=============================================================================
