------------------------------ MODULE MCOutbox ------------------------------
(***************************************************************************)
(* Instances of Outbox for TLC: one event that passes today, one that      *)
(* passes from the next release on and one that never does, drained by two *)
(* overlapping drains.                                                     *)
(***************************************************************************)
EXTENDS Outbox

CONSTANTS e1, e2, e3, d1, d2

TwoEvents == {e1, e2}
ThreeEvents == {e1, e2, e3}
TodayEvents == {e1}
LaterEvents == {e2}
TwoDrains == {d1, d2}
OneDrain == {d1}

=============================================================================
