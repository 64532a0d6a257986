------------------------------ MODULE MCSales ------------------------------
(***************************************************************************)
(* Instances of Sales for TLC: one lead, a form that is ready and one that *)
(* lacks a field.  A behaviour stays in one of the scenarios of its run,   *)
(* which bound the requests that clients send; TLC checks the union.       *)
(***************************************************************************)
EXTENDS Sales, TLC

CONSTANTS l1, r1, r2, k1, k2, full, partial, Scenarios

VARIABLE scenario

OneLead == {l1}
TwoRequests == {r1, r2}
TwoKeys == {k1, k2}
BothBodies == {full, partial}
FullBody == {full}
EightHours == (full :> 8) @@ (partial :> 0)

Confirms == {<<"CONFIRM", k1>>, <<"CONFIRM", k2>>}
\* One key serves a lead from its requirement to its job.
OneKeyUses == {<<"CONFIRM", k1>>, <<"QUOTE", k1>>, <<"JOB", k1>>}
JobUses == Confirms \cup OneKeyUses
AllUses ==
  OneKeyUses \cup {<<"NEGOTIATION", k1>>, <<"FOLLOW_UP", k1>>, <<"PROVIDER_DELIVERY", k1>>}
RiskUses == OneKeyUses \cup {<<"RISK", k1>>}
EveryUse == AllUses \cup Confirms \cup RiskUses

HoldOrStart == {"QUALIFYING", "MANUAL_REVIEW"}

RequestSymmetry == Permutations(Requests)

\* One request at a time through every operation, with holds.
Sequential ==
  [atOnce |-> 1, uses |-> AllUses, bodies |-> {full}, targets |-> HoldOrStart]
\* Confirmations of both forms that overtake each other, with holds.
Confirming ==
  [atOnce |-> 2, uses |-> Confirms, bodies |-> BothBodies, targets |-> HoldOrStart]
\* Two requests at a time all the way to a job.
ToTheJob ==
  [atOnce |-> 2, uses |-> JobUses, bodies |-> {full}, targets |-> {}]
\* A lead that somebody reports, before or after its job.
Reported ==
  [atOnce |-> 1, uses |-> RiskUses, bodies |-> {full}, targets |-> {}]

\* Operations of one key that die and are sent again.
Interrupted1 ==
  [atOnce |-> 2, uses |-> OneKeyUses, bodies |-> {full}, targets |-> {}]

AllScenarios == {Sequential, Confirming, ToTheJob, Reported}
OnlyInterrupted == {Interrupted1}

InScenario ==
  /\ Cardinality({r \in Requests : request'[r] # Idle}) <= scenario.atOnce
  /\ \A r \in Requests :
       request'[r] # Idle =>
         /\ <<request'[r].op, request'[r].key>> \in scenario.uses
         /\ request'[r].body \in scenario.bodies \cup {Nil}
  /\ signals' # signals => \A s \in signals' : <<"RISK", s.key>> \in scenario.uses
  /\ request' = request =>
       \A l \in Leads : lead'[l] # lead[l] => lead'[l].status \in scenario.targets

ScenarioInit == Init /\ scenario \in Scenarios

ScenarioSpec ==
  ScenarioInit /\ [][Next /\ InScenario /\ UNCHANGED scenario]_<<vars, scenario>>

LiveScenarioSpec == ScenarioSpec /\ Fairness

=============================================================================
