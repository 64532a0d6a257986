---------------------------- MODULE Outbox_proofs ----------------------------
(***************************************************************************)
(* Theorems about Outbox, for every set of events and of overlapping       *)
(* drains, every batch size, limit of attempts and number of faults.       *)
(***************************************************************************)
EXTENDS Outbox, FiniteSetTheorems, TLAPS

(***************************************************************************)
(* What a drain is about to hand off was published, and passes in the      *)
(* drain's release, whatever other drains and the operator did since.      *)
(***************************************************************************)
HandingIsPublished ==
  \A d \in Drains : \A e \in handing[d] : row[e].published /\ Passes(e, d)

\* A row that is not there yet is in nobody's hands.
AbsentRowsIdle ==
  \A e \in Events :
    row[e].slot = "absent" => ~row[e].published /\ \A d \in Drains : e \notin claimed[d]

\* The inductive invariant.
IInv == TypeOK /\ AbsentRowsIdle /\ HandingIsPublished /\ HandoffsAreVouched

\* A release is never taken back, so what passes goes on passing.
ReleasesGrow == \A w \in Drains \cup {"api"} : release'[w] >= release[w]

\* A row that is published stays so.
PublishedStays == \A e \in Events : row[e].published => row'[e].published

LEMMA StillVouched ==
  ASSUME IInv, TypeOK', ReleasesGrow, PublishedStays, handed' = handed
  PROVE  HandoffsAreVouched'
<1>1. \A e \in Events, d \in Drains : Passes(e, d) => Passes(e, d)'
  BY DEF Passes, ReleasesGrow, IInv, TypeOK
<1>2. QED
  BY <1>1 DEF HandoffsAreVouched, PublishedStays, IInv, TypeOK

-----------------------------------------------------------------------------
(* One lemma per action *)

LEMMA InitHolds == Init => IInv
BY OutboxAssumption
   DEF Init, IInv, TypeOK, Rows, AbsentRowsIdle, HandingIsPublished, HandoffsAreVouched

LEMMA EmitStep ==
  ASSUME IInv, NEW e \in Events, Emit(e)
  PROVE  IInv'
<1>1. TypeOK'
  BY DEF IInv, TypeOK, Rows, Emit, QueueLast
<1>2. PublishedStays /\ ReleasesGrow /\ handed' = handed
  BY DEF IInv, TypeOK, Rows, AbsentRowsIdle, Emit, PublishedStays, ReleasesGrow
<1>3. HandingIsPublished'
  BY <1>2 DEF IInv, TypeOK, Emit, HandingIsPublished, PublishedStays, Passes
<1>4. AbsentRowsIdle'
  BY DEF IInv, TypeOK, Rows, AbsentRowsIdle, Emit
<1>5. QED
  BY <1>4, <1>1, <1>2, <1>3, StillVouched DEF IInv

LEMMA RedriveStep ==
  ASSUME IInv, NEW e \in Events, Redrive(e)
  PROVE  IInv' /\ PublishedStays
<1>1. TypeOK'
  BY OutboxAssumption DEF IInv, TypeOK, Rows, Redrive, QueueLast
<1>2. PublishedStays /\ ReleasesGrow /\ handed' = handed
  BY DEF IInv, TypeOK, Rows, Redrive, Open, PublishedStays, ReleasesGrow
<1>3. HandingIsPublished'
  BY <1>2 DEF IInv, TypeOK, Redrive, HandingIsPublished, PublishedStays, Passes
<1>4. AbsentRowsIdle'
  BY DEF IInv, TypeOK, Rows, AbsentRowsIdle, Redrive
<1>5. QED
  BY <1>4, <1>1, <1>2, <1>3, StillVouched DEF IInv

LEMMA ClaimStep ==
  ASSUME IInv, NEW d \in Drains, Claim(d)
  PROVE  IInv'
<1>1. PICK batch \in SUBSET {e \in Events : Claimable(e)} :
        /\ claimed' = [claimed EXCEPT ![d] = batch]
        /\ row' = [e \in Events |->
                     IF e \in batch THEN [row[e] EXCEPT !.attempts = @ + 1] ELSE row[e]]
  BY DEF Claim
<1>2. UNCHANGED <<ahead, handing, handed, paused, release, faults>>
  BY DEF Claim
<1>3. \A e \in batch : row[e].attempts + 1 \in 0..MaxAttempts
  BY <1>1, OutboxAssumption DEF Claimable, IInv, TypeOK, Rows
<1>4. row' \in [Events -> Rows]
  BY <1>1, <1>3 DEF IInv, TypeOK, Rows
<1>5. TypeOK'
  BY <1>1, <1>2, <1>4 DEF IInv, TypeOK
<1>6. PublishedStays /\ ReleasesGrow /\ handed' = handed
  BY <1>1, <1>2 DEF IInv, TypeOK, Rows, PublishedStays, ReleasesGrow
<1>7. HandingIsPublished'
  BY <1>2, <1>6 DEF IInv, TypeOK, HandingIsPublished, PublishedStays, Passes
<1>8. AbsentRowsIdle'
  BY <1>1, <1>2 DEF IInv, TypeOK, Rows, AbsentRowsIdle, Claimable
<1>9. QED
  BY <1>8, <1>5, <1>6, <1>7, StillVouched DEF IInv

LEMMA PublishStep ==
  ASSUME IInv, NEW d \in Drains, NEW e \in Events, Publish(d, e)
  PROVE  IInv'
<1>1. TypeOK'
  BY DEF IInv, TypeOK, Rows, Publish
<1>2. row[e].slot # "absent" /\ row'[e].slot = row[e].slot /\ row'[e].published
  BY DEF IInv, TypeOK, Rows, AbsentRowsIdle, Publish, Open
<1>3. \A f \in Events \ {e} : row'[f] = row[f]
  BY DEF IInv, TypeOK, Publish
<1>4. PublishedStays
  BY <1>2, <1>3 DEF PublishedStays
<1>5. ReleasesGrow /\ handed' = handed
  BY DEF IInv, TypeOK, Publish, ReleasesGrow
<1>6. HandingIsPublished'
  BY <1>2, <1>4 DEF IInv, TypeOK, Publish, HandingIsPublished, PublishedStays, Passes
<1>7. \A u \in Drains : claimed'[u] \subseteq claimed[u]
  BY DEF IInv, TypeOK, Publish
<1>8. AbsentRowsIdle'
  BY <1>2, <1>3, <1>7 DEF IInv, AbsentRowsIdle
<1>9. QED
  BY <1>1, <1>4, <1>5, <1>6, <1>8, StillVouched DEF IInv

LEMMA HandoffStep ==
  ASSUME IInv, NEW d \in Drains, Handoff(d)
  PROVE  IInv'
<1>1. TypeOK'
  BY DEF IInv, TypeOK, Rows, Handoff
<1>2. \A e \in Events, u \in Drains : Passes(e, u)' <=> Passes(e, u)
  BY DEF Passes, Handoff
<1>3. HandingIsPublished'
  BY <1>2 DEF IInv, TypeOK, Handoff, HandingIsPublished
<1>4. HandoffsAreVouched'
  BY <1>2 DEF IInv, TypeOK, Handoff, HandingIsPublished, HandoffsAreVouched
<1>5. AbsentRowsIdle'
  BY DEF IInv, TypeOK, Rows, AbsentRowsIdle, Handoff
<1>6. QED
  BY <1>5, <1>1, <1>3, <1>4 DEF IInv

LEMMA BuryStep ==
  ASSUME IInv, NEW d \in Drains, NEW e \in Events, Bury(d, e)
  PROVE  IInv'
<1>1. TypeOK'
  BY DEF IInv, TypeOK, Rows, Bury
<1>2. PublishedStays /\ ReleasesGrow /\ handed' = handed
  BY DEF IInv, TypeOK, Rows, Bury, Open, PublishedStays, ReleasesGrow
<1>3. HandingIsPublished'
  BY <1>2 DEF IInv, TypeOK, Bury, HandingIsPublished, PublishedStays, Passes
<1>4. AbsentRowsIdle'
  BY DEF IInv, TypeOK, Rows, AbsentRowsIdle, Bury, Open
<1>5. QED
  BY <1>4, <1>1, <1>2, <1>3, StillVouched DEF IInv

LEMMA FailStep ==
  ASSUME IInv, NEW d \in Drains, Fail(d)
  PROVE  IInv'
<1>1. TypeOK'
  BY OutboxAssumption DEF IInv, TypeOK, Fail
<1>2. PublishedStays /\ ReleasesGrow /\ handed' = handed
  BY DEF IInv, TypeOK, Fail, PublishedStays, ReleasesGrow
<1>3. HandingIsPublished'
  BY DEF IInv, TypeOK, Fail, HandingIsPublished, Passes
<1>4. AbsentRowsIdle'
  BY DEF IInv, TypeOK, Rows, AbsentRowsIdle, Fail
<1>5. QED
  BY <1>4, <1>1, <1>2, <1>3, StillVouched DEF IInv

LEMMA RestartStep ==
  ASSUME IInv, NEW d \in Drains, Restart(d)
  PROVE  IInv'
<1>1. TypeOK'
  BY OutboxAssumption DEF IInv, TypeOK, Restart
<1>2. PublishedStays /\ ReleasesGrow /\ handed' = handed
  BY DEF IInv, TypeOK, Restart, PublishedStays, ReleasesGrow
<1>3. HandingIsPublished'
  BY <1>1, <1>2 DEF IInv, TypeOK, Restart, HandingIsPublished, ReleasesGrow, Passes
<1>4. AbsentRowsIdle'
  BY DEF IInv, TypeOK, Rows, AbsentRowsIdle, Restart
<1>5. QED
  BY <1>4, <1>1, <1>2, <1>3, StillVouched DEF IInv

LEMMA UpgradeStep ==
  ASSUME IInv, UpgradeApi
  PROVE  IInv'
<1>1. TypeOK'
  BY DEF IInv, TypeOK, UpgradeApi
<1>2. PublishedStays /\ ReleasesGrow /\ handed' = handed
  BY DEF IInv, TypeOK, UpgradeApi, PublishedStays, ReleasesGrow
<1>3. HandingIsPublished'
  BY <1>1, <1>2 DEF IInv, TypeOK, UpgradeApi, HandingIsPublished, ReleasesGrow, Passes
<1>4. AbsentRowsIdle'
  BY DEF IInv, TypeOK, Rows, AbsentRowsIdle, UpgradeApi
<1>5. QED
  BY <1>4, <1>1, <1>2, <1>3, StillVouched DEF IInv

LEMMA NextStep == IInv /\ [Next]_vars => IInv'
<1>1. CASE UNCHANGED vars
  BY <1>1 DEF vars, IInv, TypeOK, AbsentRowsIdle, HandingIsPublished, HandoffsAreVouched, Passes
<1>2. CASE Next
  BY <1>2, EmitStep, RedriveStep, ClaimStep, PublishStep, HandoffStep, BuryStep,
     FailStep, RestartStep, UpgradeStep DEF Next
<1>3. QED
  BY <1>1, <1>2

-----------------------------------------------------------------------------
(* Attempts are in hand or were lost in a fault *)

Holders(e) == {d \in Drains : e \in claimed[d]}

(***************************************************************************)
(* Every attempt of an open event that is not buried was taken by a drain  *)
(* that still holds the event, or wasted by a fault of its own: a drain    *)
(* that gets to the event publishes or buries it.                          *)
(***************************************************************************)
AttemptsOf(e) ==
  row[e].slot # "dead" /\ ~row[e].published =>
    row[e].attempts <= faults + Cardinality(Holders(e))

AttemptsCounted == \A e \in Events : AttemptsOf(e)

LEMMA HoldersFinite ==
  ASSUME NEW e \in Events
  PROVE  IsFiniteSet(Holders(e)) /\ Cardinality(Holders(e)) \in Nat
<1>1. IsFiniteSet(Holders(e))
  BY OutboxAssumption, FS_Subset DEF Holders
<1>2. QED
  BY <1>1, FS_CardinalityType

\* An event that a step does not touch.
LEMMA Untouched ==
  ASSUME NEW e \in Events, AttemptsOf(e), row'[e] = row[e], faults' = faults,
         \A d \in Drains : e \in claimed'[d] <=> e \in claimed[d]
  PROVE  AttemptsOf(e)'
<1>1. Holders(e)' = Holders(e)
  BY DEF Holders
<1>2. QED
  BY <1>1 DEF AttemptsOf

LEMMA ClaimCounts ==
  ASSUME IInv, NEW d \in Drains, Claim(d), NEW e \in Events, AttemptsOf(e)
  PROVE  AttemptsOf(e)'
<1>1. PICK batch \in SUBSET {f \in Events : Claimable(f)} :
        /\ claimed' = [claimed EXCEPT ![d] = batch]
        /\ row' = [f \in Events |->
                     IF f \in batch THEN [row[f] EXCEPT !.attempts = @ + 1] ELSE row[f]]
  BY DEF Claim
<1>2. claimed[d] = {} /\ faults' = faults /\ claimed \in [Drains -> SUBSET Events]
  BY DEF Claim, Busy, IInv, TypeOK
<1>3. CASE e \notin batch
  BY <1>1, <1>2, <1>3, Untouched
<1>4. CASE e \in batch
  <2>1. Holders(e)' = Holders(e) \cup {d} /\ d \notin Holders(e)
    BY <1>1, <1>2, <1>4 DEF Holders
  <2>2. Cardinality(Holders(e)') = Cardinality(Holders(e)) + 1
    BY <2>1, HoldersFinite, FS_AddElement
  <2>3. row[e].slot = "now" /\ ~row[e].published
    BY <1>1, <1>4 DEF Claimable
  <2>4. row'[e].attempts = row[e].attempts + 1 /\ row[e].attempts \in Nat
    BY <1>1, <1>4, OutboxAssumption DEF IInv, TypeOK, Rows
  <2>5. faults \in Nat
    BY OutboxAssumption DEF IInv, TypeOK
  <2>6. QED
    BY <1>2, <2>2, <2>3, <2>4, <2>5, HoldersFinite DEF AttemptsOf
<1>5. QED
  BY <1>3, <1>4

\* A fault wastes at most one attempt of an event.
LEMMA FaultCounts ==
  ASSUME IInv, NEW d \in Drains, NEW e \in Events, AttemptsOf(e),
         claimed' = [claimed EXCEPT ![d] = {}], faults' = faults + 1, row' = row
  PROVE  AttemptsOf(e)'
<1>1. Holders(e)' = Holders(e) \ {d}
  BY DEF Holders, IInv, TypeOK
<1>2. /\ Cardinality(Holders(e)') \in Nat
      /\ Cardinality(Holders(e)') + 1 >= Cardinality(Holders(e))
  <2>1. /\ IsFiniteSet(Holders(e) \ {d})
        /\ Cardinality(Holders(e) \ {d}) =
             IF d \in Holders(e) THEN Cardinality(Holders(e)) - 1 ELSE Cardinality(Holders(e))
    BY HoldersFinite, FS_RemoveElement
  <2>2. Cardinality(Holders(e) \ {d}) \in Nat
    BY <2>1, FS_CardinalityType
  <2>3. QED
    BY <1>1, <2>1, <2>2, HoldersFinite
<1>3. faults \in Nat /\ row[e].attempts \in Nat
  BY OutboxAssumption DEF IInv, TypeOK, Rows
<1>4. QED
  BY <1>2, <1>3, HoldersFinite DEF AttemptsOf

\* Publishing and burying settle one event and leave the others to their holders.
LEMMA SettleCounts ==
  ASSUME IInv, NEW d \in Drains, NEW f \in Events, Publish(d, f) \/ Bury(d, f),
         NEW e \in Events, AttemptsOf(e)
  PROVE  AttemptsOf(e)'
<1>1. claimed' = [claimed EXCEPT ![d] = claimed[d] \ {f}] /\ faults' = faults
  BY DEF Publish, Bury, IInv, TypeOK
<1>2. CASE e = f
  <2>1. row \in [Events -> Rows]
    BY DEF IInv, TypeOK
  <2>2. CASE row[e].published
    <3>1. row'[e] = row[e]
      BY <1>2, <2>1, <2>2 DEF Publish, Bury, Open
    <3>2. QED
      BY <2>2, <3>1 DEF AttemptsOf
  <2>3. CASE ~row[e].published
    <3>1. \/ row'[e] = [row[e] EXCEPT !.published = TRUE, !.error = FALSE]
          \/ row'[e] = [row[e] EXCEPT !.slot = "dead", !.error = TRUE]
      BY <1>2, <2>1, <2>3 DEF Publish, Bury, Open
    <3>2. row'[e].published \/ row'[e].slot = "dead"
      BY <2>1, <3>1 DEF Rows
    <3>3. QED
      BY <3>2 DEF AttemptsOf
  <2>4. QED
    BY <2>2, <2>3
<1>3. CASE e # f
  <2>1. row'[e] = row[e]
    BY <1>3 DEF Publish, Bury, IInv, TypeOK
  <2>2. \A u \in Drains : e \in claimed'[u] <=> e \in claimed[u]
    BY <1>1, <1>3 DEF IInv, TypeOK
  <2>3. QED
    BY <1>1, <2>1, <2>2, Untouched
<1>4. QED
  BY <1>2, <1>3

\* An event enters the queue, or enters it again, with no attempt.
LEMMA QueueCounts ==
  ASSUME IInv, NEW f \in Events, Emit(f) \/ Redrive(f), NEW e \in Events, AttemptsOf(e)
  PROVE  AttemptsOf(e)'
<1>1. claimed' = claimed /\ faults' = faults /\ faults \in Nat
  BY OutboxAssumption DEF Emit, Redrive, IInv, TypeOK
<1>2. CASE e # f
  <2>1. row'[e] = row[e]
    BY <1>2 DEF Emit, Redrive, IInv, TypeOK
  <2>2. QED
    BY <1>1, <2>1, Untouched
<1>3. CASE e = f
  <2>1. Holders(e)' = Holders(e)
    BY <1>1 DEF Holders
  <2>2. CASE Emit(f)
    <3>1. /\ row[e].slot = "absent" /\ row'[e].attempts = row[e].attempts
          /\ row'[e].published = row[e].published
      BY <1>3, <2>2 DEF Emit, IInv, TypeOK, Rows
    <3>2. QED
      BY <1>1, <2>1, <3>1 DEF AttemptsOf
  <2>3. CASE Redrive(f)
    <3>1. row'[e].attempts = 0
      BY <1>3, <2>3 DEF Redrive, IInv, TypeOK, Rows
    <3>2. QED
      BY <1>1, <2>1, <3>1, HoldersFinite DEF AttemptsOf
  <2>4. QED
    BY <2>2, <2>3
<1>4. QED
  BY <1>2, <1>3

LEMMA AttemptsStayCounted ==
  IInv /\ AttemptsCounted /\ [Next]_vars => AttemptsCounted'
<1>1. SUFFICES ASSUME IInv, AttemptsCounted, [Next]_vars, NEW e \in Events
               PROVE  AttemptsOf(e)'
  BY DEF AttemptsCounted
<1>2. AttemptsOf(e)
  BY <1>1 DEF AttemptsCounted
<1>3. ASSUME NEW d \in Drains, Claim(d) PROVE AttemptsOf(e)'
  BY <1>1, <1>2, <1>3, ClaimCounts
<1>4. ASSUME NEW d \in Drains, Fail(d) \/ Restart(d) PROVE AttemptsOf(e)'
  <2>1. claimed' = [claimed EXCEPT ![d] = {}] /\ faults' = faults + 1 /\ row' = row
    BY <1>4 DEF Fail, Restart
  <2>2. QED
    BY <1>1, <1>2, <2>1, FaultCounts
<1>5. ASSUME NEW d \in Drains, NEW f \in Events, Publish(d, f) \/ Bury(d, f)
      PROVE  AttemptsOf(e)'
  BY <1>1, <1>2, <1>5, SettleCounts
<1>6. ASSUME NEW f \in Events, Emit(f) \/ Redrive(f) PROVE AttemptsOf(e)'
  BY <1>1, <1>2, <1>6, QueueCounts
<1>7. CASE UpgradeApi \/ (\E d \in Drains : Handoff(d)) \/ UNCHANGED vars
  <2>1. row' = row /\ claimed' = claimed /\ faults' = faults
    BY <1>7 DEF UpgradeApi, Handoff, vars
  <2>2. QED
    BY <1>2, <2>1, Untouched
<1>8. QED
  BY <1>1, <1>3, <1>4, <1>5, <1>6, <1>7 DEF Next

-----------------------------------------------------------------------------
(* Theorems *)

\* The invariant holds in every reachable state.
LEMMA Invariance == Spec => []IInv
BY InitHolds, NextStep, PTL DEF Spec

\* The tables and the drains keep their types: attempts never passes its maximum.
THEOREM TypeCorrect == Spec => []TypeOK
<1>1. IInv => TypeOK
  BY DEF IInv
<1>2. QED
  BY <1>1, Invariance, PTL

(***************************************************************************)
(* Nothing is handed off that no worker's release passes, and nothing is   *)
(* handed off before its row is published.                                 *)
(***************************************************************************)
THEOREM HandoffsVouched == Spec => []HandoffsAreVouched
<1>1. IInv => HandoffsAreVouched
  BY DEF IInv
<1>2. QED
  BY <1>1, Invariance, PTL

\* A published row is final: drains that claimed it earlier, and redrives, miss it.
THEOREM PublishedStaysPublished == Spec => PublishedIsFinal
<1>1. IInv /\ [Next]_vars
        => [\A e \in Events : row[e].published => row'[e] = row[e]]_vars
  <2>1. SUFFICES ASSUME IInv, Next, NEW e \in Events, row[e].published
                 PROVE  row'[e] = row[e]
    BY DEF vars
  <2>2. ASSUME NEW f \in Events, Emit(f) PROVE row'[e] = row[e]
    BY <2>1, <2>2 DEF Emit, IInv, TypeOK, Rows, AbsentRowsIdle
  <2>3. ASSUME NEW f \in Events, Redrive(f) PROVE row'[e] = row[e]
    BY <2>1, <2>3 DEF Redrive, Open, IInv, TypeOK, Rows
  <2>4. ASSUME NEW d \in Drains, Claim(d) PROVE row'[e] = row[e]
    BY <2>1, <2>4 DEF Claim, Claimable, IInv, TypeOK, Rows
  <2>5. ASSUME NEW d \in Drains, NEW f \in Events, Publish(d, f) PROVE row'[e] = row[e]
    BY <2>1, <2>5 DEF Publish, Open, IInv, TypeOK, Rows
  <2>6. ASSUME NEW d \in Drains, NEW f \in Events, Bury(d, f) PROVE row'[e] = row[e]
    BY <2>1, <2>6 DEF Bury, Open, IInv, TypeOK, Rows
  <2>7. ASSUME NEW d \in Drains, Handoff(d) \/ Fail(d) \/ Restart(d) \/ UpgradeApi
        PROVE  row'[e] = row[e]
    BY <2>7 DEF Handoff, Fail, Restart, UpgradeApi
  <2>8. UpgradeApi => row'[e] = row[e]
    BY DEF UpgradeApi
  <2>9. QED
    BY <2>1, <2>2, <2>3, <2>4, <2>5, <2>6, <2>7, <2>8 DEF Next
<1>2. QED
  BY <1>1, Invariance, PTL DEF Spec, PublishedIsFinal

(***************************************************************************)
(* An event gets stranded only by as many faults as it has attempts: with  *)
(* nobody holding it, all of its attempts were wasted by faults.           *)
(***************************************************************************)
THEOREM FaultsAloneStrand == Spec => []OnlyFaultsStrand
<1>1. Init => AttemptsCounted
  BY OutboxAssumption, HoldersFinite DEF Init, AttemptsCounted, AttemptsOf
<1>2. IInv /\ AttemptsCounted => OnlyFaultsStrand
  <2>1. SUFFICES ASSUME IInv, AttemptsCounted, NEW e \in Events, Stranded(e)
                 PROVE  faults >= MaxAttempts
    BY DEF OnlyFaultsStrand
  <2>2. Holders(e) = {}
    BY <2>1 DEF Stranded, Holders
  <2>3. MaxAttempts <= faults + 0
    BY <2>1, <2>2, FS_EmptySet DEF AttemptsCounted, AttemptsOf, Stranded
  <2>4. QED
    BY <2>1, <2>3, OutboxAssumption DEF IInv, TypeOK
<1>3. QED
  BY <1>1, <1>2, Invariance, AttemptsStayCounted, PTL DEF Spec

=============================================================================
