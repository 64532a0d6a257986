-------------------------- MODULE Components_proofs --------------------------
(***************************************************************************)
(* Theorems about the components of Components, for all values of the      *)
(* constants: each component's inductive invariant by itself, and at the   *)
(* end what follows for them side by side.                                 *)
(***************************************************************************)
EXTENDS Components, Ingestion_proofs, FiniteSetTheorems, SequenceTheorems, TLAPS

-----------------------------------------------------------------------------
(* Delivery callbacks *)

(***************************************************************************)
(* A report that met another one goes on meeting it: no row is removed, so *)
(* a conflict cannot turn into agreement by a later insert.                *)
(***************************************************************************)
MetStays ==
  \A r \in Requests :
    reported[r].pc \in {"select", "DUPLICATE", "CONFLICT"} =>
      Callbacks!ConflictsWith(reported[r].report) # {}

\* Only reports that were assessed get to the store.
OnlyAssessed ==
  \A r \in Requests : Callbacks!At(r, "insert") => Callbacks!Assessed(reported[r].report)

\* The inductive invariant.
CallbacksInv == Callbacks!TypeOK /\ OnlyAssessed /\ MetStays /\ Callbacks!OneOutcomePerEvent

-----------------------------------------------------------------------------
(* One lemma per action *)

LEMMA CallbackReceiveStep ==
  ASSUME CallbacksInv, NEW r \in Requests, Callbacks!Receive(r)
  PROVE  CallbacksInv'
<1>1. PICK report \in Reports :
        reported' = [reported EXCEPT ![r] =
          [pc |-> IF Callbacks!Assessed(report) THEN "insert" ELSE "refused", report |-> report]]
  BY DEF Callbacks!Receive
<1>2. callbacks' = callbacks
  BY DEF Callbacks!Receive
<1>3. Callbacks!TypeOK'
  BY <1>1, <1>2 DEF CallbacksInv, Callbacks!TypeOK
<1>4. /\ \A s \in Requests \ {r} : reported'[s] = reported[s]
      /\ reported'[r].pc \in {"insert", "refused"}
  BY <1>1 DEF CallbacksInv, Callbacks!TypeOK
<1>5. MetStays'
  BY <1>2, <1>4 DEF CallbacksInv, MetStays, Callbacks!ConflictsWith
<1>6. Callbacks!OneOutcomePerEvent'
  BY <1>2, <1>4
     DEF CallbacksInv, Callbacks!OneOutcomePerEvent, Callbacks!Accepted, Callbacks!At,
         Callbacks!Row
<1>7. OnlyAssessed'
  BY <1>1, <1>4
     DEF CallbacksInv, Callbacks!TypeOK, OnlyAssessed, Callbacks!Assessed, Callbacks!At
<1>8. QED
  BY <1>3, <1>5, <1>6, <1>7 DEF CallbacksInv

LEMMA CallbackInsertStep ==
  ASSUME Callbacks!CallbackAssumption, CallbacksInv, NEW r \in Requests, Callbacks!Insert(r)
  PROVE  CallbacksInv'
<1> DEFINE report == reported[r].report
<1>1. /\ reported[r].pc = "insert"
      /\ reported[r] \in [pc: {"insert", "select", "CREATED", "DUPLICATE", "CONFLICT"}, report: Reports]
  BY DEF Callbacks!Insert, Callbacks!At, CallbacksInv, Callbacks!TypeOK, Callbacks!Unsent
<1>2. \A s \in Requests \ {r} : reported'[s] = reported[s]
  BY DEF Callbacks!Insert, Callbacks!Go, CallbacksInv, Callbacks!TypeOK
<1>3. CASE Callbacks!ConflictsWith(report) = {}
  <2>1. /\ callbacks' = callbacks \cup {Callbacks!Row(report)}
        /\ reported' = [reported EXCEPT ![r].pc = "CREATED"]
    BY <1>3 DEF Callbacks!Insert, Callbacks!Go
  <2>2. reported'[r] = [pc |-> "CREATED", report |-> report]
    BY <1>1, <2>1 DEF CallbacksInv, Callbacks!TypeOK
  <2>3. \A row \in callbacks : row.event # report.event
    BY <1>3 DEF Callbacks!ConflictsWith
  <2>4. Callbacks!Row(report).event = report.event
    BY DEF Callbacks!Row
  <2>5. Callbacks!TypeOK'
    <3>1. Callbacks!Row(report) \in [event: EventIds, template: Approved, status: Callbacks!Statuses]
      <4>1. report \in Reports /\ report.template \in Approved
        BY <1>1 DEF CallbacksInv, OnlyAssessed, Callbacks!Assessed, Callbacks!At
      <4>2. QED
        BY <4>1 DEF Callbacks!Row, Callbacks!CallbackAssumption
    <3>2. QED
      BY <1>1, <2>1, <2>2, <3>1 DEF CallbacksInv, Callbacks!TypeOK
  <2>6. MetStays'
    BY <1>2, <2>1, <2>2 DEF CallbacksInv, MetStays, Callbacks!ConflictsWith
  <2>7. Callbacks!OneOutcomePerEvent'
    <3>1. \A row, other \in callbacks' : row.event = other.event => row = other
      BY <2>1, <2>3, <2>4 DEF CallbacksInv, Callbacks!OneOutcomePerEvent
    <3>2. \A s \in Requests : Callbacks!Accepted(s)' => (Callbacks!Row(reported[s].report) \in callbacks)'
      BY <1>2, <2>1, <2>2
         DEF CallbacksInv, Callbacks!OneOutcomePerEvent, Callbacks!Accepted, Callbacks!Row
    <3>3. \A s \in Requests \ {r} :
            Callbacks!At(s, "CREATED") => reported[s].report.event # report.event
      BY <2>3
         DEF CallbacksInv, Callbacks!OneOutcomePerEvent, Callbacks!Accepted, Callbacks!At,
             Callbacks!Row
    <3>4. \A s, t \in Requests :
            Callbacks!At(s, "CREATED")' /\ Callbacks!At(t, "CREATED")'
              /\ reported'[s].report.event = reported'[t].report.event => s = t
      BY <1>2, <2>2, <3>3 DEF CallbacksInv, Callbacks!OneOutcomePerEvent, Callbacks!At
    <3>5. \A s \in Requests :
            Callbacks!At(s, "CONFLICT")' => (Callbacks!Row(reported[s].report) \notin callbacks)'
      <4>1. \A s \in Requests \ {r} :
              Callbacks!At(s, "CONFLICT") =>
                /\ Callbacks!Row(reported[s].report) \notin callbacks
                /\ reported[s].report.event # report.event
        BY <2>3
           DEF CallbacksInv, Callbacks!OneOutcomePerEvent, MetStays,
               Callbacks!ConflictsWith, Callbacks!At
      <4>2. QED
        BY <1>2, <2>1, <2>2, <4>1 DEF Callbacks!At, Callbacks!Row
    <3>6. QED
      BY <3>1, <3>2, <3>4, <3>5 DEF Callbacks!OneOutcomePerEvent
  <2>8. OnlyAssessed'
    BY <1>2, <2>2 DEF CallbacksInv, OnlyAssessed, Callbacks!Assessed, Callbacks!At
  <2>9. QED
    BY <2>5, <2>6, <2>7, <2>8 DEF CallbacksInv
<1>4. CASE Callbacks!ConflictsWith(report) # {}
  <2>1. callbacks' = callbacks /\ reported' = [reported EXCEPT ![r].pc = "select"]
    BY <1>4 DEF Callbacks!Insert, Callbacks!Go
  <2>2. reported'[r] = [pc |-> "select", report |-> report]
    BY <1>1, <2>1 DEF CallbacksInv, Callbacks!TypeOK
  <2>3. Callbacks!TypeOK'
    BY <1>1, <2>1, <2>2 DEF CallbacksInv, Callbacks!TypeOK
  <2>4. MetStays' /\ Callbacks!OneOutcomePerEvent'
    BY <1>2, <1>4, <2>1, <2>2
       DEF CallbacksInv, MetStays, Callbacks!ConflictsWith, Callbacks!OneOutcomePerEvent,
           Callbacks!Accepted, Callbacks!At, Callbacks!Row
  <2>5. OnlyAssessed'
    BY <1>2, <2>2 DEF CallbacksInv, OnlyAssessed, Callbacks!Assessed, Callbacks!At
  <2>6. QED
    BY <2>3, <2>4, <2>5 DEF CallbacksInv
<1>5. QED
  BY <1>3, <1>4

LEMMA CallbackSelectStep ==
  ASSUME CallbacksInv, NEW r \in Requests, Callbacks!Select(r)
  PROVE  CallbacksInv'
<1> DEFINE report == reported[r].report
           answer == IF Callbacks!Row(report) \in callbacks THEN "DUPLICATE" ELSE "CONFLICT"
<1>1. /\ reported[r].pc = "select"
      /\ reported[r] \in [pc: {"insert", "select", "CREATED", "DUPLICATE", "CONFLICT"}, report: Reports]
  BY DEF Callbacks!Select, Callbacks!At, CallbacksInv, Callbacks!TypeOK, Callbacks!Unsent
<1>2. callbacks' = callbacks /\ reported' = [reported EXCEPT ![r].pc = answer]
  BY DEF Callbacks!Select, Callbacks!Go
<1>3. /\ reported'[r] = [pc |-> answer, report |-> report]
      /\ \A s \in Requests \ {r} : reported'[s] = reported[s]
  BY <1>1, <1>2 DEF CallbacksInv, Callbacks!TypeOK
<1>4. Callbacks!TypeOK'
  BY <1>1, <1>2, <1>3 DEF CallbacksInv, Callbacks!TypeOK
<1>5. MetStays'
  BY <1>1, <1>2, <1>3 DEF CallbacksInv, MetStays, Callbacks!ConflictsWith
<1>6. Callbacks!OneOutcomePerEvent'
  BY <1>2, <1>3
     DEF CallbacksInv, Callbacks!OneOutcomePerEvent, Callbacks!Accepted, Callbacks!At,
         Callbacks!Row
<1>7. OnlyAssessed'
  BY <1>3 DEF CallbacksInv, OnlyAssessed, Callbacks!Assessed, Callbacks!At
<1>8. QED
  BY <1>4, <1>5, <1>6, <1>7 DEF CallbacksInv

LEMMA CallbackFailStep ==
  ASSUME CallbacksInv, NEW r \in Requests, Callbacks!Fail(r)
  PROVE  CallbacksInv'
<1>1. /\ reported[r].pc \in {"insert", "select", "CREATED"}
      /\ reported[r] \in [pc: {"insert", "select", "CREATED", "DUPLICATE", "CONFLICT"}, report: Reports]
  BY DEF Callbacks!Fail, Callbacks!At, CallbacksInv, Callbacks!TypeOK, Callbacks!Unsent
<1>2. callbacks' = callbacks /\ reported' = [reported EXCEPT ![r].pc = "failed"]
  BY DEF Callbacks!Fail, Callbacks!Go
<1>3. /\ reported'[r] = [pc |-> "failed", report |-> reported[r].report]
      /\ \A s \in Requests \ {r} : reported'[s] = reported[s]
  BY <1>1, <1>2 DEF CallbacksInv, Callbacks!TypeOK
<1>4. Callbacks!TypeOK'
  BY <1>1, <1>2, <1>3 DEF CallbacksInv, Callbacks!TypeOK
<1>5. MetStays' /\ Callbacks!OneOutcomePerEvent'
  BY <1>2, <1>3
     DEF CallbacksInv, MetStays, Callbacks!ConflictsWith, Callbacks!OneOutcomePerEvent,
         Callbacks!Accepted, Callbacks!At, Callbacks!Row
<1>6. OnlyAssessed'
  BY <1>3 DEF CallbacksInv, OnlyAssessed, Callbacks!Assessed, Callbacks!At
<1>7. QED
  BY <1>4, <1>5, <1>6 DEF CallbacksInv

-----------------------------------------------------------------------------

LEMMA CallbackInit == Callbacks!Init => CallbacksInv
BY DEF Callbacks!Init, CallbacksInv, Callbacks!TypeOK, OnlyAssessed, MetStays,
       Callbacks!OneOutcomePerEvent, Callbacks!Accepted, Callbacks!At, Callbacks!Unsent

LEMMA CallbackNext ==
  ASSUME Callbacks!CallbackAssumption
  PROVE  CallbacksInv /\ [Callbacks!Next]_(Callbacks!vars) => CallbacksInv'
<1>1. ASSUME CallbacksInv, Callbacks!Next PROVE CallbacksInv'
  <2>1. PICK r \in Requests :
          Callbacks!Receive(r) \/ Callbacks!Insert(r) \/ Callbacks!Select(r) \/ Callbacks!Fail(r)
    BY <1>1 DEF Callbacks!Next
  <2>2. QED
    BY <1>1, <2>1, CallbackReceiveStep, CallbackInsertStep, CallbackSelectStep, CallbackFailStep
<1>2. ASSUME CallbacksInv, UNCHANGED Callbacks!vars PROVE CallbacksInv'
  BY <1>2
     DEF Callbacks!vars, CallbacksInv, Callbacks!TypeOK, OnlyAssessed, Callbacks!Assessed,
         MetStays, Callbacks!ConflictsWith,
                 Callbacks!OneOutcomePerEvent,
           Callbacks!Accepted, Callbacks!At, Callbacks!Row
<1>3. QED
  BY <1>1, <1>2

LEMMA CallbackInvariance ==
  ASSUME Callbacks!CallbackAssumption
  PROVE  Callbacks!Spec => []CallbacksInv
<1>1. CallbacksInv /\ [Callbacks!Next]_(Callbacks!vars) => CallbacksInv'
  BY CallbackNext
<1>2. QED
  BY <1>1, CallbackInit, PTL DEF Callbacks!Spec

LEMMA CallbacksByThemselves ==
  ASSUME Callbacks!CallbackAssumption
  PROVE  Callbacks!Spec => [](Callbacks!TypeOK /\ Callbacks!OneOutcomePerEvent)
<1>1. CallbacksInv => Callbacks!TypeOK /\ Callbacks!OneOutcomePerEvent
  BY DEF CallbacksInv
<1>2. QED
  BY <1>1, CallbackInvariance, PTL

-----------------------------------------------------------------------------
(* The inductive invariant *)

\* From reading the ledger to the end, a run has the lock.
Inside == {"read", "next", "execute", "commit"}

LockHeld == \A r \in Runs : run[r].pc \in Inside => lock = r

\* What is still ahead of a run is as it was when the run read the ledger.
AheadIsKnown(r) ==
  run[r].pc \in {"next", "execute", "commit"} =>
    \A n \in 1..Files :
      n > run[r].at \/ (n = run[r].at /\ run[r].pc # "next") => run[r].known[n] = ledger[n]

\* A run executes a file of its release that the ledger does not have.
FileIsNew(r) ==
  run[r].pc \in {"execute", "commit"} =>
    run[r].at \in DOMAIN run[r].files /\ ledger[run[r].at] = Migrate!Nil

\* What a run has passed is applied as it is in its release.
BehindIsApplied(r) ==
  run[r].pc \in {"next", "execute", "commit"} =>
    \A n \in DOMAIN run[r].files :
      n < run[r].at \/ (n = run[r].at /\ run[r].pc = "next") => ledger[n] = run[r].files[n]

\* The ledger and the history agree, and no file is in the history twice.
HistoryOnce ==
  /\ \A i, j \in DOMAIN history : history[i][1] = history[j][1] => i = j
  /\ \A n \in 1..Files, c \in Contents :
       ledger[n] = c <=> \E i \in DOMAIN history : history[i] = <<n, c>>

\* A run that has not read the ledger has not looked at a file.
NothingPassed(r) == run[r].pc \in {"lock", "read"} => run[r].at = 0

RunKnows(r) == AheadIsKnown(r) /\ FileIsNew(r) /\ BehindIsApplied(r) /\ NothingPassed(r)

MigrationsInv == Migrate!TypeOK /\ LockHeld /\ (\A r \in Runs : RunKnows(r)) /\ HistoryOnce

LEMMA LedgerSuffices == MigrationsInv => Migrate!LedgerIsHistory
BY DEF MigrationsInv, RunKnows, FileIsNew, BehindIsApplied, HistoryOnce,
       Migrate!LedgerIsHistory

-----------------------------------------------------------------------------

\* A run in progress, for the provers.
LEMMA RunningFields ==
  ASSUME Migrate!TypeOK, NEW r \in Runs, run[r].pc # "idle"
  PROVE  run[r] \in Migrate!Running
BY DEF Migrate!TypeOK, Migrate!Idle

\* A step of one run that leaves the ledger and the history alone.
LEMMA MigrationQuietStep ==
  ASSUME MigrationsInv, ledger' = ledger, history' = history, NEW r \in Runs,
         \A s \in Runs \ {r} : run'[s] = run[s],
         \A s \in Runs \ {r} : run[s].pc \in Inside => lock' = lock,
         Migrate!TypeOK', run'[r].pc \in Inside => lock' = r, RunKnows(r)'
  PROVE  MigrationsInv'
<1>1. LockHeld'
  BY DEF MigrationsInv, LockHeld
<1>2. \A s \in Runs : RunKnows(s)'
  BY DEF MigrationsInv, RunKnows, NothingPassed, AheadIsKnown, FileIsNew, BehindIsApplied
<1>3. HistoryOnce'
  BY DEF MigrationsInv, HistoryOnce
<1>4. QED
  BY <1>1, <1>2, <1>3 DEF MigrationsInv

\* The end of a run, in whatever way it comes.
LEMMA MigrationEndStep ==
  ASSUME Migrate!MigrationsAssumption, MigrationsInv, NEW r \in Runs, Migrate!End(r),
         ledger' = ledger, history' = history
  PROVE  MigrationsInv'
<1>1. /\ run'[r] = Migrate!Idle
      /\ \A s \in Runs \ {r} : run'[s] = run[s]
      /\ lock' = IF lock = r THEN Migrate!Nil ELSE lock
  BY DEF Migrate!End, MigrationsInv, Migrate!TypeOK
<1>2. Migrate!TypeOK'
  BY <1>1 DEF Migrate!End, MigrationsInv, Migrate!TypeOK, Migrate!Running
<1>3. \A s \in Runs \ {r} : run[s].pc \in Inside => lock' = lock
  BY <1>1 DEF MigrationsInv, LockHeld
<1>4. RunKnows(r)'
  BY <1>1
     DEF RunKnows, NothingPassed, AheadIsKnown, FileIsNew, BehindIsApplied, Migrate!Idle
<1>5. QED
  BY <1>1, <1>2, <1>3, <1>4, MigrationQuietStep DEF Migrate!Idle, Inside

LEMMA MigrationStartStep ==
  ASSUME Migrate!MigrationsAssumption, MigrationsInv, NEW r \in Runs, Migrate!Start(r)
  PROVE  MigrationsInv'
<1>1. PICK files \in Releases :
        run' = [run EXCEPT ![r] =
          [pc |-> "lock", files |-> files, known |-> Migrate!Nothing, at |-> 0]]
  BY DEF Migrate!Start
<1> DEFINE q == [pc |-> "lock", files |-> files, known |-> Migrate!Nothing, at |-> 0]
<1>2. q \in Migrate!Running
  BY DEF Migrate!Running, Migrate!Nothing,
       Migrate!MigrationsAssumption
<1>3. /\ run'[r] = q
      /\ \A s \in Runs \ {r} : run'[s] = run[s]
      /\ ledger' = ledger /\ history' = history /\ lock' = lock
  BY <1>1 DEF Migrate!Start, MigrationsInv, Migrate!TypeOK
<1>4. Migrate!TypeOK'
  BY <1>1, <1>2, <1>3 DEF MigrationsInv, Migrate!TypeOK
<1>5. RunKnows(r)'
  BY <1>3 DEF RunKnows, NothingPassed, AheadIsKnown, FileIsNew, BehindIsApplied
<1>6. QED
  BY <1>3, <1>4, <1>5, MigrationQuietStep DEF Inside

LEMMA MigrationLockStep ==
  ASSUME Migrate!MigrationsAssumption, MigrationsInv, NEW r \in Runs, Migrate!Lock(r)
  PROVE  MigrationsInv'
<1>1. run[r].pc = "lock" /\ run[r] \in Migrate!Running
  BY RunningFields DEF Migrate!Lock, Migrate!At, MigrationsInv
<1>2. /\ run'[r] = [run[r] EXCEPT !.pc = "read"]
      /\ \A s \in Runs \ {r} : run'[s] = run[s]
      /\ ledger' = ledger /\ history' = history /\ lock' = r /\ lock = Migrate!Nil
  BY DEF Migrate!Lock, Migrate!LockFree, MigrationsInv, Migrate!TypeOK
<1>3. run'[r] \in Migrate!Running /\ run'[r].pc = "read" /\ run'[r].at = 0
  BY <1>1, <1>2 DEF Migrate!Running, MigrationsInv, RunKnows, NothingPassed
<1>4. Migrate!TypeOK'
  BY <1>2, <1>3 DEF MigrationsInv, Migrate!TypeOK, Migrate!Lock
<1>5. \A s \in Runs \ {r} : run[s].pc \notin Inside
  BY <1>2 DEF MigrationsInv, LockHeld, Migrate!MigrationsAssumption
<1>6. RunKnows(r)'
  BY <1>3 DEF RunKnows, NothingPassed, AheadIsKnown, FileIsNew, BehindIsApplied
<1>7. QED
  BY <1>2, <1>4, <1>5, <1>6, MigrationQuietStep

LEMMA MigrationReadStep ==
  ASSUME Migrate!MigrationsAssumption, MigrationsInv, NEW r \in Runs, Migrate!Read(r)
  PROVE  MigrationsInv'
<1>1. run[r].pc = "read" /\ run[r] \in Migrate!Running
  BY RunningFields DEF Migrate!Read, Migrate!At, MigrationsInv
<1>2. /\ run'[r] = [run[r] EXCEPT !.pc = "next", !.known = ledger]
      /\ \A s \in Runs \ {r} : run'[s] = run[s]
      /\ ledger' = ledger /\ history' = history /\ lock' = lock
  BY DEF Migrate!Read, MigrationsInv, Migrate!TypeOK
<1>3. /\ run'[r] \in Migrate!Running /\ run'[r].pc = "next"
      /\ run'[r].known = ledger
      /\ run'[r].at = run[r].at /\ run'[r].files = run[r].files
  BY <1>1, <1>2 DEF Migrate!Running, MigrationsInv, Migrate!TypeOK
<1>4. Migrate!TypeOK'
  BY <1>2, <1>3 DEF MigrationsInv, Migrate!TypeOK, Migrate!Read
<1>5. lock = r
  BY <1>1 DEF MigrationsInv, LockHeld, Inside
<1>6. run[r].at = 0
  BY <1>1 DEF MigrationsInv, RunKnows, NothingPassed
<1>7. DOMAIN run[r].files \subseteq 1..Files
  BY <1>1 DEF Migrate!MigrationsAssumption, Migrate!Running
<1>8. RunKnows(r)'
  BY <1>2, <1>3, <1>6, <1>7
     DEF RunKnows, NothingPassed, AheadIsKnown, FileIsNew, BehindIsApplied
<1>9. QED
  BY <1>2, <1>4, <1>5, <1>8, MigrationQuietStep

\* What a run is after it has looked at file n.
LEMMA PassedFields ==
  ASSUME NEW q \in Migrate!Running, NEW n \in 0..Files
  PROVE  /\ Migrate!Passed(q, n) \in Migrate!Running
         /\ Migrate!Passed(q, n).pc = IF q.known[n] = Migrate!Nil THEN "execute" ELSE "next"
         /\ Migrate!Passed(q, n).at = n
         /\ Migrate!Passed(q, n).files = q.files /\ Migrate!Passed(q, n).known = q.known
<1>1. CASE q.known[n] = Migrate!Nil
  BY <1>1 DEF Migrate!Running, Migrate!Passed
<1>2. CASE q.known[n] # Migrate!Nil
  BY <1>2 DEF Migrate!Running, Migrate!Passed
<1>3. QED
  BY <1>1, <1>2

LEMMA MigrationPassStep ==
  ASSUME Migrate!MigrationsAssumption, MigrationsInv, NEW r \in Runs, Migrate!At(r, "next"),
         NEW n \in Migrate!Left(run[r]), \A m \in Migrate!Left(run[r]) : n <= m,
         ~Migrate!Changed(run[r], n), run' = [run EXCEPT ![r] = Migrate!Passed(run[r], n)],
         ledger' = ledger, history' = history, lock' = lock
  PROVE  MigrationsInv'
<1> DEFINE q == run[r]
<1>1. q.pc = "next" /\ q \in Migrate!Running
  BY RunningFields DEF Migrate!At, MigrationsInv
<1>2. /\ run'[r] = Migrate!Passed(q, n)
      /\ \A s \in Runs \ {r} : run'[s] = run[s]
  BY DEF MigrationsInv, Migrate!TypeOK
<1>3. /\ n \in DOMAIN q.files /\ n > q.at /\ n \in 1..Files
      /\ DOMAIN q.files \subseteq 1..Files /\ q.at \in 0..Files /\ n \in 0..Files
  BY <1>1 DEF Migrate!Left, Migrate!MigrationsAssumption, Migrate!Running
<1>4. /\ run'[r] \in Migrate!Running
      /\ run'[r].pc = IF q.known[n] = Migrate!Nil THEN "execute" ELSE "next"
      /\ run'[r].at = n /\ run'[r].files = q.files /\ run'[r].known = q.known
  BY <1>1, <1>2, <1>3, PassedFields
<1>5. Migrate!TypeOK'
  BY <1>4 DEF MigrationsInv, Migrate!TypeOK
<1>6. lock' = r
  BY <1>1 DEF MigrationsInv, LockHeld, Inside
<1>7. \A m \in 1..Files : m > q.at => q.known[m] = ledger[m]
  BY <1>1 DEF MigrationsInv, RunKnows, AheadIsKnown
<1>8. \A m \in DOMAIN q.files : m <= q.at => ledger[m] = q.files[m]
  BY <1>1
     DEF MigrationsInv, RunKnows, BehindIsApplied, Migrate!Running,
         Migrate!MigrationsAssumption
<1>9. AheadIsKnown(r)'
  <2>1. Files \in Nat
    BY DEF Migrate!MigrationsAssumption
  <2>2. \A m \in 1..Files : m > n \/ m = n => m > q.at
    BY <1>3, <2>1
  <2>3. \A m \in 1..Files : m > n \/ m = n => q.known[m] = ledger[m]
    BY <1>7, <2>2
  <2>4. QED
    BY <1>4, <2>3 DEF AheadIsKnown
<1>10. FileIsNew(r)'
  BY <1>3, <1>4, <1>7 DEF FileIsNew
<1>11. \A m \in DOMAIN q.files : m < n => m <= q.at
  BY <1>1, <1>3 DEF Migrate!Left, Migrate!Running, Migrate!MigrationsAssumption
<1>12. q.known[n] # Migrate!Nil => ledger[n] = q.files[n]
  BY <1>3, <1>7 DEF Migrate!Changed
<1>13. BehindIsApplied(r)'
  BY <1>3, <1>4, <1>8, <1>11, <1>12 DEF BehindIsApplied
<1>14. RunKnows(r)'
  BY <1>3, <1>4, <1>9, <1>10, <1>13 DEF RunKnows, NothingPassed
<1>15. QED
  BY <1>2, <1>5, <1>6, <1>14, MigrationQuietStep

LEMMA MigrationFileStep ==
  ASSUME Migrate!MigrationsAssumption, MigrationsInv, NEW r \in Runs, Migrate!NextFile(r)
  PROVE  MigrationsInv'
<1>1. CASE Migrate!End(r)
  BY <1>1, MigrationEndStep DEF Migrate!NextFile
<1>2. CASE ~Migrate!End(r)
  <2>1. PICK n \in Migrate!Left(run[r]) :
          /\ \A m \in Migrate!Left(run[r]) : n <= m
          /\ ~Migrate!Changed(run[r], n)
          /\ run' = [run EXCEPT ![r] = Migrate!Passed(run[r], n)]
          /\ UNCHANGED lock
    BY <1>2 DEF Migrate!NextFile
  <2>2. Migrate!At(r, "next") /\ ledger' = ledger /\ history' = history /\ lock' = lock
    BY <2>1 DEF Migrate!NextFile
  <2>3. QED
    BY <2>1, <2>2, MigrationPassStep
<1>3. QED
  BY <1>1, <1>2

LEMMA MigrationExecuteStep ==
  ASSUME Migrate!MigrationsAssumption, MigrationsInv, NEW r \in Runs, Migrate!Execute(r)
  PROVE  MigrationsInv'
<1>1. run[r].pc = "execute" /\ run[r] \in Migrate!Running
  BY RunningFields DEF Migrate!Execute, Migrate!At, MigrationsInv
<1>2. /\ run'[r] = [run[r] EXCEPT !.pc = "commit"]
      /\ \A s \in Runs \ {r} : run'[s] = run[s]
      /\ ledger' = ledger /\ history' = history /\ lock' = lock
  BY DEF Migrate!Execute, MigrationsInv, Migrate!TypeOK
<1>3. /\ run'[r] \in Migrate!Running /\ run'[r].pc = "commit"
      /\ run'[r].known = run[r].known
      /\ run'[r].at = run[r].at /\ run'[r].files = run[r].files
  BY <1>1, <1>2 DEF Migrate!Running
<1>4. Migrate!TypeOK'
  BY <1>2, <1>3 DEF MigrationsInv, Migrate!TypeOK, Migrate!Execute
<1>5. lock = r
  BY <1>1 DEF MigrationsInv, LockHeld, Inside
<1>6. RunKnows(r)'
  BY <1>1, <1>2, <1>3
     DEF MigrationsInv, RunKnows, NothingPassed, AheadIsKnown, FileIsNew, BehindIsApplied
<1>7. QED
  BY <1>2, <1>4, <1>5, <1>6, MigrationQuietStep

LEMMA MigrationCommitStep ==
  ASSUME Migrate!MigrationsAssumption, MigrationsInv, NEW r \in Runs, Migrate!CommitFile(r)
  PROVE  MigrationsInv'
<1> DEFINE q == run[r]
           c == q.files[q.at]
           h == Append(history, <<q.at, c>>)
<1>1. q.pc = "commit" /\ q \in Migrate!Running
  BY RunningFields DEF Migrate!CommitFile, Migrate!At, MigrationsInv
<1>2. /\ run'[r] = [q EXCEPT !.pc = "next"]
      /\ \A s \in Runs \ {r} : run'[s] = run[s]
      /\ ledger' = [ledger EXCEPT ![q.at] = c]
      /\ history' = h
      /\ lock' = lock
  BY DEF Migrate!CommitFile, Migrate!Checksum, MigrationsInv, Migrate!TypeOK
<1>3. /\ q.at \in DOMAIN q.files /\ ledger[q.at] = Migrate!Nil
      /\ q.at \in 1..Files /\ c \in Contents /\ c # Migrate!Nil
  BY <1>1
     DEF MigrationsInv, RunKnows, FileIsNew, Migrate!Running, Migrate!MigrationsAssumption
<1>4. /\ run'[r] \in Migrate!Running /\ run'[r].pc = "next"
      /\ run'[r].known = q.known
      /\ run'[r].at = q.at /\ run'[r].files = q.files
  BY <1>1, <1>2 DEF Migrate!Running
<1>5. lock = r
  BY <1>1 DEF MigrationsInv, LockHeld, Inside
<1>6. \A s \in Runs \ {r} : run'[s].pc \notin Inside
  BY <1>2, <1>5 DEF MigrationsInv, LockHeld
<1>7. /\ ledger'[q.at] = c
      /\ \A n \in (1..Files) \ {q.at} : ledger'[n] = ledger[n]
      /\ ledger' \in [1..Files -> Contents \cup {Migrate!Nil}]
  BY <1>2, <1>3 DEF MigrationsInv, Migrate!TypeOK
<1>8. /\ history \in Seq((1..Files) \X Contents)
      /\ h \in Seq((1..Files) \X Contents)
  BY <1>3 DEF MigrationsInv, Migrate!TypeOK
<1>9. Migrate!TypeOK'
  BY <1>2, <1>4, <1>7, <1>8 DEF MigrationsInv, Migrate!TypeOK, Migrate!CommitFile
<1>10. LockHeld'
  BY <1>2, <1>5, <1>6 DEF LockHeld
<1>11. RunKnows(r)'
  <2>1. AheadIsKnown(r)'
    BY <1>1, <1>4, <1>7
       DEF MigrationsInv, RunKnows, AheadIsKnown, Migrate!Running,
           Migrate!MigrationsAssumption
  <2>2. DOMAIN q.files \subseteq 1..Files
    BY <1>1 DEF Migrate!Running, Migrate!MigrationsAssumption
  <2>3. BehindIsApplied(r)'
    BY <1>1, <1>3, <1>4, <1>7, <2>2 DEF MigrationsInv, RunKnows, BehindIsApplied
  <2>4. QED
    BY <1>4, <2>1, <2>3 DEF RunKnows, FileIsNew, NothingPassed
<1>12. \A s \in Runs \ {r} : RunKnows(s)'
  BY <1>2, <1>6
     DEF MigrationsInv, RunKnows, NothingPassed, AheadIsKnown, FileIsNew, BehindIsApplied,
         Inside
<1>13. HistoryOnce'
  <2>1. /\ Len(history) \in Nat /\ DOMAIN history = 1..Len(history)
        /\ DOMAIN h = 1..(Len(history) + 1)
        /\ \A i \in DOMAIN history : h[i] = history[i]
        /\ h[Len(history) + 1] = <<q.at, c>>
    BY <1>8
  <2>2. \A i \in DOMAIN history : history[i] \in (1..Files) \X Contents
    BY <1>8
  <2>3. \A i \in DOMAIN history : history[i][1] # q.at
    <3>1. SUFFICES ASSUME NEW i \in DOMAIN history, history[i][1] = q.at
                   PROVE  FALSE
      OBVIOUS
    <3>2. PICK d \in Contents : history[i] = <<q.at, d>>
      BY <2>2, <3>1
    <3>3. ledger[q.at] = d
      BY <1>3, <3>2 DEF MigrationsInv, HistoryOnce
    <3>4. QED
      BY <1>3, <3>3 DEF Migrate!MigrationsAssumption
  <2> HIDE DEF h, c
  <2>4. \A i, j \in DOMAIN h : h[i][1] = h[j][1] => i = j
    BY <2>1, <2>3 DEF MigrationsInv, HistoryOnce
  <2>5. ASSUME NEW n \in 1..Files, NEW d \in Contents
        PROVE  ledger'[n] = d <=> \E i \in DOMAIN h : h[i] = <<n, d>>
    <3>1. CASE n = q.at
      <4>1. \A i \in DOMAIN history : h[i] # <<n, d>>
        BY <2>1, <2>3, <3>1
      <4>2. QED
        BY <1>7, <2>1, <3>1, <4>1
    <3>2. CASE n # q.at
      <4>1. (\E i \in DOMAIN h : h[i] = <<n, d>>) <=> \E i \in DOMAIN history : history[i] = <<n, d>>
        BY <2>1, <3>2
      <4>2. QED
        BY <1>7, <3>2, <4>1 DEF MigrationsInv, HistoryOnce
    <3>3. QED
      BY <3>1, <3>2
  <2>6. QED
    BY <1>2, <2>4, <2>5 DEF HistoryOnce
<1>14. QED
  BY <1>9, <1>10, <1>11, <1>12, <1>13 DEF MigrationsInv

-----------------------------------------------------------------------------

LEMMA MigrationInit == ASSUME Migrate!MigrationsAssumption, Migrate!Init PROVE MigrationsInv
BY DEF Migrate!Init, MigrationsInv, Migrate!TypeOK, LockHeld, RunKnows, NothingPassed,
       AheadIsKnown, FileIsNew,
       BehindIsApplied, HistoryOnce, Migrate!Idle, Inside, Migrate!Nothing,
       Migrate!MigrationsAssumption

LEMMA MigrationNext ==
  ASSUME Migrate!MigrationsAssumption, MigrationsInv, [Migrate!Next]_(Migrate!vars)
  PROVE  MigrationsInv'
<1>1. CASE UNCHANGED Migrate!vars
  BY <1>1
     DEF Migrate!vars, MigrationsInv, Migrate!TypeOK, LockHeld, RunKnows, NothingPassed,
         AheadIsKnown, FileIsNew,
              BehindIsApplied, HistoryOnce
<1>2. ASSUME NEW r \in Runs, Migrate!Start(r) \/ Migrate!Lock(r) \/ Migrate!Proceed(r) \/ Migrate!Fail(r)
      PROVE  MigrationsInv'
  BY <1>2, MigrationStartStep, MigrationLockStep, MigrationReadStep, MigrationFileStep,
     MigrationExecuteStep, MigrationCommitStep, MigrationEndStep
     DEF Migrate!Proceed, Migrate!Fail
<1>3. QED
  BY <1>1, <1>2 DEF Migrate!Next

(***************************************************************************)
(* Who works on the ledger has the lock and knows what the ledger says.    *)
(***************************************************************************)
LEMMA MigrationsByThemselves ==
  ASSUME Migrate!MigrationsAssumption
  PROVE  Migrate!Spec => [](Migrate!TypeOK /\ Migrate!LedgerIsHistory)
<1>1. Migrate!Init => MigrationsInv
  BY MigrationInit
<1>2. MigrationsInv /\ [Migrate!Next]_(Migrate!vars) => MigrationsInv'
  BY MigrationNext
<1>3. MigrationsInv => Migrate!TypeOK /\ Migrate!LedgerIsHistory
  BY LedgerSuffices DEF MigrationsInv
<1>4. QED
  BY <1>1, <1>2, <1>3, PTL DEF Migrate!Spec

-----------------------------------------------------------------------------
(* The rate limit *)

\* Nothing is in the future, and requests are kept in the order they passed in.
TimesInOrder(c) ==
  /\ \A i \in DOMAIN passed[c] : passed[c][i] <= now
  /\ \A i, j \in DOMAIN passed[c] : i <= j => passed[c][i] <= passed[c][j]

\* A client's window began with the first of the requests that are counted in it.
WindowHasFirst(c) ==
  LET n == Len(passed[c]) k == window[c].count
  IN /\ k <= n
     /\ k = 0 <=> n = 0
     /\ k # 0 => passed[c][n - k + 1] = window[c].start

(***************************************************************************)
(* The window before had room for `Limit` requests and was over when this  *)
(* one began: a request further back is a window's length away from it.    *)
(***************************************************************************)
EarlierWindowIsOver(c) ==
  \A i \in DOMAIN passed[c] :
    i <= Len(passed[c]) - window[c].count - Limit + 1 =>
      window[c].start - passed[c][i] >= WindowMs

\* Requests that are two limits apart are a window's length apart.
TwoLimitsApart(c) ==
  \A i, j \in DOMAIN passed[c] :
    j >= i + 2 * Limit - 1 => passed[c][j] - passed[c][i] >= WindowMs

RateInv ==
  /\ Limiter!TypeOK
  /\ \A c \in Clients :
       TimesInOrder(c) /\ WindowHasFirst(c) /\ EarlierWindowIsOver(c) /\ TwoLimitsApart(c)

\* The window and the requests of a client, for the provers.
LEMMA RateFields ==
  ASSUME Limiter!RateLimitAssumption, Limiter!TypeOK, NEW c \in Clients
  PROVE  /\ now \in Nat /\ window[c].start \in Nat /\ window[c].count \in 0..Limit
         /\ Len(passed[c]) \in Nat /\ DOMAIN passed[c] = 1..Len(passed[c])
         /\ \A i \in DOMAIN passed[c] : passed[c][i] \in Nat
         /\ Limit \in Nat /\ Limit > 0 /\ WindowMs \in Nat /\ WindowMs > 0
<1>1. passed[c] \in Seq(0..MaxTime) /\ MaxTime \in Nat /\ now \in 0..MaxTime
  BY DEF Limiter!RateLimitAssumption, Limiter!TypeOK
<1>2. window[c] \in [start: 0..MaxTime, count: 0..Limit]
  BY DEF Limiter!TypeOK
<1>3. QED
  BY <1>1, <1>2 DEF Limiter!RateLimitAssumption

LEMMA RateInit ==
  ASSUME Limiter!RateLimitAssumption, Limiter!Init
  PROVE  RateInv
<1>1. \A c \in Clients : /\ window[c] = [start |-> 0, count |-> 0]
                         /\ passed[c] = <<>> /\ Len(passed[c]) = 0
  BY DEF Limiter!Init
<1>2. Limiter!TypeOK
  BY DEF Limiter!Init, Limiter!TypeOK, Limiter!RateLimitAssumption
<1>3. QED
  BY <1>1, <1>2
     DEF RateInv, TimesInOrder, WindowHasFirst, EarlierWindowIsOver, TwoLimitsApart

LEMMA RateTickStep ==
  ASSUME Limiter!RateLimitAssumption, RateInv, Limiter!Tick
  PROVE  RateInv'
<1>1. now' = now + 1 /\ window' = window /\ passed' = passed
  BY DEF Limiter!Tick
<1>2. Limiter!TypeOK'
  BY <1>1 DEF RateInv, Limiter!TypeOK, Limiter!Tick, Limiter!RateLimitAssumption
<1>3. \A c \in Clients : TimesInOrder(c)'
  BY <1>1, RateFields DEF RateInv, TimesInOrder
<1>4. QED
  BY <1>1, <1>2, <1>3 DEF RateInv, WindowHasFirst, EarlierWindowIsOver, TwoLimitsApart

\* A request that passes, in a window that is over or in the one it is counted in.
LEMMA RatePostStep ==
  ASSUME Limiter!RateLimitAssumption, RateInv, NEW c \in Clients, Limiter!Post(c)
  PROVE  RateInv'
<1> DEFINE p == passed[c]
           n == Len(p)
           k == window[c].count
           s == window[c].start
           k2 == IF Limiter!Expired(c) THEN 1 ELSE k + 1
           s2 == Limiter!WindowStart(c)
<1>1. /\ now \in Nat /\ s \in Nat /\ k \in Nat /\ k <= Limit
      /\ n \in Nat /\ DOMAIN p = 1..n /\ \A i \in 1..n : p[i] \in Nat
      /\ Limit \in Nat /\ Limit > 0 /\ WindowMs \in Nat /\ WindowMs > 0
  BY RateFields DEF RateInv
<1>2. /\ p \in Seq(0..MaxTime) /\ now \in 0..MaxTime
      /\ window[c] \in [start: 0..MaxTime, count: 0..Limit]
  BY DEF RateInv, Limiter!TypeOK
<1>3. /\ now' = now
      /\ window' = [window EXCEPT ![c] = [start |-> s2, count |-> k2]]
      /\ passed' = [passed EXCEPT ![c] = Append(p, now)]
  BY DEF Limiter!Post, RateInv, Limiter!TypeOK
<1>4. /\ window'[c].start = s2 /\ window'[c].count = k2
      /\ passed'[c] = Append(p, now)
      /\ \A d \in Clients \ {c} : window'[d] = window[d] /\ passed'[d] = passed[d]
  BY <1>3 DEF RateInv, Limiter!TypeOK
<1>5. /\ Len(Append(p, now)) = n + 1 /\ DOMAIN Append(p, now) = 1..(n + 1)
      /\ \A i \in 1..n : Append(p, now)[i] = p[i]
      /\ Append(p, now)[n + 1] = now
      /\ Append(p, now) \in Seq(0..MaxTime)
  BY <1>2
<1>6. /\ \A i \in 1..n : p[i] <= now
      /\ \A i, j \in 1..n : i <= j => p[i] <= p[j]
  BY <1>1 DEF RateInv, TimesInOrder
<1>7. k <= n /\ (k = 0 <=> n = 0) /\ (k # 0 => p[n - k + 1] = s)
  BY DEF RateInv, WindowHasFirst
<1>8. \A i \in 1..n : i <= n - k - Limit + 1 => s - p[i] >= WindowMs
  BY <1>1 DEF RateInv, EarlierWindowIsOver
<1>9. \A i, j \in 1..n : j >= i + 2 * Limit - 1 => p[j] - p[i] >= WindowMs
  BY <1>1 DEF RateInv, TwoLimitsApart
<1>10. \/ k = 0 /\ n = 0 /\ k2 = 1 /\ s2 = now
       \/ k # 0 /\ now - s >= WindowMs /\ k2 = 1 /\ s2 = now
       \/ k # 0 /\ k < Limit /\ k2 = k + 1 /\ s2 = s
  BY <1>7 DEF Limiter!Post, Limiter!MayPass, Limiter!Expired, Limiter!WindowStart
<1>11. /\ window'[c] = [start |-> s2, count |-> k2] /\ k2 \in 0..Limit /\ s2 \in 0..MaxTime
  BY <1>1, <1>2, <1>3, <1>10 DEF RateInv, Limiter!TypeOK
<1>12. Limiter!TypeOK'
  BY <1>2, <1>3, <1>5, <1>11 DEF RateInv, Limiter!TypeOK
<1> HIDE DEF n, k, s, k2, s2, p
<1>13. TimesInOrder(c)'
  BY <1>1, <1>3, <1>4, <1>5, <1>6 DEF TimesInOrder
<1>14. WindowHasFirst(c)'
  <2>1. k2 <= n + 1 /\ k2 # 0 /\ n + 1 # 0
    BY <1>1, <1>7, <1>10
  <2>2. CASE k2 = 1 /\ s2 = now
    BY <1>1, <1>4, <1>5, <2>1, <2>2 DEF WindowHasFirst
  <2>3. CASE k # 0 /\ k2 = k + 1 /\ s2 = s
    <3>1. (n + 1) - k2 + 1 = n - k + 1 /\ n - k + 1 \in 1..n
      BY <1>1, <1>7, <2>3
    <3>2. Append(p, now)[(n + 1) - k2 + 1] = s2
      BY <1>5, <1>7, <2>3, <3>1
    <3>3. QED
      BY <1>4, <1>5, <2>1, <3>2 DEF WindowHasFirst
  <2>4. QED
    BY <1>10, <2>2, <2>3
<1>15. \A i \in 1..n : i <= (n + 1) - k2 - Limit + 1 => s2 - p[i] >= WindowMs
  <2>1. SUFFICES ASSUME NEW i \in 1..n, i <= (n + 1) - k2 - Limit + 1
                 PROVE  s2 - p[i] >= WindowMs
    OBVIOUS
  <2>2. CASE k # 0 /\ now - s >= WindowMs /\ k2 = 1 /\ s2 = now
    <3>1. n - k + 1 \in 1..n /\ i <= n - k + 1
      BY <1>1, <1>7, <2>1, <2>2
    <3>2. p[i] <= s
      BY <1>6, <1>7, <2>2, <3>1
    <3>3. QED
      BY <1>1, <2>2, <3>2
  <2>3. CASE k2 = k + 1 /\ s2 = s
    BY <1>1, <1>8, <2>1, <2>3
  <2>4. QED
    BY <1>1, <1>10, <2>2, <2>3
<1>16. \A i \in 1..n : n + 1 >= i + 2 * Limit - 1 => now - p[i] >= WindowMs
  <2>1. SUFFICES ASSUME NEW i \in 1..n, n + 1 >= i + 2 * Limit - 1
                 PROVE  now - p[i] >= WindowMs
    OBVIOUS
  <2>2. CASE k2 = 1 /\ s2 = now
    BY <1>1, <1>15, <2>1, <2>2
  <2>3. CASE k # 0 /\ k < Limit /\ k2 = k + 1 /\ s2 = s
    <3>1. i <= n - k - Limit + 1
      BY <1>1, <2>1, <2>3
    <3>2. n - k + 1 \in 1..n /\ s <= now
      BY <1>1, <1>6, <1>7, <2>3
    <3>3. QED
      BY <1>1, <1>8, <3>1, <3>2
  <2>4. QED
    BY <1>10, <2>2, <2>3
<1>17. EarlierWindowIsOver(c)'
  <2>1. \A i \in 1..(n + 1) : i <= (n + 1) - k2 - Limit + 1 => i \in 1..n
    BY <1>1, <1>10
  <2>2. QED
    BY <1>4, <1>5, <1>15, <2>1 DEF EarlierWindowIsOver
<1>18. TwoLimitsApart(c)'
  <2>1. ASSUME NEW i \in 1..(n + 1), NEW j \in 1..(n + 1), j >= i + 2 * Limit - 1
        PROVE  Append(p, now)[j] - Append(p, now)[i] >= WindowMs
    <3>1. i \in 1..n
      BY <1>1, <2>1
    <3>2. CASE j \in 1..n
      BY <1>5, <1>9, <2>1, <3>1, <3>2
    <3>3. CASE j = n + 1
      BY <1>5, <1>16, <2>1, <3>1, <3>3
    <3>4. QED
      BY <1>1, <3>2, <3>3
  <2>2. QED
    BY <1>4, <1>5, <2>1 DEF TwoLimitsApart
<1>19. \A d \in Clients \ {c} :
         (TimesInOrder(d) /\ WindowHasFirst(d) /\ EarlierWindowIsOver(d) /\ TwoLimitsApart(d))'
  BY <1>3, <1>4
     DEF RateInv, TimesInOrder, WindowHasFirst, EarlierWindowIsOver, TwoLimitsApart
<1>20. QED
  BY <1>12, <1>13, <1>14, <1>17, <1>18, <1>19 DEF RateInv

LEMMA RateNext ==
  ASSUME Limiter!RateLimitAssumption, RateInv, [Limiter!Next]_(Limiter!vars)
  PROVE  RateInv'
<1>1. CASE Limiter!Next
  BY <1>1, RateTickStep, RatePostStep DEF Limiter!Next
<1>2. CASE UNCHANGED Limiter!vars
  BY <1>2 DEF Limiter!vars, RateInv, Limiter!TypeOK, TimesInOrder, WindowHasFirst,
              EarlierWindowIsOver, TwoLimitsApart
<1>3. QED
  BY <1>1, <1>2

\* The Cardinality that RateLimit and Requirements extend is that of FiniteSets.
LEMMA OneCardinality ==
  ASSUME NEW S
  PROVE  Limiter!Cardinality(S) = Cardinality(S) /\ Form!Cardinality(S) = Cardinality(S)
BY DEF Limiter!Cardinality, Form!Cardinality, Cardinality

(***************************************************************************)
(* What the invariant says of numbers of requests: those within a window's *)
(* length of one are among the 2 * Limit - 1 that follow from it, and the  *)
(* requests of a full window are the last Limit ones.                      *)
(***************************************************************************)
LEMMA RateSuffices ==
  ASSUME Limiter!RateLimitAssumption, RateInv
  PROVE  Limiter!LimitHolds
<1>1. SUFFICES ASSUME NEW c \in Clients
      PROVE  /\ \A i \in DOMAIN passed[c] :
                  Cardinality({j \in i..Len(passed[c]) : passed[c][j] - passed[c][i] < WindowMs})
                    < 2 * Limit
             /\ ~Limiter!MayPass(c) =>
                  Cardinality({i \in DOMAIN passed[c] : now - passed[c][i] < WindowMs}) >= Limit
  BY OneCardinality DEF Limiter!LimitHolds
<1> DEFINE p == passed[c]
           n == Len(p)
           k == window[c].count
           s == window[c].start
<1>2. /\ now \in Nat /\ s \in Nat /\ k \in Nat /\ k <= Limit
      /\ n \in Nat /\ DOMAIN p = 1..n /\ \A i \in 1..n : p[i] \in Nat
      /\ Limit \in Nat /\ Limit > 0 /\ WindowMs \in Nat /\ WindowMs > 0
  BY RateFields DEF RateInv
<1>3. ASSUME NEW i \in DOMAIN p
      PROVE  Cardinality({j \in i..n : p[j] - p[i] < WindowMs}) < 2 * Limit
  <2> DEFINE S == {j \in i..n : p[j] - p[i] < WindowMs}
             T == i..(i + 2 * Limit - 2)
  <2>1. i \in 1..n /\ i \in Int /\ i + 2 * Limit - 2 \in Int /\ i <= i + 2 * Limit - 2
    BY <1>2, <1>3
  <2>2. IsFiniteSet(T) /\ Cardinality(T) = 2 * Limit - 1
    <3>1. (i + 2 * Limit - 2) - i + 1 = 2 * Limit - 1
      BY <1>2, <2>1
    <3>2. QED
      BY <2>1, <3>1, FS_Interval
  <2>3. \A j \in 1..n : j >= i + 2 * Limit - 1 => p[j] - p[i] >= WindowMs
    BY <1>2, <1>3 DEF RateInv, TwoLimitsApart
  <2>4. \A j \in i..n : j \in T \/ j >= i + 2 * Limit - 1
    BY <1>2, <2>1
  <2>5. \A j \in i..n : j \in 1..n /\ p[j] \in Nat /\ p[i] \in Nat
    BY <1>2, <2>1
  <2> HIDE DEF T, p, n
  <2>6. \A j \in i..n : p[j] - p[i] < WindowMs => j \in T
    BY <1>2, <2>3, <2>4, <2>5
  <2>7. S \in SUBSET T
    BY <2>6
  <2>8. Cardinality(S) <= Cardinality(T) /\ IsFiniteSet(S)
    BY <2>2, <2>7, FS_Subset
  <2>9. Cardinality(S) \in Nat
    BY <2>8, FS_CardinalityType
  <2>10. QED
    BY <1>2, <2>2, <2>8, <2>9
<1>4. ASSUME ~Limiter!MayPass(c)
      PROVE  Cardinality({i \in DOMAIN p : now - p[i] < WindowMs}) >= Limit
  <2> DEFINE S == {i \in DOMAIN p : now - p[i] < WindowMs}
             T == (n - k + 1)..n
  <2>1. k = Limit /\ k # 0 /\ now - s < WindowMs
    BY <1>2, <1>4 DEF Limiter!MayPass, Limiter!Expired
  <2>2. k <= n /\ p[n - k + 1] = s
    BY <2>1 DEF RateInv, WindowHasFirst
  <2>3. n - k + 1 \in 1..n
    BY <1>2, <2>1, <2>2
  <2>4. \A i \in T : i \in 1..n /\ n - k + 1 <= i
    BY <1>2, <2>3
  <2>5. \A i \in T : p[i] >= s
    BY <1>2, <2>2, <2>3, <2>4 DEF RateInv, TimesInOrder
  <2>6. T \in SUBSET S
    BY <1>2, <2>1, <2>4, <2>5
  <2>7. n - k + 1 \in Int /\ n \in Int /\ n - k + 1 <= n /\ n - (n - k + 1) + 1 = Limit
    BY <1>2, <2>1, <2>3
  <2>8. Cardinality(T) = Limit
    BY <2>7, FS_Interval
  <2>9. IsFiniteSet(1..n)
    <3>1. 1 \in Int /\ n \in Int
      BY <1>2
    <3>2. QED
      BY <3>1, FS_Interval
  <2>10. IsFiniteSet(S)
    BY <1>2, <2>9, FS_Subset
  <2>11. Cardinality(T) <= Cardinality(S)
    BY <2>6, <2>10, FS_Subset
  <2>12. QED
    BY <2>8, <2>11
<1>5. QED
  BY <1>3, <1>4

LEMMA RateByItself ==
  ASSUME Limiter!RateLimitAssumption
  PROVE  Limiter!Spec => [](Limiter!TypeOK /\ Limiter!LimitHolds)
<1>1. Limiter!Init => RateInv
  BY RateInit
<1>2. RateInv /\ [Limiter!Next]_(Limiter!vars) => RateInv'
  BY RateNext
<1>3. RateInv => Limiter!TypeOK /\ Limiter!LimitHolds
  BY RateSuffices DEF RateInv
<1>4. QED
  BY <1>1, <1>2, <1>3, PTL DEF Limiter!Spec

-----------------------------------------------------------------------------
(* Requirement forms *)

\* What is kept of a field was accepted for it.
ConfirmedMatch == \A n \in Names : confirmed[n] # Form!Nil => <<n, confirmed[n]>> \in Matches

\* The value that is kept of a name is one of those that people gave.
KeptIsHuman ==
  \A n \in Names :
    /\ confirmed[n] = Form!Nil <=> Form!HumanValues(fields, n) = {}
    /\ confirmed[n] # Form!Nil => confirmed[n] \in Form!HumanValues(fields, n)

\* Contradictions are names with two values, though only the last is compared.
DifferencesSeen ==
  \A n \in Names :
    n \in contradictions <=> \E v, w \in Form!HumanValues(fields, n) : v # w

FormInv ==
  /\ Form!TypeOK
  /\ ConfirmedMatch
  /\ ~refused =>
       /\ \A i \in DOMAIN fields : Form!Valid(fields[i])
       /\ KeptIsHuman
       /\ DifferencesSeen
       /\ evidence = Cardinality(Form!Extract(fields))

LEMMA FormInit == ASSUME Form!RequirementsAssumption, Form!Init PROVE FormInv
<1>1. /\ fields = <<>> /\ codes = <<>> /\ evidence = 0 /\ contradictions = {}
      /\ confirmed = [n \in Names |-> Form!Nil] /\ special = {} /\ refused = FALSE
  BY DEF Form!Init
<1>2. Form!TypeOK
  <2>1. fields \in Seq(Form!Fields) /\ codes \in Seq(Special \cup OtherCodes)
    BY <1>1
  <2>2. confirmed \in [Names -> Values \cup {Form!Nil}]
    BY <1>1
  <2>3. QED
    BY <1>1, <2>1, <2>2 DEF Form!TypeOK
<1>3. DOMAIN fields = {} /\ Form!Extract(fields) = {}
  BY <1>1 DEF Form!Extract
<1>4. \A n \in Names : Form!HumanValues(fields, n) = {}
  BY <1>3 DEF Form!HumanValues
<1>5. KeptIsHuman /\ DifferencesSeen /\ ConfirmedMatch
  BY <1>1, <1>4 DEF KeptIsHuman, DifferencesSeen, ConfirmedMatch
<1>6. evidence = Cardinality(Form!Extract(fields))
  BY <1>1, <1>3, FS_EmptySet
<1>7. QED
  BY <1>2, <1>3, <1>5, <1>6 DEF FormInv

\* What one more field adds to the values that people gave.
LEMMA HumanValuesGrow ==
  ASSUME NEW fs \in Seq(Form!Fields), NEW f \in Form!Fields, NEW n
  PROVE  Form!HumanValues(Append(fs, f), n) =
           IF f.source = "HUMAN" /\ f.name = n
           THEN Form!HumanValues(fs, n) \cup {f.value} ELSE Form!HumanValues(fs, n)
<1> DEFINE gs == Append(fs, f)
           m == Len(fs)
<1>1. /\ m \in Nat /\ DOMAIN fs = 1..m /\ DOMAIN gs = 1..(m + 1)
      /\ \A i \in DOMAIN fs : gs[i] = fs[i] /\ i \in DOMAIN gs
      /\ gs[m + 1] = f
      /\ \A i \in DOMAIN gs : i \in DOMAIN fs \/ i = m + 1
      /\ m + 1 \in DOMAIN gs
  OBVIOUS
<1> HIDE DEF gs, m
<1>2. \A v : v \in Form!HumanValues(gs, n) <=>
               \E i \in DOMAIN gs : gs[i].source = "HUMAN" /\ gs[i].name = n /\ gs[i].value = v
  BY DEF Form!HumanValues
<1>3. \A v : v \in Form!HumanValues(fs, n) <=>
               \E i \in DOMAIN fs : fs[i].source = "HUMAN" /\ fs[i].name = n /\ fs[i].value = v
  BY DEF Form!HumanValues
<1>4. CASE f.source = "HUMAN" /\ f.name = n
  <2>1. \A v : v \in Form!HumanValues(gs, n) <=> v \in Form!HumanValues(fs, n) \/ v = f.value
    BY <1>1, <1>2, <1>3, <1>4
  <2>2. Form!HumanValues(gs, n) = Form!HumanValues(fs, n) \cup {f.value}
    BY <2>1
  <2>3. QED
    BY <1>4, <2>2 DEF gs
<1>5. CASE ~(f.source = "HUMAN" /\ f.name = n)
  <2>1. \A v : v \in Form!HumanValues(gs, n) <=> v \in Form!HumanValues(fs, n)
    BY <1>1, <1>2, <1>3, <1>5
  <2>2. Form!HumanValues(gs, n) = Form!HumanValues(fs, n)
    BY <2>1
  <2>3. QED
    BY <1>5, <2>2 DEF gs
<1>6. QED
  BY <1>4, <1>5

\* What one more field adds to what the extractor lets through.
LEMMA ExtractGrows ==
  ASSUME NEW fs \in Seq(Form!Fields), NEW f
  PROVE  Cardinality(Form!Extract(Append(fs, f))) =
           Cardinality(Form!Extract(fs)) + IF Form!Extracted(f) THEN 1 ELSE 0
<1> DEFINE gs == Append(fs, f)
           m == Len(fs)
           S == Form!Extract(fs)
<1>1. /\ m \in Nat /\ DOMAIN fs = 1..m /\ DOMAIN gs = 1..(m + 1)
      /\ \A i \in DOMAIN fs : gs[i] = fs[i] /\ i \in DOMAIN gs
      /\ gs[m + 1] = f
      /\ \A i \in DOMAIN gs : i \in DOMAIN fs \/ i = m + 1
      /\ m + 1 \in DOMAIN gs /\ m + 1 \notin DOMAIN fs
  OBVIOUS
<1>2. IsFiniteSet(S) /\ Cardinality(S) \in Nat
  <2>1. 1 \in Int /\ m \in Int
    BY <1>1
  <2> HIDE DEF m
  <2>2. IsFiniteSet(1..m)
    BY <2>1, FS_Interval
  <2>3. S \in SUBSET (1..m)
    BY <1>1 DEF Form!Extract
  <2>4. IsFiniteSet(S)
    BY <2>2, <2>3, FS_Subset
  <2>5. QED
    BY <2>4, FS_CardinalityType
<1> HIDE DEF gs, m
<1>3. CASE Form!Extracted(f)
  <2>1. Form!Extract(gs) = S \cup {m + 1}
    BY <1>1, <1>3, Zenon DEF Form!Extract, S
  <2>2. m + 1 \notin S
    BY <1>1 DEF Form!Extract
  <2> HIDE DEF S
  <2>3. Cardinality(Form!Extract(gs)) = Cardinality(S) + 1
    BY <1>2, <2>1, <2>2, FS_AddElement
  <2>4. QED
    BY <1>3, <2>3 DEF gs, S
<1>4. CASE ~Form!Extracted(f)
  <2>1. Form!Extract(gs) = S
    BY <1>1, <1>4, Zenon DEF Form!Extract, S
  <2>2. QED
    BY <1>2, <1>4, <2>1 DEF gs, S
<1>5. QED
  BY <1>3, <1>4

\* Fields and names of a field that was accepted.
LEMMA ValidField ==
  ASSUME Form!RequirementsAssumption, NEW f \in Form!Fields, Form!Valid(f)
  PROVE  /\ f.name \in Names /\ f.value \in Values /\ <<f.name, f.value>> \in Matches
         /\ f.value # Form!Nil
BY DEF Form!RequirementsAssumption, Form!Fields, Form!Valid

\* A value of a person: the last one of its name is compared, and all count.
LEMMA FormConfirmStep ==
  ASSUME Form!RequirementsAssumption, FormInv, NEW f \in Form!Fields, ~refused,
         fields' = Append(fields, f), Form!Confirm(f), codes' = codes, special' = special
  PROVE  FormInv'
<1> DEFINE n == f.name
           v == f.value
<1>1. /\ f.source = "HUMAN" /\ Form!Valid(f) /\ n \in Names /\ v \in Values
      /\ <<n, v>> \in Matches /\ v # Form!Nil
  BY ValidField DEF Form!Confirm
<1>2. /\ confirmed' = [confirmed EXCEPT ![n] = v]
      /\ contradictions' =
           IF confirmed[n] \notin {Form!Nil, v} THEN contradictions \cup {n} ELSE contradictions
      /\ evidence' = evidence /\ refused' = refused
  BY DEF Form!Confirm
<1>3. fields \in Seq(Form!Fields) /\ confirmed \in [Names -> Values \cup {Form!Nil}]
  BY DEF FormInv, Form!TypeOK
<1>4. confirmed'[n] = v /\ \A o \in Names \ {n} : confirmed'[o] = confirmed[o]
  BY <1>1, <1>2, <1>3
<1>5. Form!TypeOK'
  BY <1>1, <1>2 DEF FormInv, Form!TypeOK
<1>6. /\ Form!HumanValues(fields', n) = Form!HumanValues(fields, n) \cup {v}
      /\ \A o \in Names \ {n} : Form!HumanValues(fields', o) = Form!HumanValues(fields, o)
  BY <1>1, <1>3, HumanValuesGrow
<1>7. ConfirmedMatch'
  BY <1>1, <1>4 DEF FormInv, ConfirmedMatch
<1>8. \A i \in DOMAIN fields' : Form!Valid(fields'[i])
  BY <1>1, <1>3 DEF FormInv
<1>9. KeptIsHuman /\ DifferencesSeen
  BY DEF FormInv
<1>10. KeptIsHuman'
  BY <1>1, <1>4, <1>6, <1>9 DEF KeptIsHuman
<1>11. DifferencesSeen'
  <2>1. \A o \in Names \ {n} :
          o \in contradictions' <=> \E x, y \in Form!HumanValues(fields', o) : x # y
    BY <1>2, <1>6, <1>9 DEF DifferencesSeen
  <2>2. n \in contradictions' <=> \E x, y \in Form!HumanValues(fields', n) : x # y
    <3>1. CASE confirmed[n] = Form!Nil
      BY <1>1, <1>2, <1>6, <1>9, <3>1 DEF KeptIsHuman, DifferencesSeen
    <3>2. CASE confirmed[n] # Form!Nil
      <4>1. confirmed[n] \in Form!HumanValues(fields, n)
        BY <1>1, <1>9, <3>2 DEF KeptIsHuman
      <4>2. n \in contradictions <=> \E x, y \in Form!HumanValues(fields, n) : x # y
        BY <1>1, <1>9 DEF DifferencesSeen
      <4>3. QED
        BY <1>2, <1>6, <3>2, <4>1, <4>2
    <3>3. QED
      BY <3>1, <3>2
  <2>3. QED
    BY <2>1, <2>2 DEF DifferencesSeen
<1>12. ~Form!Extracted(f)
  BY <1>1 DEF Form!Extracted
<1>13. evidence' = Cardinality(Form!Extract(fields'))
  BY <1>2, <1>3, <1>12, ExtractGrows DEF FormInv, Form!TypeOK
<1>14. QED
  BY <1>5, <1>7, <1>8, <1>10, <1>11, <1>13 DEF FormInv

\* Evidence: counted, and no value of a person.
LEMMA FormCountStep ==
  ASSUME Form!RequirementsAssumption, FormInv, NEW f \in Form!Fields, ~refused,
         fields' = Append(fields, f), Form!Count(f), codes' = codes, special' = special
  PROVE  FormInv'
<1>1. /\ f.source = "FAKE_MODEL" /\ Form!Valid(f) /\ f.source # "HUMAN"
      /\ evidence' = evidence + 1 /\ confirmed' = confirmed
      /\ contradictions' = contradictions /\ refused' = refused
  BY DEF Form!Count
<1>2. fields \in Seq(Form!Fields) /\ evidence \in Nat
  BY DEF FormInv, Form!TypeOK
<1>3. Form!TypeOK'
  BY <1>1 DEF FormInv, Form!TypeOK
<1>4. \A n \in Names : Form!HumanValues(fields', n) = Form!HumanValues(fields, n)
  BY <1>1, <1>2, HumanValuesGrow
<1>5. KeptIsHuman /\ DifferencesSeen /\ ConfirmedMatch
  BY DEF FormInv
<1>6. KeptIsHuman' /\ DifferencesSeen' /\ ConfirmedMatch'
  BY <1>1, <1>4, <1>5 DEF KeptIsHuman, DifferencesSeen, ConfirmedMatch
<1>7. \A i \in DOMAIN fields' : Form!Valid(fields'[i])
  BY <1>1, <1>2 DEF FormInv
<1>8. Form!Extracted(f)
  BY <1>1 DEF Form!Extracted
<1>9. evidence' = Cardinality(Form!Extract(fields'))
  BY <1>1, <1>2, <1>8, ExtractGrows DEF FormInv
<1>10. QED
  BY <1>3, <1>6, <1>7, <1>9 DEF FormInv

\* The first field or code that is refused ends the loop.
LEMMA FormRefuseStep ==
  ASSUME FormInv, refused' = TRUE, fields' \in Seq(Form!Fields),
         codes' \in Seq(Special \cup OtherCodes),
         UNCHANGED <<confirmed, contradictions, evidence, special>>
  PROVE  FormInv'
BY DEF FormInv, Form!TypeOK, ConfirmedMatch

LEMMA FormFieldStep ==
  ASSUME Form!RequirementsAssumption, FormInv, NEW f \in Form!Fields, Form!TakeField(f)
  PROVE  FormInv'
<1>1. /\ ~refused /\ fields' = Append(fields, f) /\ codes' = codes /\ special' = special
      /\ Form!Refuse(f) \/ Form!Count(f) \/ Form!Confirm(f)
  BY DEF Form!TakeField
<1>2. CASE Form!Refuse(f)
  <2>1. /\ refused' = TRUE /\ fields' \in Seq(Form!Fields)
        /\ codes' \in Seq(Special \cup OtherCodes)
        /\ UNCHANGED <<confirmed, contradictions, evidence, special>>
    BY <1>1, <1>2 DEF Form!Refuse, FormInv, Form!TypeOK
  <2>2. QED
    BY <2>1, FormRefuseStep
<1>3. QED
  BY <1>1, <1>2, FormCountStep, FormConfirmStep

LEMMA FormCodeStep ==
  ASSUME FormInv, NEW code \in Special \cup OtherCodes, Form!TakeCode(code)
  PROVE  FormInv'
<1>1. /\ fields' = fields /\ confirmed' = confirmed /\ contradictions' = contradictions
      /\ evidence' = evidence /\ ~refused /\ codes' = Append(codes, code)
  BY DEF Form!TakeCode
<1>2. codes' \in Seq(Special \cup OtherCodes)
  BY <1>1 DEF FormInv, Form!TypeOK
<1>3. CASE code \notin Special
  <2>1. refused' = TRUE /\ special' = special
    BY <1>3 DEF Form!TakeCode
  <2>2. fields' \in Seq(Form!Fields)
    BY <1>1 DEF FormInv, Form!TypeOK
  <2>3. QED
    BY <1>1, <1>2, <2>1, <2>2, FormRefuseStep
<1>4. CASE code \in Special
  <2>1. special' = special \cup {code} /\ refused' = refused
    BY <1>4 DEF Form!TakeCode
  <2>2. Form!TypeOK'
    BY <1>1, <1>2, <1>4, <2>1 DEF FormInv, Form!TypeOK
  <2>3. QED
    BY <1>1, <2>1, <2>2 DEF FormInv, ConfirmedMatch, KeptIsHuman, DifferencesSeen
<1>5. QED
  BY <1>3, <1>4

LEMMA FormNext ==
  ASSUME Form!RequirementsAssumption, FormInv, [Form!Next]_(Form!vars)
  PROVE  FormInv'
<1>1. CASE Form!Next
  BY <1>1, FormFieldStep, FormCodeStep DEF Form!Next
<1>2. CASE UNCHANGED Form!vars
  BY <1>2 DEF Form!vars, FormInv, Form!TypeOK, ConfirmedMatch, KeptIsHuman, DifferencesSeen
<1>3. QED
  BY <1>1, <1>2

\* The loop says what a reading of the whole form says.
LEMMA LoopSuffices ==
  ASSUME Form!RequirementsAssumption, FormInv
  PROVE  Form!LoopIsReference
<1>1. SUFFICES ASSUME ~refused PROVE Form!LoopIsReference
  BY DEF Form!LoopIsReference
<1>2. /\ \A i \in DOMAIN fields : Form!Valid(fields[i])
      /\ KeptIsHuman /\ DifferencesSeen
      /\ evidence = Form!Cardinality(Form!Extract(fields))
  BY <1>1, OneCardinality DEF FormInv
<1>3. Required \subseteq Names /\ contradictions \subseteq Names
  BY DEF FormInv, Form!TypeOK, Form!RequirementsAssumption
<1>4. Form!MissingFields = {} <=> \A n \in Required : Form!HumanValues(fields, n) # {}
  BY <1>2, <1>3 DEF KeptIsHuman, Form!MissingFields
<1>5. contradictions = {} <=> \A n \in Names : \A v, w \in Form!HumanValues(fields, n) : v = w
  BY <1>2, <1>3 DEF DifferencesSeen
<1>6. ASSUME NEW n \in Names, n \notin contradictions, confirmed[n] # Form!Nil
      PROVE  Form!HumanValues(fields, n) = {confirmed[n]}
  <2>1. confirmed[n] \in Form!HumanValues(fields, n)
    BY <1>2, <1>6 DEF KeptIsHuman
  <2>2. \A v \in Form!HumanValues(fields, n) : v = confirmed[n]
    BY <1>2, <1>6, <2>1 DEF DifferencesSeen
  <2>3. QED
    BY <2>1, <2>2
<1>7. QED
  BY <1>2, <1>4, <1>5, <1>6 DEF Form!LoopIsReference, Form!Ready, DifferencesSeen

\* The hours and the price of a time range, for any two times of a day.
LEMMA PriceSuffices ==
  ASSUME Form!RequirementsAssumption, FormInv
  PROVE  Form!PriceIsForHours
<1>1. SUFFICES ASSUME Form!Ready PROVE Form!PriceIsForHours
  BY DEF Form!PriceIsForHours
<1> DEFINE v == confirmed[HoursField]
           a == TimeRange[v][1]
           b == TimeRange[v][2]
           hours == Form!ScheduledHours(v)
           price == Form!CalculatePrice(hours)
<1>2. HoursField \in Required /\ HoursField \in Names /\ v # Form!Nil
  BY <1>1 DEF Form!RequirementsAssumption, Form!Ready, Form!MissingFields
<1>3. <<HoursField, v>> \in Matches /\ v \in Values
  BY <1>2 DEF FormInv, ConfirmedMatch, Form!TypeOK
<1>4. a \in 0..1439 /\ b \in 0..1439
  <2>1. TimeRange[v] \in (0..1439) \X (0..1439)
    BY <1>3 DEF Form!RequirementsAssumption
  <2> HIDE DEF v
  <2>2. PICK range \in (0..1439) \X (0..1439) : TimeRange[v] = range
    BY <2>1
  <2>3. range[1] \in 0..1439 /\ range[2] \in 0..1439
    OBVIOUS
  <2>4. QED
    BY <2>2, <2>3
<1>5. hours = IF b - a <= 0 \/ (b - a) % 60 # 0 THEN 0 ELSE (b - a) \div 60
  BY DEF Form!ScheduledHours
<1> HIDE DEF a, b, hours
<1>6. \A h \in 1..24 : a + 60 * h = b => hours = h
  BY <1>4, <1>5
<1>7. hours \in 1..24 => a + 60 * hours = b
  BY <1>4, <1>5
<1>8. Rate \in Nat /\ Rate > 0
  BY DEF Form!RequirementsAssumption
<1>9. hours \in 1..24 => price = Rate * hours /\ price # 0
  <2>1. ASSUME NEW h \in 1..24 PROVE Rate * h # 0
    BY <1>8, <2>1
  <2>2. QED
    BY <2>1 DEF Form!CalculatePrice
<1>10. hours \notin 1..24 => price = 0
  BY DEF Form!CalculatePrice
<1>11. \A h \in 1..24 : a + 60 * h = b => price = Rate * h
  BY <1>6, <1>9
<1>12. price = 0 <=> \A h \in 1..24 : a + 60 * h # b
  BY <1>6, <1>7, <1>9, <1>10
<1>13. QED
  BY <1>11, <1>12 DEF Form!PriceIsForHours, a, b, hours

LEMMA FormByItself ==
  ASSUME Form!RequirementsAssumption
  PROVE  Form!Spec => [](Form!TypeOK /\ Form!LoopIsReference /\ Form!PriceIsForHours)
<1>1. Form!Init => FormInv
  BY FormInit
<1>2. FormInv /\ [Form!Next]_(Form!vars) => FormInv'
  BY FormNext
<1>3. FormInv => Form!TypeOK /\ Form!LoopIsReference /\ Form!PriceIsForHours
  BY LoopSuffices, PriceSuffices DEF FormInv
<1>4. QED
  BY <1>1, <1>2, <1>3, PTL DEF Form!Spec

-----------------------------------------------------------------------------
(* The contract of the lead, whose theorems have a module of their own *)

LeadTheorems == INSTANCE LeadContract_proofs

\* Those theorems and Components speak of the same policy.
LEMMA SamePolicy ==
  /\ Lead!Nil = LeadTheorems!Nil
  /\ Lead!WorkflowTargets = LeadTheorems!WorkflowTargets
  /\ Lead!ClosedLostReasons = LeadTheorems!ClosedLostReasons
  /\ Lead!Flags = LeadTheorems!Flags
  /\ Lead!Suspended = LeadTheorems!Suspended
  /\ \A from, to, back, reason, flags :
       Lead!Allows(from, to, back, reason, flags)
         = LeadTheorems!Allows(from, to, back, reason, flags)
  /\ \A from, to, back :
       Lead!ResumeAfter(from, to, back) = LeadTheorems!ResumeAfter(from, to, back)
<1>1. /\ Lead!Nil = LeadTheorems!Nil
      /\ Lead!Statuses = LeadTheorems!Statuses
      /\ Lead!WorkflowTargets = LeadTheorems!WorkflowTargets
      /\ Lead!ClosedLostReasons = LeadTheorems!ClosedLostReasons
      /\ Lead!Flags = LeadTheorems!Flags
      /\ Lead!Suspended = LeadTheorems!Suspended
      /\ Lead!OpenSteps = LeadTheorems!OpenSteps
      /\ Lead!GatedSteps = LeadTheorems!GatedSteps
  BY DEF Lead!Nil, LeadTheorems!Nil, Lead!Statuses, LeadTheorems!Statuses,
         Lead!WorkflowTargets, LeadTheorems!WorkflowTargets,
         Lead!ClosedLostReasons, LeadTheorems!ClosedLostReasons,
         Lead!Flags, LeadTheorems!Flags, Lead!Suspended, LeadTheorems!Suspended,
         Lead!OpenSteps, LeadTheorems!OpenSteps, Lead!GatedSteps, LeadTheorems!GatedSteps
<1>2. /\ Lead!Active = LeadTheorems!Active
      /\ Lead!DecidedByTarget = LeadTheorems!DecidedByTarget
  BY <1>1 DEF Lead!Active, LeadTheorems!Active, Lead!DecidedByTarget,
              LeadTheorems!DecidedByTarget
<1>3. ASSUME NEW from, NEW to, NEW back, NEW reason, NEW flags
      PROVE  /\ Lead!Advances(from, to, flags) = LeadTheorems!Advances(from, to, flags)
             /\ Lead!Pauses(from, to) = LeadTheorems!Pauses(from, to)
             /\ Lead!HoldResume(from, back) = LeadTheorems!HoldResume(from, back)
             /\ Lead!Closes(from, to, reason) = LeadTheorems!Closes(from, to, reason)
  BY <1>1 DEF Lead!Advances, LeadTheorems!Advances, Lead!FlagOf, LeadTheorems!FlagOf,
              Lead!Pauses, LeadTheorems!Pauses, Lead!HoldResume, LeadTheorems!HoldResume,
              Lead!Closes, LeadTheorems!Closes
<1>4. ASSUME NEW from, NEW to, NEW back
      PROVE  /\ Lead!Holds(from, to, back) = LeadTheorems!Holds(from, to, back)
             /\ Lead!Resumes(from, to, back) = LeadTheorems!Resumes(from, to, back)
             /\ Lead!ResumeAfter(from, to, back) = LeadTheorems!ResumeAfter(from, to, back)
  BY <1>1, <1>2, <1>3
     DEF Lead!Holds, LeadTheorems!Holds, Lead!Resumes, LeadTheorems!Resumes,
         Lead!ResumeAfter, LeadTheorems!ResumeAfter
<1>5. ASSUME NEW from, NEW to, NEW back, NEW reason, NEW flags
      PROVE  Lead!Allows(from, to, back, reason, flags)
               = LeadTheorems!Allows(from, to, back, reason, flags)
  BY <1>1, <1>3, <1>4 DEF Lead!Allows, LeadTheorems!Allows
<1>6. QED
  BY <1>1, <1>4, <1>5

\* Hence of the same behaviours.
LEMMA SameLead ==
  /\ Lead!vars = LeadTheorems!vars
  /\ Lead!Init <=> LeadTheorems!Init
  /\ Lead!Next <=> LeadTheorems!Next
  /\ Lead!ContactIsDelivery <=> LeadTheorems!ContactIsDelivery
<1>1. Lead!vars = LeadTheorems!vars
  BY DEF Lead!vars, LeadTheorems!vars
<1>2. Lead!Init <=> LeadTheorems!Init
  BY SamePolicy DEF Lead!Init, LeadTheorems!Init
<1>3. ASSUME NEW l \in Leads
      PROVE  /\ Lead!Move(l) <=> LeadTheorems!Move(l)
             /\ Lead!Open(l) <=> LeadTheorems!Open(l)
             /\ Lead!Deliver(l) <=> LeadTheorems!Deliver(l)
             /\ Lead!Release(l) <=> LeadTheorems!Release(l)
  <2>1. Lead!Move(l) <=> LeadTheorems!Move(l)
    BY SamePolicy DEF Lead!Move, LeadTheorems!Move
  <2>2. /\ Lead!Open(l) <=> LeadTheorems!Open(l)
        /\ Lead!Deliver(l) <=> LeadTheorems!Deliver(l)
        /\ Lead!Release(l) <=> LeadTheorems!Release(l)
    BY DEF Lead!Open, LeadTheorems!Open, Lead!Deliver, LeadTheorems!Deliver,
           Lead!Release, LeadTheorems!Release
  <2>3. QED
    BY <2>1, <2>2
<1>4. Lead!Next <=> LeadTheorems!Next
  BY <1>3 DEF Lead!Next, LeadTheorems!Next
<1>5. Lead!ContactIsDelivery <=> LeadTheorems!ContactIsDelivery
  BY SamePolicy
     DEF Lead!ContactIsDelivery, LeadTheorems!ContactIsDelivery, Lead!Stage,
         LeadTheorems!Stage, Lead!BeforeContact, LeadTheorems!BeforeContact
<1>6. QED
  BY <1>1, <1>2, <1>4, <1>5

LEMMA LeadByItself ==
  Lead!Spec => []Lead!ContactIsDelivery /\ Lead!NeverUncontacted
<1>1. LeadTheorems!Spec => []LeadTheorems!ContactIsDelivery /\ LeadTheorems!NeverUncontacted
  BY LeadTheorems!ContactsAreDeliveries, LeadTheorems!ContactIsNeverUndone
<1>2. [Lead!Next]_(Lead!vars) <=> [LeadTheorems!Next]_(LeadTheorems!vars)
  BY SameLead DEF Lead!vars, LeadTheorems!vars
<1>3. [\A l \in Leads : LeadTheorems!Stage(l) \notin LeadTheorems!BeforeContact =>
          LeadTheorems!Stage(l)' \notin LeadTheorems!BeforeContact]_(LeadTheorems!vars) =>
        [\A l \in Leads : Lead!Stage(l) \notin Lead!BeforeContact =>
          Lead!Stage(l)' \notin Lead!BeforeContact]_(Lead!vars)
  BY SamePolicy, SameLead
     DEF Lead!Stage, LeadTheorems!Stage, Lead!BeforeContact, LeadTheorems!BeforeContact,
         Lead!vars, LeadTheorems!vars
<1>4. QED
  BY <1>1, <1>2, <1>3, SameLead, PTL
     DEF Lead!Spec, LeadTheorems!Spec, Lead!NeverUncontacted, LeadTheorems!NeverUncontacted

-----------------------------------------------------------------------------
(* Side by side *)

\* A step of the composition is a step of each component, or none of it.
LEMMA StepsAreItsOwn ==
  ASSUME [ComponentsNext]_allVars
  PROVE  /\ [Next]_vars
         /\ [Callbacks!Next]_(Callbacks!vars)
         /\ [Migrate!Next]_(Migrate!vars)
         /\ [Limiter!Next]_(Limiter!vars)
         /\ [Form!Next]_(Form!vars)
         /\ [Lead!Next]_(Lead!vars)
<1>1. /\ callbackVars = Callbacks!vars /\ callbackVars' = Callbacks!vars'
      /\ migrationVars = Migrate!vars /\ migrationVars' = Migrate!vars'
      /\ rateVars = Limiter!vars /\ rateVars' = Limiter!vars'
      /\ formVars = Form!vars /\ formVars' = Form!vars'
      /\ leadVars = Lead!vars /\ leadVars' = Lead!vars'
  BY DEF callbackVars, Callbacks!vars, migrationVars, Migrate!vars, rateVars, Limiter!vars,
         formVars, Form!vars, leadVars, Lead!vars
<1>2. CASE ComponentsNext
  BY <1>1, <1>2 DEF ComponentsNext
<1>3. CASE UNCHANGED allVars
  BY <1>1, <1>3 DEF allVars
<1>4. QED
  BY <1>2, <1>3

\* A behaviour of the composition is a behaviour of each component.
LEMMA EachIsItself ==
  ComponentsSpec =>
    Spec /\ Callbacks!Spec /\ Migrate!Spec /\ Limiter!Spec /\ Form!Spec /\ Lead!Spec
<1>1. ComponentsInit =>
        Init /\ Callbacks!Init /\ Migrate!Init /\ Limiter!Init /\ Form!Init /\ Lead!Init
  BY DEF ComponentsInit
<1>2. [ComponentsNext]_allVars =>
        /\ [Next]_vars
        /\ [Callbacks!Next]_(Callbacks!vars)
        /\ [Migrate!Next]_(Migrate!vars)
        /\ [Limiter!Next]_(Limiter!vars)
        /\ [Form!Next]_(Form!vars)
        /\ [Lead!Next]_(Lead!vars)
  BY StepsAreItsOwn
<1>3. QED
  BY <1>1, <1>2, PTL
     DEF ComponentsSpec, Spec, Callbacks!Spec, Migrate!Spec, Limiter!Spec, Form!Spec,
         Lead!Spec

\* What is true of every component by itself is true of them side by side.
LEMMA TogetherAsAlone ==
  ComponentsSpec =>
    [](/\ TypesOK
       /\ Callbacks!OneOutcomePerEvent /\ Migrate!LedgerIsHistory /\ Limiter!LimitHolds
       /\ Form!LoopIsReference /\ Form!PriceIsForHours)
<1>1. Spec => []TypeOK
  BY TypeCorrect
<1>2. Callbacks!Spec => [](Callbacks!TypeOK /\ Callbacks!OneOutcomePerEvent)
  BY CallbacksByThemselves, ComponentAssumptions
<1>3. Migrate!Spec => [](Migrate!TypeOK /\ Migrate!LedgerIsHistory)
  BY MigrationsByThemselves, ComponentAssumptions
<1>4. Limiter!Spec => [](Limiter!TypeOK /\ Limiter!LimitHolds)
  BY RateByItself, ComponentAssumptions
<1>5. Form!Spec => [](Form!TypeOK /\ Form!LoopIsReference /\ Form!PriceIsForHours)
  BY FormByItself, ComponentAssumptions
<1>6. TypeOK /\ Callbacks!TypeOK /\ Migrate!TypeOK /\ Limiter!TypeOK /\ Form!TypeOK => TypesOK
  BY DEF TypesOK
<1>7. QED
  BY <1>1, <1>2, <1>3, <1>4, <1>5, <1>6, EachIsItself, PTL

(***************************************************************************)
(* Of the lead's contract: a lead is past first contact exactly when its   *)
(* first message went out, whatever moves decideWorkflowMove allows.       *)
(***************************************************************************)
THEOREM ContactsAreDeliveries == ComponentsSpec => []ContactIsDelivery
BY EachIsItself, LeadByItself, PTL DEF ContactIsDelivery

\* No chain of moves takes a contacted lead back to the first-contact stages.
THEOREM ContactIsNeverUndone == ComponentsSpec => NeverUncontacted
BY EachIsItself, LeadByItself, PTL DEF NeverUncontacted

(***************************************************************************)
(* Every variable of the components that share no state keeps its type:    *)
(* ingestion, callbacks, migrations, rate limit and requirement forms.     *)
(***************************************************************************)
THEOREM AllTypesCorrect == ComponentsSpec => []TypesOK
BY TogetherAsAlone, PTL

(***************************************************************************)
(* Of delivery callbacks: an event has one stored outcome; every accepted  *)
(* report says it, one at most made it, and a refused one contradicts it,  *)
(* however many reports race and however many answers are lost.            *)
(***************************************************************************)
THEOREM OutcomesAreUnique == ComponentsSpec => []OneOutcomePerEvent
BY TogetherAsAlone, PTL DEF OneOutcomePerEvent

(***************************************************************************)
(* However runs overlap, fail and die, and whatever releases they carry,   *)
(* runMigrations executes each file once, on top of its own release.       *)
(***************************************************************************)
THEOREM LedgerIsTrue == ComponentsSpec => []LedgerIsHistory
BY TogetherAsAlone, PTL DEF LedgerIsHistory

(***************************************************************************)
(* The limit holds as far as a fixed window can hold it, for every limit,  *)
(* length of a window and number of clients: consumeRate lets less than    *)
(* twice the limit through in a window's length, and refuses only those    *)
(* who had the limit.                                                      *)
(***************************************************************************)
THEOREM LimitAlwaysHolds == ComponentsSpec => []LimitHolds
BY TogetherAsAlone, PTL DEF LimitHolds

(***************************************************************************)
(* For forms of any length, over any schema: the loop of                   *)
(* assessRequirements, which keeps the last value of a name, finds what a  *)
(* reading of the whole form finds.                                        *)
(***************************************************************************)
THEOREM LoopIsRight == ComponentsSpec => []LoopIsReference
BY TogetherAsAlone, PTL DEF LoopIsReference

(***************************************************************************)
(* For any two times of a day and any rate: scheduledHours and             *)
(* calculatePrice price a ready form by its whole hours, or not at all.    *)
(***************************************************************************)
THEOREM PriceIsRight == ComponentsSpec => []PriceIsForHours
BY TogetherAsAlone, PTL DEF PriceIsForHours

=============================================================================
