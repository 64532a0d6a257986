------------------------------- MODULE Outbox -------------------------------
(***************************************************************************)
(* The transactional outbox: the rows that the API's transactions insert,  *)
(* the workers that drain them (drainOutbox over PostgresOutboxStore), and *)
(* the operator's redrive of a dead letter.                                *)
(*                                                                         *)
(* A worker's ticks are started by a timer that does not wait for the tick *)
(* before, and there may be several workers, of different releases while   *)
(* one is rolled out: Drains are the ticks in progress at the same time.   *)
(* Every statement is its own transaction.  A claim takes no lease: an     *)
(* event that one drain holds can be claimed again until it is published,  *)
(* buried or out of attempts.                                              *)
(*                                                                         *)
(* drainOutbox's retry branch is left out: decide never answers RETRY.     *)
(*                                                                         *)
(* A definition right before another whose name it extends is that one     *)
(* with a bug, kept to see which property notices; no specification uses   *)
(* it.                                                                     *)
(***************************************************************************)
EXTENDS Naturals, FiniteSets

CONSTANTS
  Events,       \* rows of platform.outbox_events there may be
  Safe,         \* events whose type, payload and channel pass decide today
  Later,        \* events that pass from the next release on
  Drains,       \* ticks in progress at the same time, whatever their worker
  BatchSize,    \* OUTBOX_BATCH_SIZE
  MaxAttempts,  \* OUTBOX_MAX_ATTEMPTS
  MaxFaults     \* bound: failed statements and worker restarts in a behaviour

ASSUME OutboxAssumption ==
  /\ Safe \subseteq Events /\ Later \subseteq Events
  /\ IsFiniteSet(Drains)
  /\ BatchSize \in Nat \ {0} /\ MaxAttempts \in Nat \ {0} /\ MaxFaults \in Nat

VARIABLES
  row,      \* the table
  ahead,    \* the order of available_at: the events that come before each event
  claimed,  \* events each drain has claimed and not got to yet
  handing,  \* the event each drain has marked published and not handed off yet
  handed,   \* events handed off to the provider
  paused,   \* AUTOMATION_PAUSED, which a worker reads when it starts
  release,  \* the release each drain's worker, and the API, runs
  faults    \* faults so far

vars == <<row, ahead, claimed, handing, handed, paused, release, faults>>

\* `slot`: whether available_at has come ("now") or is deadLetterAt ("dead").
Rows ==
  [slot: {"absent", "now", "dead"}, attempts: 0..MaxAttempts,
   published: BOOLEAN, error: BOOLEAN]

TypeOK ==
  /\ row \in [Events -> Rows]
  /\ ahead \in [Events -> SUBSET Events]
  /\ claimed \in [Drains -> SUBSET Events]
  /\ handing \in [Drains -> SUBSET Events]
  /\ handed \subseteq Events
  /\ paused \in [Drains -> BOOLEAN]
  /\ release \in [Drains \cup {"api"} -> {1, 2}]
  /\ faults \in 0..MaxFaults

\* decide answers ACK; otherwise it answers DEAD.
Passes(e, where) == e \in Safe \/ (e \in Later /\ release[where] = 2)

\* WHERE published_at IS NULL
OpenUnchecked(e) == TRUE
OpenInQueue(e) == ~row[e].published /\ row[e].slot = "now"
Open(e) == ~row[e].published

ClaimableAnyAttempts(e) == row[e].slot = "now" /\ ~row[e].published
ClaimableOneShort(e) ==
  row[e].slot = "now" /\ ~row[e].published /\ row[e].attempts + 1 < MaxAttempts
Claimable(e) ==
  row[e].slot = "now" /\ ~row[e].published /\ row[e].attempts < MaxAttempts

\* available_at of the event becomes the present.
QueueLast(e) ==
  ahead' = [f \in Events |->
              IF f = e THEN {g \in Events \ {e} : row[g].slot = "now"} ELSE ahead[f] \ {e}]

\* Events that other ticks' statements may have locked at the moment.
HeldByOthers(d) == UNION {claimed[u] \cup handing[u] : u \in Drains \ {d}}

Busy(d) == claimed[d] # {} \/ handing[d] # {}

Init ==
  /\ row = [e \in Events |->
              [slot |-> "absent", attempts |-> 0, published |-> FALSE, error |-> FALSE]]
  /\ ahead = [e \in Events |-> {}]
  /\ claimed = [d \in Drains |-> {}]
  /\ handing = [d \in Drains |-> {}]
  /\ handed = {}
  /\ paused \in [Drains -> BOOLEAN]
  /\ release = [w \in Drains \cup {"api"} |-> 1]
  /\ faults = 0

-----------------------------------------------------------------------------

\* A transaction of the API commits with its event.
Emit(e) ==
  /\ row[e].slot = "absent"
  /\ row' = [row EXCEPT ![e].slot = "now"]
  /\ QueueLast(e)
  /\ UNCHANGED <<claimed, handing, handed, paused, release, faults>>

(***************************************************************************)
(* store.claim: one statement, which takes the claimable rows in the order *)
(* of available_at.  Rows that statements of other ticks have locked at    *)
(* that moment are skipped (SKIP LOCKED).                                  *)
(***************************************************************************)
Claim(d) ==
  /\ ~paused[d]
  /\ ~Busy(d)
  /\ \E skipped \in SUBSET HeldByOthers(d) :
       LET eligible == {e \in Events \ skipped : Claimable(e)}
       IN \E batch \in SUBSET eligible :
            /\ batch # {}
            /\ Cardinality(batch) <= BatchSize
            /\ Cardinality(batch) < BatchSize => batch = eligible
            /\ \A e \in batch : ahead[e] \cap eligible \subseteq batch
            /\ claimed' = [claimed EXCEPT ![d] = batch]
            /\ row' = [e \in Events |->
                         IF e \in batch THEN [row[e] EXCEPT !.attempts = @ + 1] ELSE row[e]]
  /\ UNCHANGED <<ahead, handing, handed, paused, release, faults>>

\* decide answers ACK: markPublished, whose row count nobody looks at.
Publish(d, e) ==
  /\ e \in claimed[d] /\ handing[d] = {}
  /\ Passes(e, d)
  /\ row' = [row EXCEPT ![e] =
               IF Open(e) THEN [@ EXCEPT !.published = TRUE, !.error = FALSE] ELSE @]
  /\ claimed' = [claimed EXCEPT ![d] = @ \ {e}]
  /\ handing' = [handing EXCEPT ![d] = {e}]
  /\ UNCHANGED <<ahead, handed, paused, release, faults>>

\* The await of markPublished returns: the provider gets the event.
Handoff(d) ==
  /\ handing[d] # {}
  /\ handed' = handed \cup handing[d]
  /\ handing' = [handing EXCEPT ![d] = {}]
  /\ UNCHANGED <<row, ahead, claimed, paused, release, faults>>

\* decide answers DEAD: markDead.
Bury(d, e) ==
  /\ e \in claimed[d] /\ handing[d] = {}
  /\ ~Passes(e, d)
  /\ row' = [row EXCEPT ![e] =
               IF Open(e) THEN [@ EXCEPT !.slot = "dead", !.error = TRUE] ELSE @]
  /\ claimed' = [claimed EXCEPT ![d] = @ \ {e}]
  /\ UNCHANGED <<ahead, handing, handed, paused, release, faults>>

(***************************************************************************)
(* A statement of the tick fails, before or after the database took it;    *)
(* tick() logs the error and gives up the rest of the batch.               *)
(***************************************************************************)
Fail(d) ==
  /\ Busy(d)
  /\ faults < MaxFaults
  /\ claimed' = [claimed EXCEPT ![d] = {}]
  /\ handing' = [handing EXCEPT ![d] = {}]
  /\ faults' = faults + 1
  /\ UNCHANGED <<row, ahead, handed, paused, release>>

\* A worker stops, and starts again with another environment or release.
Restart(d) ==
  /\ faults < MaxFaults
  /\ claimed' = [claimed EXCEPT ![d] = {}]
  /\ handing' = [handing EXCEPT ![d] = {}]
  /\ \E p \in BOOLEAN : paused' = [paused EXCEPT ![d] = p]
  /\ \E n \in {1, 2} : n >= release[d] /\ release' = [release EXCEPT ![d] = n]
  /\ faults' = faults + 1
  /\ UNCHANGED <<row, ahead, handed>>

\* The API starts again with the next release.
UpgradeApi ==
  /\ release["api"] = 1
  /\ release' = [release EXCEPT !["api"] = 2]
  /\ UNCHANGED <<row, ahead, claimed, handing, handed, paused, faults>>

\* redrive: a row that has an error and passes in the API's release starts afresh.
RedriveKeepsAttempts(e) ==
  /\ Open(e) /\ row[e].error
  /\ Passes(e, "api")
  /\ row' = [row EXCEPT ![e] = [@ EXCEPT !.slot = "now", !.error = FALSE]]
  /\ QueueLast(e)
  /\ UNCHANGED <<claimed, handing, handed, paused, release, faults>>

Redrive(e) ==
  /\ Open(e) /\ row[e].error
  /\ Passes(e, "api")
  /\ row' = [row EXCEPT ![e] =
               [slot |-> "now", attempts |-> 0, published |-> FALSE, error |-> FALSE]]
  /\ QueueLast(e)
  /\ UNCHANGED <<claimed, handing, handed, paused, release, faults>>

Work(d) == (\E e \in Events : Publish(d, e) \/ Bury(d, e)) \/ Handoff(d)

Next ==
  \/ \E e \in Events : Emit(e) \/ Redrive(e)
  \/ \E d \in Drains :
       \/ Claim(d) \/ Handoff(d) \/ Fail(d) \/ Restart(d)
       \/ \E e \in Events : Publish(d, e) \/ Bury(d, e)
  \/ UpgradeApi

(***************************************************************************)
(* The timer starts ticks for ever, and a tick that awaits a statement is  *)
(* resumed by its answer or its failure.  Nothing makes the operator act.  *)
(***************************************************************************)
Fairness == \A d \in Drains : WF_vars(Claim(d)) /\ WF_vars(Work(d))

Spec == Init /\ [][Next]_vars /\ Fairness

-----------------------------------------------------------------------------
(* Properties *)

(***************************************************************************)
(* A published row never changes again: not by a tick that claimed the     *)
(* event earlier and now buries or publishes it, and not by a redrive.     *)
(***************************************************************************)
PublishedIsFinal == [][\A e \in Events : row[e].published => row'[e] = row[e]]_vars

(***************************************************************************)
(* Only what some worker's release passes is handed off, and its row is    *)
(* published by then, whatever the API's release let an operator redrive.  *)
(***************************************************************************)
HandoffsAreVouched ==
  \A e \in handed : row[e].published /\ \E d \in Drains : Passes(e, d)

\* Out of attempts, in nobody's hands, and with no error that a redrive asks for.
Stranded(e) ==
  /\ row[e].slot = "now" /\ ~row[e].published /\ ~row[e].error
  /\ row[e].attempts = MaxAttempts
  /\ \A d \in Drains : e \notin claimed[d]

(***************************************************************************)
(* An event is stranded only by faults: each wastes one attempt of the row *)
(* at most, however the drains overlap, so it takes MaxAttempts of them.   *)
(***************************************************************************)
OnlyFaultsStrand == \A e \in Events : Stranded(e) => faults >= MaxAttempts

(***************************************************************************)
(* As long as the faults cannot use up its attempts, every safe event gets *)
(* published, unless all workers end up paused.                            *)
(***************************************************************************)
SafeEventsGetOut ==
  []<>(\E d \in Drains : ~paused[d]) =>
    \A e \in Safe :
      row[e].slot # "absent" ~> row[e].published \/ faults >= MaxAttempts

-----------------------------------------------------------------------------
(* What the documents say and the code does not do *)

(***************************************************************************)
(* ADR-0002: "Delivery is at least once": a published event that no drain  *)
(* still has in hand was handed off.                                       *)
(***************************************************************************)
PublishedIsHandedOff ==
  \A e \in Events :
    row[e].published /\ (\A d \in Drains : e \notin handing[d]) => e \in handed

(***************************************************************************)
(* INTEGRATION_CONTRACTS: redrive "requeues an unpublished safe event":    *)
(* there is a way forward for every safe event, without or with it.        *)
(***************************************************************************)
SafeEventsCanBeRequeued == \A e \in Safe : ~Stranded(e)

=============================================================================
