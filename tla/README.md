# A verification model of AI-SERVICE-BROKER

TLA+ specifications of the service broker in `src/`, TLC runs that check them on
small instances, and TLAPS proofs of their main theorems for every size. The
specifications are read from the code; documents serve only as claims to compare
with it.

## 1. The system

A NestJS API (`apps/api`) takes synthetic leads, contacts them once under
supervision, advances them through a sales workflow, and records every step in
PostgreSQL together with events. A worker (`apps/worker`) drains the events to a
mock provider. The domain is in `packages/*`; each port has an in-memory and a
Postgres adapter, chosen in `apps/api/src/lead/lead.module.ts`.

The database runs READ COMMITTED. A request handler awaits each read and then a
transaction, so handlers interleave between any two of these, in one process and
across processes.

| Component | State it keeps | Operations | Hard behaviours | Correct when |
|---|---|---|---|---|
| Workflow policy, `Lead` (`packages/lead/src/domain`) | status, version, previous and resume status | `decideWorkflowMove`, `applyWorkflowMove`, `markContactPending`, `markContacted`, `releaseToNew` | chains of holds and resumes | a held lead comes back to where it was; first contact happens once |
| Workflow commands (`packages/workflow`, `postgres/src/workflow`) | `leads`, `workflow.transitions`, `idempotency_keys` | `AdvanceWorkflow.execute`, `commit` | key looked up before the lock and inserted last; optimistic version | a key acts once; the log is the lead's history |
| First contact (`packages/contact`, `postgres/src/contact`) | `contact_reviews`, `outbound_messages`, `leads`, keys | `PrepareFirstContact`, `DecideFirstContact`, their transactions, expiry | four reads before each write, of two tables; retries; expiry during a decision | lead, review and message agree; a decision is final; answers are true |
| Lead ingestion (`ingest-lead.ts`, `postgres/src/lead`) | `leads`, `raw_payloads`, keys, `outbox_events` | `createLeadWithOutbox` | same record twice, same key twice, both at once, each waiting for the other's uncommitted row | one lead and one event per source record, named by every answer |
| Outbox (`packages/outbox`, `postgres/src/outbox`, `apps/worker`) | `outbox_events` | `claim`, `markPublished`, `markDead`, handoff, `redrive` | overlapping ticks, no lease, crashes between statements, releases that disagree | a published row is final; only safe events go out; nothing safe is stuck |
| Conversation (`packages/conversation`, `postgres/src/conversation`) | customers, links, conversations, messages, control changes, keys | `AcceptInbound`, `SetConversationControl` | repeated messages, two advisory locks and two kinds of row locks, mode changed while a message arrives | one customer and conversation per telephone; modes are versioned; nobody waits for ever |
| Operations (`operations.service.ts`, `commercial.records`, `requirement.versions`, risk signals) | requirement versions, quotes, negotiations, jobs, follow-ups | `confirm`, `quote`, `negotiate`, `followUp`, `accept`, `providerDelivery`, `recordSignal` | one record and several workflow commands, each a transaction; retries complete what a crash left | a stage has the record that justifies it; a job's snapshots belong together |
| Automation (`automation.service.ts`) | `AUTOMATION` records | `run` | checks the control mode once, then acts through first contact and operations; its outcome is stored afterwards | a held conversation stops it; stored outcomes rest on records; one answer per key |
| Requirements (`packages/requirement`) | none | `assessRequirements`, `fakeExtract` | fields that repeat and contradict each other | the loop computes what its definition says |
| Safety rules (`packages/safety`) | none, but for the rate windows | `calculatePrice`, `scheduledHours`, `consumeRate`, gates | working hours past midnight, windows back to back | prices fit hours; a window lets no more than the limit pass |
| Messaging (`packages/messaging`) | `delivery_callbacks` | `callback`, callback store | repeated and contradicting reports that race | one outcome per provider event |
| Migration runner (`postgres/src/migration-runner.ts`) | `platform.schema_migrations` | `runMigrations` | two starters of different releases, a crash between files | the ledger is what was executed |
| In-memory adapters | the same in maps | the same | none: a request runs to its end without giving way | the database shows nothing that they do not |
| Configuration, contracts, HTTP platform, logging, architecture tests | none that survives a request | parsing, formatting | none | not modelled, see section 8 |

How they interact: automation calls first contact and operations; operations calls
workflow commands; workflow commands, first contact, ingestion, conversation and
operations insert events in their own transactions; the worker reads the events.
First contact and workflow commands share the lead's row, and only its version
keeps them apart.

## 2. Modules

| Module | Models | Role |
|---|---|---|
| `WorkflowPolicy` | `decideWorkflowMove` | operators: what a command may do to a status, and to the columns of a held lead; used by the four modules that move leads |
| `LeadContract` | what the lead, workflow and contact packages promise | abstract: single atomic moves, delivery of the first message together with `CONTACTED` |
| `LeadMemory` | the in-memory workflow, contact and lead stores | abstract: a request is one step |
| `LeadLifecycle` | workflow commands and first contact over Postgres | detailed; implements `LeadContract` and `LeadMemory` |
| `Outbox` | outbox rows, drains, redrive | component |
| `IngestionContract` | the in-memory lead adapter | abstract: an ingestion is one step |
| `Ingestion` | lead ingestion over Postgres | detailed; implements `IngestionContract` |
| `ConversationContract` | the in-memory inbound store | abstract: a message or a control change is one step |
| `Conversation` | inbound messages and conversation control over Postgres | detailed; implements `ConversationContract` |
| `Sales` | the commercial operations of `OperationsService` and their stores | component, over `WorkflowPolicy` |
| `Automation` | `AutomationService.run` among people, the customer and other requests | composes first contact, the quote, follow-ups and the conversation's mode, over `WorkflowPolicy` |
| `DeliveryCallbacks` | `callback` and its store | component |
| `Requirements` | `assessRequirements`, `fakeExtract`, the price of working hours | algorithm, one field a step |
| `RateLimit` | `limitPosts`, `consumeRate` | component with a clock |
| `Migrations` | `runMigrations` | component |
| `MCLeadLifecycle`, `MCLeadSales`, `MCOutbox`, `MCConversation`, `MCAutomation` | | instances for TLC |
| `MCSales` | | instances of `Sales`, as a union of scenarios |
| `Components` | the components that share no state, and `LeadContract`, side by side | composition: a behaviour is one of a single component |
| `MCComponents` | | the instances of `Components` |
| `*_proofs` | | the theorems (section 5) |

A variable is a table, or a map of the process; `request` holds what each handler
has in local variables: where it awaits, and what it has read. Rows are records of
the columns that decide something. An action is a statement or an awaited call.
Where a definition is preceded by another whose name extends its own (`FreshKey`,
`FreshKeyUnchecked`), the longer one is that definition with a bug; no
specification uses it (section 3).

### LeadLifecycle

`lead` is `acquisition.leads` (status, version, previous and resume status),
`review` is a row of `outreach.contact_reviews` with its one row of
`outreach.outbound_messages`, `transitions` is `workflow.transitions`, and
`prepareKeys`, `decisionKeys` are the rows of `platform.idempotency_keys` of the two
contact operations. The keys of workflow commands are kept inside `transitions`,
because the transaction inserts both or neither.

| Action | Code |
|---|---|
| `AdvanceLookup`, `AdvanceCommit` | `PostgresWorkflowStore.commit`: before and after the row lock |
| `PrepareReadLead`, `PrepareReadReview`, `PrepareCommit` | `PrepareFirstContact.execute` and its transaction |
| `DecideReadReview`, `DecideReadLead`, `DecideReread`, `DecideCommit`, `DecideReplay` | `DecideFirstContact.execute`, `commit`, and its transaction |
| `Expire` | the clock passes `expiresAt` (nothing in the code runs at that moment) |
| `Finish` | any early return, error, rollback, or the end of the process |

A transaction is one step because its first conflicting write takes a row lock it
keeps until it commits, and it uses nothing it read before that lock. The exception
is the workflow command's key lookup, which happens before the lead is locked; it
is a step of its own. A rejected command has no action beyond `Finish`, since it
writes nothing. Both the version a client sends and the row it meets are chosen
freely: the client may have read any current version, and anything may happen
before the commit. A client that sends a version it never saw is refused, and so
is left out.

`LeadMemory` has the same requests as the in-memory stores run them: from the reads
to the writes without an await that gives way. `ImplementsStores` maps the tables
of `LeadLifecycle` to the maps of these stores one to one.

### Outbox

`row` is `platform.outbox_events` reduced to when it is due (`slot`), its attempts,
and whether `published_at` and `last_error` are set; `ahead` is the order of
`available_at`. `claimed` and `handing` are the loop variable and the await inside
`drainOutbox`, for each tick in progress. `Safe` and `Later` say which events the
catalogue of known payloads accepts, today and from the next release on, so that a
worker and the API can disagree during a rollout. `Fail` is a statement that throws
and is logged by `tick`; `Restart` also stands for the process that dies.

The code's retry branch (`markRetry`) cannot be reached: `decide` answers only `ACK`
or `DEAD`.

### Ingestion

`leads` is `acquisition.leads` with its raw payload, `keys` the idempotency rows,
`events` the `LeadCreated` rows. `Submit` is the personal-data gate of
`LeadIngestionService`; `Reserve`, `Replay`, `InsertLead`, `ResolveDuplicate` and
`Commit` are the statements of `createLeadWithOutbox`; `Fail` is a conflict, an
error, or the end of the process. What a transaction has inserted stays in its
request until `Commit`. `INSERT ... ON CONFLICT DO NOTHING` waits for an uncommitted
row that it would conflict with, so `Reserve` and `InsertLead` are guarded by
`KeySettled` and `RecordSettled`. A lead's id is that of the request that made it.

### Conversation

The variables are the tables of the schemas `customer` and `conversation`.
`Deliver`, `LockPhone`, `LockMessage`, `FindMessage`, `FindCustomer`,
`InsertCustomer`, `FindConversation`, `InsertConversation`, `InsertMessage` and
`CommitMessage` are `AcceptInbound` and the statements of
`PostgresInboundStore.commit`; `Command`, `FindKey`, `LockConversation`, `ClaimKey`
and `CommitControl` are those of `SetConversationControl` and its store. `Locks`,
`RowLock` and `ShareLock` are read off the state of the transaction that has them: the
advisory locks, `SELECT ... FOR UPDATE` of a control request, and the share lock
that a message's foreign key takes on its conversation. Both advisory locks hash
into one space of numbers; `LockName` is the text that is hashed.

`ImplementsContract` maps the tables to the maps of `InMemoryInboundStore`, without
the column `mode` of a message, in which the two differ (section 4).

### Sales

`requirements` is `requirement.versions`; `records` is `commercial.records` in the
order of `created_at`, without automation's; `moves` is what
`workflow.transitions` keeps of the commands that an operation sends under its
step keys; `signals` is `safety.risk_signals`. `Operation(q)` is the table of
operations: the statuses they start from, what they read before the record and the
moves they make after it.

| Action | Code |
|---|---|
| `Send`, `SendProvider` | the request and its first checks |
| `Lookup` | the record store's look at the key |
| `ReadQuote`, `ReadRequirement`, `Price` | what `accept`, `quote` and `negotiate` read |
| `SaveRequirement`, `SaveRecord` | the stores' insert, with replay and conflict |
| `Reread`, `ReplayStep`, `MoveStep` | `finish` and `advanceCommercial`, one workflow command a step |
| `Command`, `RecordSignal` | people's workflow commands; `recordSignal` |
| `Finish` | refusal, answer, error, or the end of the process |

A workflow command is one step, which may fail: `LeadLifecycle` has its statements,
and `KeyTakesEffectOnce` and `LogIsHistory` are what makes one step of it.

### Automation

`lead`, the open `review`, the `approved` reviews, the keys of prepared contacts
(`prepared`) and of decisions (`decided`), `quotes` and `plans` (the keys of their
records), the keys of the quotes' workflow commands (`moves`), the conversation's
`mode`, and `runs`, the `AUTOMATION` records. `acts` is a history: what was done to
the lead under which key. `Start`, `FindRun`, `ReadLead`, `ReadConversation` are the
beginning of `run`; `Wait` is every status it only waits in, `SaveRun` the record of
its outcome. First contact is `PrepareRead`, then `PrepareCommit` or `PrepareReplay`
where there is no open review, then `DecideRead`, `DecideCommit` or `DecideReplay`,
and `Reread`; `DecideExpired` ends a run whose review is late. The quote is
`BeginQuote`, `RecordQuote`, `ReadQuoted`, `MoveQuoted` or `MoveReplay`, and
`Quoted`; the follow-up is `BeginPlan` and `Plan`. Runs with one key give their calls
the same keys, and the three `Replay` actions are a call that meets the key of a
faster run, or of an earlier one that died. `OpenReview`, `CloseReview`, `Expire`,
`OtherMove` and `SetMode` are people, the customer and the clock; a person's decision
has a key of its own.

The reads of `DecideFirstContact` are one step: a commit succeeds only at the lead's
version as read and with the review pending, and a replay needs the key and the
review, so whatever changes between two of the reads makes the call fail, which
`Finish` is. The same holds of `PrepareFirstContact`, whose open review counts when
it is found.

### The small components

- `DeliveryCallbacks`: `Receive` is the controller and `assessDeliveryCallback`;
  insert and select are the two statements of the store.
- `Requirements`: `TakeField` and `TakeCode` are the bodies of the two loops of
  `assessRequirements`; the regular expressions of its catalogue are the relation
  `Matches`. Price and hours are operators.
- `RateLimit`: `window` is the map in `configureApp`; `passed` is a history.
- `Migrations`: `lock` is the session's advisory lock, `ledger` the table, `history`
  the scripts whose transactions committed, in order. A release is the set of files
  a process finds on its disk, with their contents.

## 3. Runs

| Run | Configuration | Distinct states | Shows |
|---|---|---|---|
| `lead_contact` | 1 lead, 2 reviews, 2 requests at a time, 2 keys, targets hold/resume/close | 1.04 M | `TypeOK`, `OpenReviewMatchesStage`, `KeyTakesEffectOnce`, `LogIsHistory`, `SuspendedKnowsResume`, `ReplyTellsDelivery`, `DecidedReviewIsFinal`, `ImplementsContract`, `ImplementsStores` |
| `outbox` | 3 events, 2 drains, batches of 2, 2 attempts, 2 faults | 833 k | `TypeOK`, `HandoffsAreVouched`, `OnlyFaultsStrand`, `PublishedIsFinal`, `SafeEventsGetOut` |
| `sales` | 1 lead, 2 requests, 2 keys, 2 forms, in four scenarios | 473 k | `TypeOK`, `StageHasRecord`, `AnswersWereTrue`, `JobFollowsQuote` |
| `sales_live` | 1 lead, 2 requests with one key that die and are sent again | 19 k | `RetryCompletes` |
| `conversation` | 3 requests, 3 leads with 2 telephones, 2 message ids, 2 texts, 2 control keys | 117 k | `TypeOK`, `OneThread`, `MissingStaysMissing`, `ControlHistory`, `ImplementsContract`, `EveryRequestEnds` |
| `automation` | 2 runs with one key, 2 reviews, versions up to 6 | 2.3 M | `TypeOK`, `HeldRunsDoNothing`, `StoredRunsHaveRecords`, `OneAnswerPerKey` |
| `components` | 3 ingestions of 3 bodies for 2 records under 2 keys; 3 delivery reports on 2 events; 2 migrations of 4 releases of 3 files; 2 clients, 2 requests in a window of 3, time up to 6; forms of up to 4 fields; 2 leads under the whole catalogue of moves | 289 k | `TypesOK`, `AnswersAgree`, `ImplementsContract`, `OneOutcomePerEvent`, `LedgerIsHistory`, `LimitHolds`, `LoopIsReference`, `PriceIsForHours`, `EveryoneEnds`, `ContactIsDelivery`, `NeverUncontacted` |
| `lead_expiry`, `lead_hold`, `outbox_lost`, `automation_takeover`, `automation_expired` | as small as the case needs | stop at the counterexample | section 4 |

### Bounds, and why they are enough

Two requests give every race of two handlers, and each may be followed by others,
as `Finish` frees its slot; where a request is sent only once (`Conversation`,
`Ingestion`, `DeliveryCallbacks`) there are three, so that two race and a third
finds what they left. Two keys let a request meet its own key, a foreign one, or
none; in `lead_contact` and `sales` the keys also bound the behaviours, because every
write consumes one. Two reviews give a lead a second round of first contact after a
rejection. In `outbox` faults equal attempts, so stranding does happen; one safe
event, one of the next release and one that never passes are the kinds the code
tells apart. The leads of `conversation` are two of one person and one of another,
and a telephone is also used as a message id. The releases of `Migrations` are
the first file alone, all of them, all with the first one edited, and one that
lacks the second file. Four fields let a form name a field, change it and change it
back. `MaxVersion` and `MaxReviews` of `Automation`, `MaxTime` of `RateLimit`,
`MaxFields` and `MaxCodes` of `Requirements` and `MaxFaults` of `Outbox` bound what
the code leaves unbounded. Larger instances than these are the subject of the
proofs, where there is one.

`MCSales` does not multiply what a lead can meet: a behaviour chooses one of four
scenarios at its start and stays in it, and TLC explores their union. One request
at a time goes through every operation, with holds; two confirmations of both forms
overtake each other, with holds; two requests at a time go all the way to a job;
and a lead is reported before or after its job. `Components` does the same with
components that share no variable: a behaviour is one of a single component, the
others' variables keep their first values, and TLC explores the sum of the state
spaces. The properties name the component they belong to; `EveryoneEnds` is
`EveryRequestEnds` of `Ingestion` and `EveryRunEnds` of `Migrations`, and
`ContactIsDelivery` and `NeverUncontacted` are of `LeadContract`.

Deadlock checking is off where keys run out, closed leads accept nothing more, all
requests have been sent, or an outbox may be empty: the system may then stop. That
nobody waits for somebody who waits for him is checked where the code waits:
`EveryRequestEnds` and `EveryoneEnds`, for locks and uncommitted rows. It is on for
`automation`, where a run may always start.

Every property of a passing run is tested against a changed definition of the model
that it must reject; `PROJECT.json` lists which.

### Fairness

- `LeadLifecycle`, `Automation`: none. A request may be given up at any point, and
  the properties are about safety.
- `Outbox`: weak fairness of each drain's `Claim` and of its work. The worker's
  timer (`setInterval`) starts ticks for ever, and an awaited statement answers or
  throws. Nothing is assumed of operators, restarts or the API. `SafeEventsGetOut`
  further supposes that it is not the case that all workers end up paused.
- `Conversation`, `Ingestion`: weak fairness of each request's `Proceed`. A
  transaction runs on unless a lock or an uncommitted row keeps it waiting. That is
  weaker than what Postgres does, which serves the waiting in order; it suffices
  because a request is sent once, so that nobody can be overtaken for ever.
- `Migrations`: weak fairness of `Proceed`, and strong fairness of `Lock`. Runs
  start again and again, and Postgres grants an advisory lock in the order of the
  requests.
- `Sales`, in `sales_live`: a handler runs on or dies, and a client that has no
  answer sends its request again (strong fairness of `Retry`, because the request
  may find all handlers of the instance busy). `RetryCompletes` supposes that
  processes stop dying.

## 4. Where documents and code disagree

Five runs expect a violation:

| Run | Document | Code |
|---|---|---|
| `lead_expiry` | INTEGRATION_CONTRACTS:65: `REVIEW_EXPIRED` means "nothing was sent" | two requests with one key: the first approves just before the expiry, the second reads the review before that and the clock after it, meets its own key, and answers `REVIEW_EXPIRED` |
| `lead_hold` | STATE_MACHINE:88: a held state "returns only to its stored resume state" | from `INTERESTED` on, the branch of the target rejects the move before the resume branch is reached, so the lead can only be closed |
| `outbox_lost` | ADR-0002: "Delivery is at least once" | the row is marked published before the handoff; a crash in between loses the event |
| `automation_takeover` | STATE_MACHINE:76: "Kill switch or `HUMAN_CONTROL` prevents automated outbound delivery" | `run` reads the mode once, and prepares and approves in further transactions that do not look at it |
| `automation_expired` | INTEGRATION_CONTRACTS:81: "`201 ADVANCED`: mock first contact was approved, or the sandbox quote was issued" | two runs with one key: the first plans the approval just before the expiry, the second reads the clock after it and commits `EXPIRED`; the first meets its key, is answered `NOT_SENT` without an error, does not look at the answer, and is stored as `ADVANCED` by `FIRST_CONTACT` |

The modules state further claims of the documents that the code does not keep. They
stand under "What the documents say and the code does not do"; adding one to the
configuration named here shows the behaviour.

| Property | Configuration | Document | Code |
|---|---|---|---|
| `RecordedWhileOpen` | `MCSales.cfg` | INTEGRATION_CONTRACTS:176: "The lead must already be `INTERESTED` or `QUALIFYING`" | `confirm` checks the lead in one read and saves in a later transaction: a lead that was closed in between gets a requirement version |
| `QualifiedOnReadyRequirement` | `MCSales.cfg` | STATE_MACHINE:69: "`QUALIFIED` requires the active service schema's minimum confirmed fields" | `finish` goes by the form it completes: after a newer form took a field back, a retry of the older one still qualifies the lead |
| `JobPricedItsRequirement` | `MCSales.cfg` | DOMAIN_MODEL:65: a job is "accepted requirement and quote snapshots" | `accept` combines the latest requirement with the oldest quote, which may have been priced from an earlier version |
| `JobReadyIsCleared` | `MCSales.cfg` | STATE_MACHINE:73: "`JOB_READY` requires ... risk clearance" | `accept` vouches for it without reading the lead's risk signals |
| `RecordedInCurrentMode` | `MCConversation.cfg` | INTEGRATION_CONTRACTS:103: "A later message keeps the current mode, including `HUMAN_CONTROL`" | the mode is read without a row lock, and the control change may commit before the message |
| `AllowedOnlyWhileActive` | `MCConversation.cfg`, with a fourth request | INTEGRATION_CONTRACTS:136: "Automated reply is allowed only when the mode is `AI_ACTIVE` and automation is not paused" | a repeated control request answers by the mode it once set |
| `OneStepPerKey` | `MCAutomation.cfg` | INTEGRATION_CONTRACTS:78: "One call performs one allowed synthetic step. The same key returns the stored result" | the outcome is stored after the step: a run that died in between is retried from where its first attempt left the lead |
| `QuoteInProgress` | `MCAutomation.cfg` | ADR-0017:37: "`QUOTE_READY`: wait, because the fixture quote is already in progress" | when the request that moved the lead there died, no run moves it on |
| `SafeEventsCanBeRequeued` | `MCOutbox.cfg` | INTEGRATION_CONTRACTS:216: redrive "requeues an unpublished safe event" | redrive needs `last_error`, which an event that ran out of attempts through failures does not have |
| `TerminalStaysTerminal` | `MCLeadHold.cfg`, with `Targets <- JobTargets`, `Keys <- EightKeys` and `SYMMETRY Symmetry` | STATE_MACHINE:80: `JOB_READY` is terminal | `JOB_READY` is in `ACTIVE`, so it can be held (and closed) |
| `HistoryIsLexical` | `MCComponents.cfg`, as `Migrate!HistoryIsLexical` defined in `MCComponents` | ADR-0006:21: the runner "applies files in lexical order" | a file is only compared with itself: one with a lower number is executed after a higher one when the releases arrive in that order |

One more is not modelled: `InMemoryInboundStore` emits its event with the mode of
the write (`in-memory-inbound.store.ts:85`), not with that of the conversation the
message joins, which is what the Postgres store does. The contract therefore leaves
the announced mode open.

## 5. Proofs

All proofs are checked by TLAPS (SMT, Zenon, and LS4 for temporal steps), from the
named assumptions of the modules and nothing else.

**LeadLifecycle.** The safety properties are not inductive by themselves: a
deciding request writes a version that it computed from an earlier read, so that
`VersionStepsByOne`, say, depends on what a request may still believe. `IInv` adds

- `ReviewRowsAgree`: a review's row and its message's row move together;
- `KeysNameDecisions`: a decision key belongs to a decided review;
- `ContactIsDelivery`: a message went out for exactly the leads past first contact;
- `ReadsStayUsable`: a deciding request knows its review's lead for good, and its two
  versions as bounds: `expected <= lead.version` after the first read, and
  `expected < next <= lead.version + 1` after the second. At the commit the update
  demands `lead.version = expected`, whence `next = expected + 1`.

Steps that only read share one lemma (`ReadStep`); four actions write and have a
proof each. From `Invariance` follow the theorems for `TypeOK`,
`OpenReviewMatchesStage`, `SuspendedKnowsResume`, `ReplyTellsDelivery`,
`VersionStepsByOne`, `DecidedReviewIsFinal`, `KeyTakesEffectOnce`, `LogIsHistory`,
and `Refinement`, that every step is a step of `LeadContract` or a stutter.
`KeyTakesEffectOnce` and `LogIsHistory` need no more than that only commits write
and each checks its key and version.

`StoresRefinement` is about the stores that the tests run on: a commit is the whole
request over `LeadMemory`, at the moment of the commit. Its reads were made before
that, so it needs what they found to be what they would find now. For versions that
is `ReadsStayUsable`; for the rest it is `ChecksStayTrue`, a second invariant on top
of the first: a preparation that got past its checks is of an approved source, a
decision carries out what it was asked, and an outcome `EXPIRED` is of a review that
is still late. The converse of the last is no invariant: a review may get late
between the clock and the commit, which `LeadMemory` allows as well.

**LeadContract.** `TypeCorrect`, `ContactsAreDeliveries` and `ContactIsNeverUndone`:
with the refinement they carry over to the interleaved system. `Components_proofs`
restates the last two of `ComponentsSpec`; `SameLead` says that the two instances of
the contract, of the theorems and of the composition, have the same behaviours.

**Outbox.** `IInv` adds `HandingIsPublished` (what a drain is about to hand off is
published and accepted by that drain's release, which is never taken back) and
`AbsentRowsIdle`. From it: `TypeOK`, `HandoffsAreVouched`, `PublishedIsFinal`.
`FaultsAloneStrand` counts: `AttemptsCounted` says that the attempts of an open event
that is not buried are no more than the faults so far and the drains that hold the
event. A claim adds to both sides, a fault moves one from the drains to the faults, a
redrive takes the attempts back, and publishing or burying settles the event.

**Ingestion.** `IInv` says what each request knows of the tables while its rows are
not committed: the key it reserved is in no other row (`KeyIsMine`), nor is the
record it inserted (`RecordIsMine`), and the lead that it found is there
(`LeadIsThere`); `OwnLead` and `OwnersCreated` keep ids apart. From it: `TypeOK`,
`AnswersAgree` and `Refinement`. A commit that inserted a lead is the contract's
creation, one that met a lead its duplicate, every other step a stutter.

**Conversation.** `Exclusive` is what the locks give: no two transactions hold one
telephone, one message id, one row or one uncommitted key. `MissingMessage`,
`MissingCustomer` and `MissingConversation` say that what a delivery did not find is
still not there, `FoundCustomer` and `FoundConversation` that what it found still
is, and `ControlKnows` that the conversation of a control request is as it was when
it was locked. The first three need `Exclusive`: the only other request that could
insert such a row holds the same lock. `Identity` (one customer per telephone, one
conversation per customer, one message per id) then survives every commit, and with
`UniqueIds` and `RowsAreDone`, by which a pending request's id is still unused,
every commit is a step of the contract. From it: `TypeOK`, `MissingStaysMissing`,
`OneThread` and `Refinement`.

**Automation.** `HeldKnows` (a run that began while the conversation was held, and
has been since, gets no further than its reads), `StatusKnown`, `ReviewKnown`,
`Numbered`, and `WorkDone`: between its step and the record of its outcome a run
relies on a quote or a plan of its key that is there and that nobody takes back, and
after first contact on `ContactDecided`: some review is approved, or a run with its
key has decided one. More is not true: that decision may be the expiry of
`automation_expired`, and this is the only way to an advance without an approval.
From it: `TypeOK`, `HeldRunsDoNothing`, `StoredRunsHaveRecords`, `OneAnswerPerKey`.

A conversation's control changes are counted from what the contract's steps do, which
`Refinement` has shown to be all that the tables see. `HistoryInv` says that every
change belongs to a conversation and to one key, that a conversation of version `n`
has one change of each version from 2 to `n`, and that two changes in a row differ in
mode. Only `Change` adds a row to `changes`, with the version it writes to the
conversation. That gives a bijection between the versions and the changes, hence the
equation of `ControlHistory`.

**Sales.** A request of the commercial operations is long: it looks its key up, reads,
stores a record and then moves the lead, each in a transaction. `Good` is what it may
rely on at each of these places: the row it moves the lead for is stored
(`RowIsStored`), the price it is about to store was made from a requirement version
of this lead (`PricedFromVersion`), and a job's snapshot is of a quote and a
requirement that are there, in the order in which they were (`SnapshotHolds`). The
tables only grow (`Grows`), so `Good` outlives the steps of the others
(`GoodStays`); a lead that changes gets a new version, so that the status a request
answers was once the lead's (`MovesWereTrue`). `VersionsHaveLatest`,
`QuotesHaveFirst` and `QuotesArePriced` are about the tables alone. From it:
`TypeOK`, `StageHasRecord`, `AnswersWereTrue` and `JobFollowsQuote`.

**Components.** `EachIsItself` shows that a behaviour of the composition is a
behaviour of every component, so an invariant proved of one component's
specification holds of all side by side; the theorems are stated of `ComponentsSpec`,
whose properties the run `components` checks.

- `DeliveryCallbacks`: `MetStays` says that rows are never removed, so a report that
  met another one goes on meeting it. From it `OneOutcomePerEvent`.
- `Migrations`: `LockHeld`: a run that has read the ledger has the lock. Hence
  `AheadIsKnown`: for the files it has not got to, what it read is still so;
  `FileIsNew`; and `BehindIsApplied`. `HistoryOnce` ties the ledger to the history.
  From it `LedgerIsHistory`, for any number of runs, files and releases.
- `RateLimit`: the times at which a client's requests passed are in order
  (`TimesInOrder`), those of the open window are the last ones and begin with the
  window (`WindowHasFirst`), and the request that opened a window came when the one
  before it was over (`EarlierWindowIsOver`). So a request and the one twice the
  limit before it are at least a window apart (`TwoLimitsApart`), and `LimitHolds`
  counts an interval of indexes. The clock is only assumed not to go back.
- `Requirements`: `FormInv` relates what the loop has kept to the positions of the
  fields it has passed: what is confirmed matches the catalogue (`ConfirmedMatch`)
  and is a value that people gave (`KeptIsHuman`), and the contradictions are the
  names with two such values, though the loop compares with the last only
  (`DifferencesSeen`). From it `LoopIsReference`,
  for forms of any length, and `PriceIsForHours`, by arithmetic on the minutes of a
  day, for any rate.

### What is only model-checked

Every invariant, action property and refinement that a passing run checks is a
theorem. The liveness properties `SafeEventsGetOut`, `EveryRequestEnds`,
`EveryoneEnds` and `RetryCompletes` are not: TLAPS does not treat `ENABLED` and so
not fairness. What `Automation`, `RateLimit`, `Requirements` and `Outbox` bound
(section 3) is a constant of the theorems too, of any size.

## 6. Plan

Done: the core (leads, first contact, outbox), ingestion, conversation, the
commercial operations, automation, callbacks, requirement forms, rate limit,
migrations, and the in-memory stores of leads, first contact and conversation.

Proved: every safety property and refinement of the runs.

Left, in this order:

1. The in-memory outbox as an abstraction of `Outbox`, and the refinement as a
   theorem.
2. The hazards that `PROJECT.json` lists without a property.
3. The rules of the safety package that only refuse, as operators with theorems
   about how they combine.

## 7. Checking

`tlc -config MCLeadContact.cfg MCLeadLifecycle.tla` and likewise for the other
configurations; `tlapm LeadLifecycle_proofs.tla` and likewise for the other proofs.
With two workers `lead_contact` takes one to three minutes, `outbox`, `conversation`,
`automation` and `components` one or two each, `sales` half a minute, everything else a few seconds. The proofs
of `Conversation` and `LeadLifecycle` take minutes, the others less than one each.

## 8. Not modelled, and why

- The operator views of `OperationsService` (queue, timeline, dashboard, masked lead
  and conversation): reads that change nothing. Endpoints that are disabled and
  always refuse.
- Contracts, exception filters, logging, dependency injection, architecture tests:
  no state. Configuration: its values are constants and initial choices here.
- Message texts, phone masks, audit entries, correlation identifiers: written once
  with what they describe, read by nothing that decides.
- Signatures and phone hashes: cryptography; a hash is as good as the identity.
  Collisions of `hashtext` between different lock names: Postgres breaks the
  deadlock that they can cause by failing one of the two, which `Fail` is.
- Rules of the safety package that only ever refuse, risk decisions and operator
  authorization: tables without state.
- The mock provider: a constant answer.
- The in-memory outbox, requirement, risk and commercial stores: they are maps with
  the operations of their Postgres counterparts, without anything to interleave.
- The settings in which automation always refuses: assist mode, paused, real
  sources.
- Rejection codes of commands: a rejected command writes nothing.
