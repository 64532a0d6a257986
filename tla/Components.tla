----------------------------- MODULE Components -----------------------------
(***************************************************************************)
(* The components that share no state with the others, side by side:       *)
(* Ingestion, DeliveryCallbacks, Migrations, RateLimit and Requirements,   *)
(* and LeadContract, whose catalogue of moves is explored whole here.      *)
(* A behaviour is a behaviour of one of them, chosen at the start; the     *)
(* variables of the others keep their first values, so that TLC explores   *)
(* the sum of their state spaces and not the product.                      *)
(***************************************************************************)
EXTENDS Ingestion, Integers

CONSTANTS
  EventIds, Approved, Reports,                  \* DeliveryCallbacks
  Runs, Files, Contents, Releases,              \* Migrations
  Clients, Limit, WindowMs, MaxTime,            \* RateLimit
  Leads,                                        \* LeadContract
  Names, Required, HoursField, OtherNames, Values, Matches, TimeRange,
  Special, OtherCodes, Rate, MaxFields, MaxCodes  \* Requirements

VARIABLES
  component,
  callbacks, reported,
  ledger, history, lock, run,
  now, window, passed,
  status, resume, delivered,
  fields, codes, confirmed, contradictions, evidence, special, refused

Callbacks == INSTANCE DeliveryCallbacks WITH request <- reported

Migrate == INSTANCE Migrations

Limiter == INSTANCE RateLimit

Form == INSTANCE Requirements

Lead == INSTANCE LeadContract

ASSUME ComponentAssumptions ==
  /\ Callbacks!CallbackAssumption
  /\ Migrate!MigrationsAssumption
  /\ Limiter!RateLimitAssumption
  /\ Form!RequirementsAssumption

callbackVars == <<callbacks, reported>>
migrationVars == <<ledger, history, lock, run>>
rateVars == <<now, window, passed>>
formVars == <<fields, codes, confirmed, contradictions, evidence, special, refused>>
leadVars == <<status, resume, delivered>>
allVars == <<component, vars, callbackVars, migrationVars, rateVars, formVars, leadVars>>

-----------------------------------------------------------------------------

ComponentsInit ==
  /\ component \in
       {"ingestion", "callbacks", "migrations", "rate limit", "requirements", "lead"}
  /\ Init /\ Callbacks!Init /\ Migrate!Init /\ Limiter!Init /\ Form!Init /\ Lead!Init

ComponentsNext ==
  /\ UNCHANGED component
  /\ \/ /\ component = "ingestion" /\ Next
        /\ UNCHANGED <<callbackVars, migrationVars, rateVars, formVars, leadVars>>
     \/ /\ component = "callbacks" /\ Callbacks!Next
        /\ UNCHANGED <<vars, migrationVars, rateVars, formVars, leadVars>>
     \/ /\ component = "migrations" /\ Migrate!Next
        /\ UNCHANGED <<vars, callbackVars, rateVars, formVars, leadVars>>
     \/ /\ component = "rate limit" /\ Limiter!Next
        /\ UNCHANGED <<vars, callbackVars, migrationVars, formVars, leadVars>>
     \/ /\ component = "requirements" /\ Form!Next
        /\ UNCHANGED <<vars, callbackVars, migrationVars, rateVars, leadVars>>
     \/ /\ component = "lead" /\ Lead!Next
        /\ UNCHANGED <<vars, callbackVars, migrationVars, rateVars, formVars>>

ComponentsSpec ==
  ComponentsInit /\ [][ComponentsNext]_allVars /\ Fairness /\ Migrate!Fairness

-----------------------------------------------------------------------------
(* Properties: those of the components, by the names they have there *)

TypesOK ==
  /\ TypeOK /\ Callbacks!TypeOK /\ Migrate!TypeOK /\ Limiter!TypeOK /\ Form!TypeOK

\* Of delivery callbacks.
OneOutcomePerEvent == Callbacks!OneOutcomePerEvent

\* Of migrations.
LedgerIsHistory == Migrate!LedgerIsHistory

\* Of the rate limit.
LimitHolds == Limiter!LimitHolds

\* Of requirement forms.
LoopIsReference == Form!LoopIsReference
PriceIsForHours == Form!PriceIsForHours

\* Of the lead's contract: past first contact means delivered, and that is never undone.
ContactIsDelivery == Lead!ContactIsDelivery
NeverUncontacted == Lead!NeverUncontacted

\* Neither ingestions nor migrations wait for each other for ever.
EveryoneEnds == EveryRequestEnds /\ Migrate!EveryRunEnds

=============================================================================
