----------------------------- MODULE Requirements -----------------------------
(***************************************************************************)
(* A requirement form and its price: the loop of assessRequirements over   *)
(* the fields and special requirements a client sends, fakeExtract, and    *)
(* what scheduledHours and calculatePrice make of the working hours.       *)
(*                                                                         *)
(* One field or code is one step; `fields` and `codes` keep what the loop  *)
(* has been over, so that its variables can be compared with a definition  *)
(* that looks at the whole form.                                           *)
(***************************************************************************)
EXTENDS Integers, Sequences, FiniteSets

CONSTANTS
  Names,         \* names of the active schema's fields
  Required,      \* those it requires
  HoursField,    \* working_hours
  OtherNames,    \* names it does not have
  Values,        \* values a client may send
  Matches,       \* name and value accepted by valueMatches
  TimeRange,     \* start and end of a working_hours value, in minutes of a day
  Special,       \* special requirements of the schema
  OtherCodes,    \* codes it does not have
  Rate,          \* hourlyMinor of the sandbox rate card
  MaxFields,     \* bound on the fields of a form
  MaxCodes       \* bound on its special requirements

Nil == "nil"

RequirementsAssumption ==
  /\ Required \subseteq Names
  /\ HoursField \in Required
  /\ Names \cap OtherNames = {} /\ Special \cap OtherCodes = {}
  /\ Matches \subseteq Names \X Values
  /\ Nil \notin Values
  /\ \A v \in Values :
       <<HoursField, v>> \in Matches => TimeRange[v] \in (0..1439) \X (0..1439)
  /\ Rate \in Nat \ {0}

VARIABLES
  fields,          \* input.fields up to where the loop is
  codes,           \* input.specialRequirements up to where the loop is
  confirmed,       \* the value of each name, Nil for none
  contradictions,  \* names with differing values
  evidence,        \* evidenceCount
  special,         \* specialRequirements
  refused          \* INVALID_REQUIREMENT was returned

vars == <<fields, codes, confirmed, contradictions, evidence, special, refused>>

-----------------------------------------------------------------------------

\* `sure` is a confidence of 1; the transport keeps it between 0 and 1.
Fields ==
  [name: Names \cup OtherNames, value: Values, source: {"HUMAN", "FAKE_MODEL"}, sure: BOOLEAN]

TypeOK ==
  /\ fields \in Seq(Fields)
  /\ codes \in Seq(Special \cup OtherCodes)
  /\ confirmed \in [Names -> Values \cup {Nil}]
  /\ contradictions \subseteq Names
  /\ evidence \in Nat
  /\ special \subseteq Special
  /\ refused \in BOOLEAN

\* A human fact is certain, evidence is not.
Valid(f) == <<f.name, f.value>> \in Matches /\ (f.source = "HUMAN" <=> f.sure)

Init ==
  /\ fields = <<>> /\ codes = <<>>
  /\ confirmed = [n \in Names |-> Nil]
  /\ contradictions = {} /\ evidence = 0
  /\ special = {} /\ refused = FALSE

Refuse(f) ==
  /\ ~Valid(f)
  /\ refused' = TRUE
  /\ UNCHANGED <<confirmed, contradictions, evidence>>

Count(f) ==
  /\ Valid(f)
  /\ f.source = "FAKE_MODEL"
  /\ evidence' = evidence + 1
  /\ UNCHANGED <<confirmed, contradictions, refused>>

\* The last value of a name is kept; the loop compares a value with that one.
ConfirmForgiving(f) ==
  /\ Valid(f)
  /\ f.source = "HUMAN"
  /\ confirmed' = [confirmed EXCEPT ![f.name] = f.value]
  /\ contradictions' =
       IF confirmed[f.name] \notin {Nil, f.value}
       THEN contradictions \cup {f.name} ELSE contradictions \ {f.name}
  /\ UNCHANGED <<evidence, refused>>
Confirm(f) ==
  /\ Valid(f)
  /\ f.source = "HUMAN"
  /\ confirmed' = [confirmed EXCEPT ![f.name] = f.value]
  /\ contradictions' =
       IF confirmed[f.name] \notin {Nil, f.value}
       THEN contradictions \cup {f.name} ELSE contradictions
  /\ UNCHANGED <<evidence, refused>>

\* The next of the fields, all of which come before the codes.
TakeField(f) ==
  /\ ~refused /\ codes = <<>>
  /\ Len(fields) < MaxFields
  /\ fields' = Append(fields, f)
  /\ Refuse(f) \/ Count(f) \/ Confirm(f)
  /\ UNCHANGED <<codes, special>>

TakeCode(code) ==
  /\ ~refused
  /\ Len(codes) < MaxCodes
  /\ codes' = Append(codes, code)
  /\ \/ code \in Special /\ special' = special \cup {code} /\ UNCHANGED refused
     \/ code \notin Special /\ refused' = TRUE /\ UNCHANGED special
  /\ UNCHANGED <<fields, confirmed, contradictions, evidence>>

Next ==
  \/ \E f \in Fields : TakeField(f)
  \/ \E code \in Special \cup OtherCodes : TakeCode(code)

Spec == Init /\ [][Next]_vars

-----------------------------------------------------------------------------
(* What becomes of the form *)

MissingFields == {n \in Required : confirmed[n] = Nil}

Ready == MissingFields = {} /\ contradictions = {}

\* fakeExtract, of a request without free text: which of the fields it lets through.
Extracted(f) == Valid(f) /\ f.source = "FAKE_MODEL"

Extract(fs) == {i \in DOMAIN fs : Extracted(fs[i])}

\* scheduledHours of a value, 0 for null.
ScheduledHoursRounded(v) ==
  LET minutes == TimeRange[v][2] - TimeRange[v][1]
  IN IF minutes <= 0 THEN 0 ELSE minutes \div 60
ScheduledHours(v) ==
  LET minutes == TimeRange[v][2] - TimeRange[v][1]
  IN IF minutes <= 0 \/ minutes % 60 # 0 THEN 0 ELSE minutes \div 60

\* calculatePrice with the sandbox rate card, 0 for PRICING_NOT_AVAILABLE.
CalculatePrice(hours) == IF hours \in 1..24 THEN Rate * hours ELSE 0

-----------------------------------------------------------------------------
(* Properties *)

\* The values that people gave for a name.
HumanValues(fs, n) ==
  {fs[i].value : i \in {i \in DOMAIN fs : fs[i].source = "HUMAN" /\ fs[i].name = n}}

(***************************************************************************)
(* Only the last value is kept and compared, and yet a form is accepted,   *)
(* contradictory and ready exactly when a reading of all of its fields     *)
(* says so: a value repeated after another one, or back again, counts.     *)
(* Only people's values do; the evidence is what the extractor lets        *)
(* through of the form.                                                    *)
(***************************************************************************)
LoopIsReference ==
  ~refused =>
    /\ \A i \in DOMAIN fields : Valid(fields[i])
    /\ \A n \in Names :
         n \in contradictions <=> \E v, w \in HumanValues(fields, n) : v # w
    /\ Ready <=>
         /\ \A n \in Required : HumanValues(fields, n) # {}
         /\ \A n \in Names : \A v, w \in HumanValues(fields, n) : v = w
    /\ \A n \in Names :
         n \notin contradictions /\ confirmed[n] # Nil =>
           HumanValues(fields, n) = {confirmed[n]}
    /\ evidence = Cardinality(Extract(fields))

(***************************************************************************)
(* A ready form has a price exactly when its working hours are a number of *)
(* whole hours of one day, and the price is the rate for these.            *)
(***************************************************************************)
PriceIsForHours ==
  Ready =>
    LET v == confirmed[HoursField]
        price == CalculatePrice(ScheduledHours(v))
        elapse(h) == TimeRange[v][1] + 60 * h = TimeRange[v][2]
    IN /\ price = 0 <=> \A h \in 1..24 : ~elapse(h)
       /\ \A h \in 1..24 : elapse(h) => price = Rate * h

=============================================================================
