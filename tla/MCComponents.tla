---------------------------- MODULE MCComponents ----------------------------
(***************************************************************************)
(* Instances of Components for TLC.                                        *)
(***************************************************************************)
EXTENDS Components, TLC

CONSTANTS
  r1, r2, r3, k1, k2,
  listing, edited, other, record, otherRecord,  \* Ingestion
  original, changed,                            \* Migrations
  l1, l2                                        \* LeadContract

-----------------------------------------------------------------------------
(* Ingestion: two bodies describe one source record, a third another. *)

ThreeRequests == {r1, r2, r3}
TwoKeys == {k1, k2}
ThreeListings == {listing, edited, other}
TwoRecords == {record, otherRecord}
Described == (listing :> record) @@ (edited :> record) @@ (other :> otherRecord)
SyntheticListings == {listing, edited}

(* Delivery callbacks: reports on two events, some that must be refused. *)

TwoEvents == {"e1", "e2"}
OneTemplate == {"sandbox-first-contact-v1"}
SomeReports ==
  [event: TwoEvents, channel: {"MOCK"}, template: OneTemplate, status: {"DELIVERED", "FAILED"}]
  \cup [event: {"e1"}, channel: {"MOCK"}, template: {"whatsapp-utility-v1"},
        status: {"FAILED"}]
  \cup [event: {"e1"}, channel: {"WHATSAPP"}, template: OneTemplate, status: {"DELIVERED"}]

(***************************************************************************)
(* Migrations: a release has the first file, a later one all three; one    *)
(* branched off without the second file, one edited the first.             *)
(***************************************************************************)
TwoRuns == {r1, r2}
TwoContents == {original, changed}
Full == [n \in 1..3 |-> original]
FourReleases ==
  {1 :> original, Full, [Full EXCEPT ![1] = changed], (1 :> original) @@ (3 :> original)}

(* The rate limit. *)

TwoClients == {"c1", "c2"}

(* The contract of the lead, over the whole catalogue of moves. *)

TwoLeads == {l1, l2}

(***************************************************************************)
(* Requirement forms: the working hours are a day, a night that ends on    *)
(* the next day, or end at half past.                                      *)
(***************************************************************************)
ThreeNames == {"days_per_week", "working_hours", "tasks"}
TwoRequired == {"days_per_week", "working_hours"}
Unknown == {"wage"}
SixValues == {"2", "5", "day", "night", "half", "cooking"}
Accepted == ({"days_per_week"} \X {"2", "5"})
            \cup ({"working_hours"} \X {"day", "night", "half"})
            \cup {<<"tasks", "cooking">>}
Times == ("day" :> <<540, 1020>>) @@ ("night" :> <<1320, 360>>) @@ ("half" :> <<540, 630>>)
LiveIn == {"LIVE_IN"}
NightShift == {"NIGHT_SHIFT"}

=============================================================================
