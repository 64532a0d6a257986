\* Each component by itself; a release of Migrations lets one run overtake another.
SPECIFICATION ComponentsSpec
CONSTANTS
  r1 = r1  r2 = r2  r3 = r3  k1 = k1  k2 = k2
  listing = listing  edited = edited  other = other
  record = record  otherRecord = otherRecord
  original = original  changed = changed
  l1 = l1  l2 = l2
  Requests <- ThreeRequests
  Keys <- TwoKeys
  Listings <- ThreeListings
  Records <- TwoRecords
  RecordOf <- Described
  Synthetic <- SyntheticListings
  Approval = TRUE
  EventIds <- TwoEvents
  Approved <- OneTemplate
  Reports <- SomeReports
  Runs <- TwoRuns
  Files = 3
  Contents <- TwoContents
  Releases <- FourReleases
  Clients <- TwoClients
  Limit = 2
  WindowMs = 3
  MaxTime = 6
  Leads <- TwoLeads
  Names <- ThreeNames
  Required <- TwoRequired
  HoursField = "working_hours"
  OtherNames <- Unknown
  Values <- SixValues
  Matches <- Accepted
  TimeRange <- Times
  Special <- LiveIn
  OtherCodes <- NightShift
  Rate = 1
  MaxFields = 4
  MaxCodes = 1
INVARIANTS
  TypesOK
  AnswersAgree
  OneOutcomePerEvent
  LedgerIsHistory
  LimitHolds
  LoopIsReference
  PriceIsForHours
  ContactIsDelivery
PROPERTIES
  ImplementsContract
  EveryoneEnds
  NeverUncontacted
\* Every request is sent once, the clock is bounded, a form is full or refused,
\* and a closed lead accepts nothing more.
CHECK_DEADLOCK FALSE
