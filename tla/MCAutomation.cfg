\* Two runs, people and the customer at one lead.
SPECIFICATION Spec
CONSTANTS
  r1 = r1  r2 = r2  k1 = k1  k2 = k2
  Requests <- TwoRequests
  Keys <- OneKey
  AutoFirstContact = TRUE
  OtherTargets <- JourneyAndHold
  MaxReviews = 2
  MaxVersion = 6
SYMMETRY Symmetry
INVARIANTS
  TypeOK
  HeldRunsDoNothing
  StoredRunsHaveRecords
  OneAnswerPerKey
