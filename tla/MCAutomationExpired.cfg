\* Two runs with one key, and a review that expires between their reads.
SPECIFICATION Spec
CONSTANTS
  r1 = r1  r2 = r2  k1 = k1  k2 = k2
  Requests <- TwoRequests
  Keys <- OneKey
  AutoFirstContact = TRUE
  OtherTargets <- Journey
  MaxReviews = 1
  MaxVersion = 4
SYMMETRY Symmetry
INVARIANTS
  AdvanceWasApproved
