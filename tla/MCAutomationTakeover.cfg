\* A takeover during a run.
SPECIFICATION Spec
CONSTANTS
  r1 = r1  r2 = r2  k1 = k1  k2 = k2
  Requests <- OneRequest
  Keys <- OneKey
  AutoFirstContact = TRUE
  OtherTargets <- Journey
  MaxReviews = 2
  MaxVersion = 4
SYMMETRY Symmetry
PROPERTIES
  HumanControlPreventsDelivery
