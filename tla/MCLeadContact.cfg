\* First contact against concurrent workflow commands: two requests at a time.
SPECIFICATION Spec
CONSTANTS
  l1 = l1  v1 = v1  v2 = v2  r1 = r1  r2 = r2  k1 = k1  k2 = k2
  Leads <- OneLead
  Synthetic <- OneLead
  Reviews <- TwoReviews
  Requests <- TwoRequests
  Keys <- TwoKeys
  Targets <- ContactTargets
  Reasons <- ContactReasons
  EvidenceSets <- NoEvidence
SYMMETRY Symmetry
INVARIANTS
  TypeOK
  OpenReviewMatchesStage
  KeyTakesEffectOnce
  LogIsHistory
  SuspendedKnowsResume
  ReplyTellsDelivery
PROPERTIES
  DecidedReviewIsFinal
  ImplementsContract
  ImplementsStores
\* The keys of the instance run out, and a closed lead accepts nothing more.
CHECK_DEADLOCK FALSE
