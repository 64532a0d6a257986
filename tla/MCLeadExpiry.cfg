\* Two requests with one key decide one review around its expiry.
SPECIFICATION Spec
CONSTANTS
  l1 = l1  v1 = v1  v2 = v2  r1 = r1  r2 = r2  k1 = k1  k2 = k2
  Leads <- OneLead
  Synthetic <- OneLead
  Reviews <- TwoReviews
  Requests <- TwoRequests
  Keys <- TwoKeys
  Targets <- ContactTargets
  Reasons <- ContactReasons
  EvidenceSets <- NoEvidence
SYMMETRY Symmetry
INVARIANT
  ExpiredReplyMeansNothingSent
CHECK_DEADLOCK FALSE
