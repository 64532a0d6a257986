\* A lead is held at a stage past first contact.
SPECIFICATION Spec
CONSTANTS
  l1 = l1  v1 = v1  r1 = r1
  k1 = k1  k2 = k2  k3 = k3  k4 = k4  k5 = k5  k6 = k6  k7 = k7  k8 = k8
  Leads <- OneLead
  Synthetic <- OneLead
  Reviews <- OneReview
  Requests <- OneRequest
  Keys <- TwoKeys
  Targets <- HoldTargets
  Reasons <- NoReason
  EvidenceSets <- FullEvidence
INVARIANT
  HeldLeadCanReturn
CHECK_DEADLOCK FALSE
