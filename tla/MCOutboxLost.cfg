\* One drain, one fault between markPublished and the handoff.
SPECIFICATION Spec
CONSTANTS
  e1 = e1  e2 = e2  e3 = e3  d1 = d1  d2 = d2
  Events <- TwoEvents
  Safe <- TodayEvents
  Later <- LaterEvents
  Drains <- OneDrain
  BatchSize = 2
  MaxAttempts = 2
  MaxFaults = 1
INVARIANT
  PublishedIsHandedOff
CHECK_DEADLOCK FALSE
