\* Interrupted operations and their retries.
SPECIFICATION LiveScenarioSpec
CONSTANTS
  l1 = l1  r1 = r1  r2 = r2  k1 = k1  k2 = k2  full = full  partial = partial
  Leads <- OneLead
  Requests <- TwoRequests
  Keys <- TwoKeys
  Bodies <- BothBodies
  ReadyBodies <- FullBody
  Hours <- EightHours
  Targets <- HoldOrStart
  Uses <- EveryUse
  Scenarios <- OnlyInterrupted
PROPERTIES
  RetryCompletes
\* A lead may be closed, or reach its job with every key used.
CHECK_DEADLOCK FALSE
