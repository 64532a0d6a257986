\* As many faults as use up the attempts of an event.
SPECIFICATION Spec
CONSTANTS
  e1 = e1  e2 = e2  e3 = e3  d1 = d1  d2 = d2
  Events <- ThreeEvents
  Safe <- TodayEvents
  Later <- LaterEvents
  Drains <- TwoDrains
  BatchSize = 2
  MaxAttempts = 2
  MaxFaults = 2
INVARIANTS
  TypeOK
  HandoffsAreVouched
  OnlyFaultsStrand
PROPERTIES
  PublishedIsFinal
  SafeEventsGetOut
\* Everything may be published or buried.
CHECK_DEADLOCK FALSE
