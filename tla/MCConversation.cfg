\* Deliveries and control requests that overlap and repeat.
SPECIFICATION LiveSpec
CONSTANTS
  r1 = r1  r2 = r2  r3 = r3  lA = lA  lB = lB  lC = lC  a = a  b = b
  hello = hello  bye = bye  k1 = k1  k2 = k2
  Requests <- ThreeRequests
  Leads <- ThreeLeads
  Phones <- Texts
  PhoneOf <- Telephones
  MessageIds <- Texts
  Bodies <- TwoBodies
  ControlKeys <- TwoKeys
  Inbound <- Deliveries
  Control <- Switched
  Switch <- EitherWay
INVARIANTS
  TypeOK
  OneThread
  MissingStaysMissing
  ControlHistory
PROPERTIES
  ImplementsContract
  EveryRequestEnds
\* Every request has been sent and answered.
CHECK_DEADLOCK FALSE
