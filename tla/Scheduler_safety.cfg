SPECIFICATION Spec
CONSTANTS
  a = a
  b = b
  p = p
  Sessions = {a,b}
  Texts = {x,y}
  Profiles = {p}
  ServerOf <- OneServer
  MaxConcurrent = 1
  QueueDepth = 1
  MaxSent <- TwoAndOnes
  MaxInCall = 1
  Deletable = {a}
CHECK_DEADLOCK FALSE
INVARIANTS TypeOK RunLedger MessageLedger SlotsFull HeldHasPending
PROPERTY HoldKept
