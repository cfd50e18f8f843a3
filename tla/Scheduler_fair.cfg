SPECIFICATION FairSpec
CONSTANTS
  a = a
  b = b
  p = p
  Sessions = {a,b}
  Texts = {x}
  Profiles = {p}
  ServerOf <- OneServer
  MaxConcurrent = 1
  QueueDepth = 0
  MaxSent <- ThreeAndOnes
  MaxInCall = 0
  Deletable = {b}
CHECK_DEADLOCK FALSE
PROPERTIES QueuedRunStarts StopFreesSlot
