SPECIFICATION Spec
CONSTANTS
  a = a
  b = b
  p = p
  Sessions = {a}
  Texts = {x}
  Profiles = {p}
  ServerOf <- OneServer
  MaxConcurrent = 2
  QueueDepth = 0
  MaxSent <- ThreeAndOnes
  MaxInCall = 0
  Deletable = {}
CHECK_DEADLOCK FALSE
PROPERTY StartsAfterEnd
