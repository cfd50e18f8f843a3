SPECIFICATION Spec
CONSTANTS
  Publishers = {p1, p2}
  Clients = {c1}
  MaxSeq = 2
  MaxRotate = 1
  MaxConn = 2
  MaxFail = 1
  BusCap = 1
  PatchCap = 1
SYMMETRY PublisherSymmetry
INVARIANTS
  LiveIsReplay
  BrowserIsReplay
  ShownSurvives
  JournalIsTape
  StartsAgain
PROPERTY
  FeedSpec
CHECK_DEADLOCK FALSE
