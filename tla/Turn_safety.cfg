SPECIFICATION Spec
CONSTANTS
  MaxTurns = 3
  MaxToolCalls = 3
  CycleWindow = 2
  MaxErrors = 2
  SummaryTail = 2
  ResultTail = 1
  FitMax = 12
  ReserveMax = 11
  SummaryAt = 8
  Target = 6
  SummarySizes <- Sizes
  Batches <- ReadWriteOrBad
  Budgets <- Scenarios
INVARIANTS
  TranscriptAgrees
  CallsAnswered
  AbortOnce
  RunBounded
  ChatSettled
PROPERTIES
  PatchFaithful
  RunEnds
CHECK_DEADLOCK FALSE
