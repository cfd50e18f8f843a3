CONSTANTS
  SessionIds = {1, 2}
  Slots = 1
  QueueMax = 1
  Servers = {"p", "q"}
  BServer = "p"
  DServer = "d"
  Menus <- MCMenus
  Chats = {1, 2}
  TimerIds = {1, 2, 3}
  ProbeIds = {1, 2}
  Blinks = 1
  Fleets <- MCFleets
  MaxMails = 2
  MaxFaults = 2
  Adopters = {a1, a2}
  MaxEdits = 1
  Notables = {1, 2, 3, 4}
  StreamMax = 1
  JobsMax = 1
  Hooks = {1, 2}
  Names = {"p", "q"}
  Documents <- MCDocuments
  Patches <- MCPatches
  Sizes = {0, 2, 4}
  MaxPatches = 2
  MaxFaultsCfg = 1
  ChatBudgets <- MCChatBudgets
  KeepTail = 1
  GrantBudgets <- MCGrantBudgets
  Writers = {1, 2}
  MaxFileCalls = 3
  Sharers = {1, 2}
  MaxPolicyEdits = 1
  MaxDecisions = 2
  MaxPolicyBoots = 1
  Rememberers = {1, 2}
  BlockNotes = 1
  MemoryBudgets <- MCMemoryBudgets
  Ensurers = {1, 2}
  Tabs = {1, 2}
  PlanBudgets <- MCPlanBudgets
  StatSessions = {1, 2}
  StatAgents = {1, 2}
  StatProfiles = {1, 2}
  StatsBuffer = 2
  StatsBudgets <- MCStatsBudgets
  WatchedRuns = {1, 2}
  Armed <- Detectors
  NoNovelTurns = 2
  RepeatCount = 2
  RepeatWindow = 3
  TimeoutCount = 2
  TimeoutWindow = 3
  StuckAdmissions = 2
  ErrorWindow = 3
  ErrorPercent = 60
  BaselineTurns = 1
  DurationMultiplier = 2
  WatchBuffer = 2
  WatchMenus <- MCWatchMenus
SPECIFICATION MCSpec
INVARIANT DropsExactlyLatest
CHECK_DEADLOCK FALSE
