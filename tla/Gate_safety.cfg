SPECIFICATION FairSpec
CONSTANTS
  Sessions = {"s"}
  Runs = {"r1", "r2"}
  SessionOf <- OneSession
  CallsOf <- ShellAndCycle
  Offered = {"once", "operator_mode", "stop"}
  MailOffered = {"STOP", "NOTE", "deny"}
  AllowMail = TRUE
  MaxAsks <- TwoAndOnes
  MaxMail = 1
CHECK_DEADLOCK FALSE
INVARIANTS TypeOK AnsweredOnce AskedFirst PendingIsAnswerable NoStaleRegistration
  OperatorModeAccepted
PROPERTY GateReturns
