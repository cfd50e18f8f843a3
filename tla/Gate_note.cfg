SPECIFICATION Spec
CONSTANTS
  Sessions = {"s"}
  Runs = {"r1", "r2"}
  SessionOf <- OneSession
  CallsOf <- ShellAndCycle
  Offered = {"once", "operator_mode", "stop"}
  MailOffered = {"STOP", "NOTE", "deny"}
  AllowMail = TRUE
  MaxAsks <- TwoAndOnes
  MaxMail = 1
CHECK_DEADLOCK FALSE
PROPERTY NoteKept
