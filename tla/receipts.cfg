CONSTANTS
  Null = Null
  Messages = {m1}
  LeaseTime = 0
  Intervals = {0}
  Budgets = {2}
  MaxNow = 0
  LastClaim = 0
  MaxClaims = 2
  Reporters = {}
  Reportable = {"ACCEPTED", "SENT", "DELIVERED", "RECEIVED", "FAILED"}
  MaxTries = 4
  Operators = {o1}
  OpKinds = {"retry"}
  Pollers = {g1}
  Sweepers = {}
  Gateways = {g1}
  Receipts = {"delivered", "read", "error"}
  Faults = {"reject", "lose", "mixed", "timeout", "unfound"}
SPECIFICATION FairSystem
PROPERTIES ReadsLand MessagesLive
CHECK_DEADLOCK FALSE
