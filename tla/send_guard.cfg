CONSTANTS
  Null = Null
  Messages = {m1}
  LeaseTime = 0
  Intervals = {0}
  Budgets = {2}
  MaxNow = 1
  LastClaim = 1
  MaxClaims = 2
  Reporters = {}
  Reportable = {"ACCEPTED", "SENT", "DELIVERED", "RECEIVED", "FAILED"}
  MaxTries = 4
  Operators = {}
  OpKinds = {}
  Pollers = {g1,g2}
  Sweepers = {s1}
  Gateways = {g1,g2}
  Receipts = {}
  Faults = {"crash", "lose"}
SPECIFICATION SystemSpec
SYMMETRY Processes
INVARIANTS SystemTypeOK RecordedSendIsLast
CHECK_DEADLOCK FALSE
