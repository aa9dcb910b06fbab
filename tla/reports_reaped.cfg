CONSTANTS
  Null = Null
  Messages = {m1}
  LeaseTime = 0
  Intervals = {0}
  Budgets = {2}
  MaxNow = 1
  LastClaim = 1
  MaxClaims = 2
  Reporters = {h1, h2}
  Reportable = {"DELIVERED", "RECEIVED", "FAILED"}
  MaxTries = 2
  Operators = {o1}
  OpKinds = {}
  Pollers = {p1}
  Sweepers = {s1}
SPECIFICATION Spec
SYMMETRY Handlers
INVARIANTS NoLostReport
PROPERTIES ReportsLinearize
CHECK_DEADLOCK FALSE
