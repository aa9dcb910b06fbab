CONSTANTS
  Null = Null
  Messages = {m1}
  LeaseTime = 0
  Intervals = {0}
  Budgets = {2}
  MaxNow = 1
  LastClaim = 1
  MaxClaims = 2
  Reporters = {}
  Reportable = {"ACCEPTED", "FAILED"}
  MaxTries = 2
  Operators = {o1}
  OpKinds = {"cancel"}
  Pollers = {p1}
  Sweepers = {}
SPECIFICATION Spec
SYMMETRY Handlers
PROPERTIES CancelOnlyQueued
CHECK_DEADLOCK FALSE
