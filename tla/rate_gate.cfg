CONSTANTS
  Null = Null
  Messages = {m1, m2}
  LeaseTime = 0
  Intervals = {1, 2}
  Budgets = {2}
  MaxNow = 2
  LastClaim = 2
  MaxClaims = 2
  Reporters = {}
  Reportable = {"ACCEPTED", "FAILED"}
  MaxTries = 2
  Operators = {o1}
  OpKinds = {"settings", "send-now"}
  Pollers = {p1, p2}
  Sweepers = {}
SPECIFICATION Spec
SYMMETRY Handlers
INVARIANTS EtasAreReleaseTimes
PROPERTIES PollsSpaced
CHECK_DEADLOCK FALSE
