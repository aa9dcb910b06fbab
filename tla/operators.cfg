CONSTANTS
  Null = Null
  Messages = {m1}
  LeaseTime = 0
  Intervals = {0}
  Budgets = {2}
  MaxNow = 1
  LastClaim = 1
  MaxClaims = 2
  Reporters = {h1}
  Reportable = {"ACCEPTED", "RECEIVED", "FAILED"}
  MaxTries = 2
  Operators = {o1, o2}
  OpKinds = {"cancel", "retry", "clear"}
  Pollers = {p1}
  Sweepers = {s1}
SPECIFICATION Spec
SYMMETRY Handlers
INVARIANTS TypeOK LeaseCoherence EventLogged
PROPERTIES CanceledStays LivesAsSpecified
CHECK_DEADLOCK FALSE
