CONSTANTS
  Null = Null
  Messages = {m1}
  LeaseTime = 0
  Intervals = {0}
  Budgets = {2}
  MaxNow = 2
  LastClaim = 1
  MaxClaims = 2
  Reporters = {h1}
  Reportable = {"ACCEPTED", "FAILED"}
  MaxTries = 2
  Operators = {o1}
  OpKinds = {}
  Pollers = {p1}
  Sweepers = {s1}
SPECIFICATION FairSpec
PROPERTIES DispatchEnds AbandonedSendEnds
CHECK_DEADLOCK FALSE
