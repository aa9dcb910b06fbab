CONSTANTS
  Gateways = {g1}
  TimerBeats = {t1, t2}
  Changing = {"automation"}
  OfflineAfter = 1
SPECIFICATION HistorySpec
PROPERTIES RecheckIsHonest
CHECK_DEADLOCK FALSE
