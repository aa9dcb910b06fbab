CONSTANTS
  Gateways = {g1}
  TimerBeats = {t1}
  Changing = {"automation"}
  OfflineAfter = 1
SPECIFICATION FairHealth
INVARIANTS HealthTypeOK
PROPERTIES BannerClears OfflineShown RecheckEnds
CHECK_DEADLOCK FALSE
