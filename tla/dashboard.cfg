SPECIFICATION DashboardSpec
CONSTANTS
  Messages = {1, 2}
  Attempts = {t1}
  NoAttempt = NoAttempt
  None = None
  MaxClicks = 2
  MaxLosses = 1
  Recipients = {r1, r2}
  Names = {ada}
  Handles = {h1, h2}
  MaxTexts = 1
  Reported = {"DELIVERED"}
  OpenPages = {"schedule", "dashboard", "settings", "recipients"}
  Starts <- MCStarts
INVARIANTS DashboardTypeOK PositionsIncrease ScheduledOnce
PROPERTIES NoFlicker ScreenCatchesUp
CHECK_DEADLOCK FALSE
