CONSTANTS
  Margin = 6
  ColdStart = 4
  Transit = 1
  MaxDelay = 12
  PerCalls <- MCPerCalls
  Manuals <- MCManuals
  ClientDefaults <- MCClientDefaults
  OpDefaults <- MCOpDefaults
  Timeouts <- MCTimeouts
CHECK_DEADLOCK FALSE
SPECIFICATION Spec
INVARIANTS
  DeadlineOutlastsServer
