SPECIFICATION LiveSpec
CONSTANTS
  Devs <- MCDevs
  Segs <- MCSegs
  Leds <- MCLeds
  Configs <- LiveConfigs
  NoEffect = "none"
  CacheMax = 0
  ClearAbove = 0
  ClearPeriod = 1
  CleanupPeriod = 2
  NetFails = TRUE
  Width = 4
  Default = 3
  NULL = NULL
INVARIANT LiveTracked
PROPERTIES Released Served
