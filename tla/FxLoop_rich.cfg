SPECIFICATION Spec
CONSTANTS
  Devs <- MCDevs
  Segs <- MCSegs
  Leds <- MCLeds
  Configs <- RichConfigs
  NoEffect = "none"
  CacheMax = 4
  ClearAbove = 1
  ClearPeriod = 2
  CleanupPeriod = 3
  NetFails = FALSE
  Width = 4
  Default = 3
  NULL = NULL
INVARIANTS TypeOK OwnEffect OwnShare
