SPECIFICATION LiveSpec
CONSTANTS
  t1 = t1
  t2 = t2
  h1 = h1
  NULL = NULL
  Tasks <- TwoTasks
  Hosts <- OneHost
  MaxSockets = 2
  Autostart = TRUE
INVARIANTS TypeOK OneClient RunningMeansClient NoSocketLost
PROPERTY ClientReaches
