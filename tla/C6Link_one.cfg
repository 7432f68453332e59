SPECIFICATION Spec
CONSTANTS
  Callers = {web}
  Nets = {piped}
  Whole = {}
  Garbled = garbled
  MaxRetry = 1
  MaxLine = 2
  NULL = NULL
INVARIANTS TypeOK OwnAnswer KeepsTrying
