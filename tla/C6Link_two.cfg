SPECIFICATION Spec
CONSTANTS
  Callers = {web, monitor}
  Nets = {home}
  Whole = {home}
  Garbled = garbled
  MaxRetry = 1
  MaxLine = 2
  NULL = NULL
INVARIANT AnyAnswer
