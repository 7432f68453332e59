SPECIFICATION Spec
CONSTANTS
  Channels = {c1, c2, c3}
  Configs <- MCConfigs
  Allowed <- MCAllowed
  QueueDepth = 2
  NULL = NULL
INVARIANTS Owned InBuffer
PROPERTY BufferStays
