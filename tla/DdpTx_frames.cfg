SPECIFICATION LiveSpec
CONSTANTS
  Chunk = 4
  Sizes = {4, 8, 9}
  Fds = {s1, s2}
  Ids = 3
  NULL = NULL
INVARIANTS TypeOK Tiled OneSocket
PROPERTY ShowsFrames
