SPECIFICATION LiveSpec
CONSTANTS
  Marker = 2
  Reserve = 3
  HeadLimit = 6
  Chunk = 5
  MaxTimeouts = 2
  Streams <- FewStreams
  PromptRestart = TRUE
INVARIANTS TypeOK OneUpdate WritesTheFile BootsWholeImages CompleteAccepted
PROPERTY UpdateEnds
