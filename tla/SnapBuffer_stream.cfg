SPECIFICATION LiveSpec
CONSTANTS
  Frame = 3
  Cap = 7
  SamplesPerMs = 1
  Margin = 2
  DefaultDelay = 5
  ReadUnit = 1
  Latencies <- AllLatencies
INVARIANTS TypeOK BufferWindow DelayWindow
PROPERTY AnalysisFed
