SPECIFICATION FairSpec

CONSTANTS
  Base = 16
  Streams <- AllStreams
  Chunks <- AllChunks

INVARIANTS
  TypeOK
  FramesTile
  CaughtUp
  LifecycleFollowsFrames
  BufferBounded

PROPERTIES
  LoopConsumes
  IngestReturns

\* A closed session, or one whose switch is silent, does nothing more.
CHECK_DEADLOCK FALSE
