SPECIFICATION Spec

CONSTANTS
  Base = 16
  Streams <- SomeStreams
  Chunks <- AllChunks

INVARIANTS
  GeneralTrafficWhenActive

\* A closed session, or one whose switch is silent, does nothing more.
CHECK_DEADLOCK FALSE
