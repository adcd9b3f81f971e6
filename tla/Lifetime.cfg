SPECIFICATION Spec

CONSTANTS
  None = None
  Workers = {"w1"}

INVARIANTS
  UsesWhatLives

\* When main has returned, or run sleeps and no switch is there, nothing happens.
CHECK_DEADLOCK FALSE
