SPECIFICATION Spec

CONSTANTS
  s1 = s1
  s2 = s2
  f1 = f1
  f2 = f2
  None = None
  Switches <- TwoSwitches
  Fds <- TwoFds
  Packets <- WithTest
  MaxCalls = 3
  MaxRestarts = 2

SYMMETRY Symmetry

INVARIANTS
  FramesRecognised
