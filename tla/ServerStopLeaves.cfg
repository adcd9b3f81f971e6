SPECIFICATION Spec

CONSTANTS
  c1 = c1
  c2 = c2
  c3 = c3
  f1 = f1
  f2 = f2
  w1 = w1
  w2 = w2
  None = None
  Clients <- TwoClients
  Fds <- TwoFds
  Shared <- NoFds
  Workers <- TwoWorkers
  Kinds <- OnlyGood
  MaxPending = 1
  MayStop = TRUE

INVARIANTS
  StopClosesAll

\* A server with no work left waits for ever.
CHECK_DEADLOCK FALSE
