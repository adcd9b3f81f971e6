SPECIFICATION FairSpec

CONSTANTS
  c1 = c1
  c2 = c2
  c3 = c3
  f1 = f1
  f2 = f2
  w1 = w1
  w2 = w2
  None = None
  Clients <- TwoClients
  Fds <- TwoFds
  Shared <- OneFd
  Workers <- OneWorker
  Kinds <- PartOrBad
  MaxPending = 1
  MayStop = TRUE

INVARIANTS
  TypeOK
  FreshKey
  AtMostOneLeft

PROPERTIES
  StopReturns
  ReapsAll
  Served

\* A server with no work left waits for ever.
CHECK_DEADLOCK FALSE
