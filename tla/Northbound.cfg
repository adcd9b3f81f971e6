SPECIFICATION FairSpec

CONSTANTS
  c1 = c1
  c2 = c2
  b1 = b1
  d1 = d1
  none = none
  NoJob = none
  Jobs <- TwoConns
  Base <- OneBase
  Dynamic <- OneMore
  Kinds <- SomeKinds
  KeepAliveMax = 2
  MaxSent = 2

INVARIANTS
  TypeOK
  OneOwner
  ResponsesAccounted

PROPERTIES
  HttpPoolSpec
  ScrapeCoversAnswers
  NothingHangs

\* The interface is down for good, and nobody has anything left to do.
CHECK_DEADLOCK FALSE
