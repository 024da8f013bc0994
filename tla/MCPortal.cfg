SPECIFICATION FairSpec
CONSTANTS
  Origins = {o1, o2}
  NoOrigin = NoOrigin
  c1 = c1
  c2 = c2
  r1 = r1
  r2 = r2
  Callers = {c1, c2, r1, r2}
  Readers = {r1, r2}
  Operations <- MCOperations
  Targets = {o2}
  MaxLaunches = 3
  RetryDelays <- MCRetryDelays
  Reads = 1
  MaxTogether = 2
  MaxBeside = 0
INVARIANT PortalIsWhole
PROPERTY CallsEnd
