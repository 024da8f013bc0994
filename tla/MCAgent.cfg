SPECIFICATION FairSpec
CONSTANTS
  Jobs = {j1}
  NoJob = NoJob
  Foreign = Foreign
  MaxCrashes = 1
  MaxRequests = 2
  MaxLosses = 1
INVARIANTS
  ReportsAreTrue
  ReportsAgree
  HeldForPendingJob
PROPERTIES
  LoopsNeverOverlap
  PendingIsReported
