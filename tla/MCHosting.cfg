SPECIFICATION FairSpec
CONSTANTS
  Accounts <- TwoAccounts
  NoAccount = NoAccount
  Listings <- TwoListings
  Selections <- TwoSelections
  MaxStarts = 2
  MaxRestarts = 2
INVARIANTS
  TypeOK
  CountsAddUp
  SavedIsCurrent
  StartedOnce
  HostedTaskIsWatched
PROPERTIES
  StopEnds
  QueueAdvances
