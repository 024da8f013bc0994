SPECIFICATION Spec
CONSTANTS
  c1 = c1
  c2 = c2
  Contents <- MCContents
  UsedSites <- OldMailSites
  Skew = 1
  MaxRedirects = 3
  MaxMails = 2
  Lag = 2
  Start = 2
  IdleUntil = 3
  RoundTicks = 1
  RoundLimit = 3
  AttemptLimit = 2
  BaselineAttempts = 3
CHECK_DEADLOCK FALSE
INVARIANT FirstRoundIsStrict
