SPECIFICATION FairSpec
CONSTANTS
  c1 = c1
  c2 = c2
  Contents <- MCContents
  UsedSites <- MCSites
  Skew = 1
  MaxRedirects = 3
  MaxMails = 3
  Lag = 2
  Start = 2
  IdleUntil = 2
  RoundTicks = 1
  RoundLimit = 2
  AttemptLimit = 2
  BaselineAttempts = 3
CHECK_DEADLOCK FALSE
INVARIANT NoCodeTwice
INVARIANT BaselineStaysOut
INVARIANT CodesAreOfThisTask
PROPERTY OtpWaitEnds
