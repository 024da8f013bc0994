SPECIFICATION FairSpec
CONSTANTS
  Inputs <- TaskInputs
  Sessions <- TwoSessions
  NoSession = NoSession
INVARIANTS
  TypeOK
  WriteAtMostOnce
  CancelledWroteNothing
  SuccessIsReal
  FailureIsHonest
  OnlyLegalTransitions
  BanIsConfirmed
  ChromeIsOwned
PROPERTIES
  TakeoverHoldsPageActions
  EndIsFinal
  KeepsItsPromise
  CancelEnds
  NeverStuck
