SPECIFICATION FairSpec
CONSTANTS
  Users = {u1, u2}
  NoUser = NoUser
  Logins = {l1}
  Refreshes = {r1, r2}
  Requests = {q1, q2}
  MaxTokens = 3
  MaxRestarts = 1
INVARIANTS
  SessionIsWhole
PROPERTIES
  GivenUpStaysOut
  CallersAreServed
