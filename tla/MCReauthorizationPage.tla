----------------------- MODULE MCReauthorizationPage -----------------------
(* A small instance of ReauthorizationPage; no action tells the accounts   *)
(* apart.                                                                  *)
EXTENDS ReauthorizationPage, TLC

CONSTANTS SomeDays, SomeSupplier
(* The page as it opens, and one filter more than that of each kind.       *)
SomeFilters ==
  LET opened == [days |-> AllDays, threshold |-> 90, rest |-> Whole]
  IN  {opened, [opened EXCEPT !.days = SomeDays], [opened EXCEPT !.threshold = 80],
       [opened EXCEPT !.rest = SomeSupplier]}
AccountsAreAlike == Permutations(Accounts)
=============================================================================
