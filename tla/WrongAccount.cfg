SPECIFICATION Spec
CONSTANTS
  Accounts = {a1, a2}
  Nobody = Nobody
  Typed = Typed
  AllDays = all
  Whole = whole
  SomeDays = d1
  SomeSupplier = s1
  Filters <- SomeFilters
  MaxLoads = 2
  MaxCalls = 1
INVARIANT StartIsForTheTicked
