SPECIFICATION Spec
CONSTANTS
  Callers = {a, b}
  MaxCost = 2
  MaxUse = 2
  Limits <- SmallLimits
  MaxCalls = 7
  MaxClock = 2
  MaxRuns = 2
INVARIANTS
  TypeOK
  OvershootBounded
  FailsClosed
  SpendIsJournalled
