SPECIFICATION Spec
CONSTANTS
  Descendants = {d1, d2}
  Systems = {"posix", "windows"}
  Statuses = {0, 3, 124}
INVARIANTS
  TypeOK
  NobodyOutlivesATimeout
  VerdictIsEarned
PROPERTIES
  ItReturns
