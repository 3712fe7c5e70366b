SPECIFICATION Spec
CONSTANTS
  Plans <- PlansSmall
  MaxVersions = 1
  MaxBenches = 1
INVARIANTS
  CleanRunsMeasuredTheirCommit
