SPECIFICATION Spec
CONSTANTS
  Plans <- PlansSmall
  MaxVersions = 1
  MaxBenches = 3
INVARIANTS
  TypeOK
  GamedRowIsGamed
PROPERTIES
  RegressionsAreExact
