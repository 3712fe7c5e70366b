SPECIFICATION Spec
CONSTANTS
  MaxLines = 3
  MaxSprints = 2
  MaxGates = 2
INVARIANTS
  HeadlessNeverWaits
