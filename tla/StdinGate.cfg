SPECIFICATION FairSpec
CONSTANTS
  MaxLines = 3
  MaxSprints = 2
  MaxGates = 2
INVARIANTS
  TypeOK
  NoLineLost
  AcksAreEarned
  PromptOwnsInput
PROPERTIES
  GateEnds
  ShutsDown
