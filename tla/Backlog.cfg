SPECIFICATION FairSpec
CONSTANTS
  Sups = {s1}
  Keys = {1, 2}
  MaxAttempts = 2
  MaxSprints = 0
  MaxHuman = 2
  MaxRuns = 2
  MaxJournal = 4
INVARIANTS
  TypeOK
  NothingVanishes
  OutOfRungsWasEscalated
  WorkedOnce
  ReplaysBounded
PROPERTIES
  NoItemStarved
  OwnEscalations
  LoopEnds
