SPECIFICATION FairSpec
CONSTANTS
  Files = {f1, f2}
  MainFile = f1
  Prints = {e1, e2}
  NoError = NoError
  MaxTickets = 2
  TaskTexts = {"", "text"}
  CodeKinds = {"works", "crashes"}
  TaskKinds <- EasyAndHard
  Floors = {"None", "strong"}
  Transient = TRUE
  MuteExceptions = FALSE
  MaxRetries = 3
  EscalateAfter = 1
  ForceTier = ""
  RecursionLimits = {10, 25}
INVARIANTS
  TypeOK
  StepBound
  GenerationsBounded
  RetiredCodeRan
  EscalationReported
  ReportsAgree
  StrongTriedBeforeHuman
  FloorHolds
  RepeatIsTheTicketsOwn
  CleanMeansPassed
PROPERTIES
  SprintEnds
  LedgerSpec
