SPECIFICATION Spec
CONSTANTS
  Files = {f1}
  MainFile = f1
  Prints = {e1, e2}
  NoError = NoError
  MaxTickets = 1
  TaskTexts = {"text"}
  CodeKinds = {"works", "crashes"}
  TaskKinds <- PlainTasks
  Floors = {"None", "strong"}
  Transient = TRUE
  MuteExceptions = FALSE
  MaxRetries = 3
  EscalateAfter = 1
  ForceTier = ""
  RecursionLimits = {14}
INVARIANTS
  UnplannedIsFailed
