SPECIFICATION Spec
CONSTANTS
  Callers = {c1, c2}
  Purposes = {editor, reviewer}
  Tiers = {fast, strong}
  MaxLoops = 2
  MaxClients = 3
INVARIANTS
  TypeOK
PROPERTIES
  ClientIsUsable
