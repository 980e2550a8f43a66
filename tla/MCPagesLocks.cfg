SPECIFICATION PagesSpec
CONSTANTS
  MaxSlip = 3
  MaxTrail = 4
  PlanNames = {"good", "best"}
  Fields = 2
  MaxLines = 3
  Calls = {c1, c2}
  None = None
  Phrases <- MCPhrases
  TypedTexts <- MCTexts
  MaxPhrases = 2
  MaxHistory = 1
  NoRequest = NoRequest
PROPERTIES
  LocksPreserved
