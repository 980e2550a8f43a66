SPECIFICATION ChargesSpec
CONSTANTS
  Callers = {"ann", "bob"}
  Cost = 2
  Burst = 2
  StaleAfter = 4
  CleanupEvery = 2
  Absent = Absent
  LastMoment = 8
  ClientLegs <- MCClientLegs
  Posts <- MCPosts
  Views <- MCViews
  Texts <- MCTexts
  DemoCases <- MCDemos
  LegPenalty <- MCLegPenalty
  MaxLegs = 6
  EnvFlags <- MCEnvFlags
  None = None
  Endpoints = {"tts", "vision"}
  MaxRecords = 3
  Slots = {s1, s2}
  Clients = {c1}
  Narrations <- MCNarrations
  Uploads <- MCUploads
  ImageTexts <- MCImageTexts
  CacheTtl = 1
  UploadWindow = 2
  UploadLimit = 1
  MaxCalls = 4
  MaxGrants = 2
  MaxTime = 2
SYMMETRY Symmetric
CHECK_DEADLOCK FALSE
INVARIANTS RateBound UpgradeNeverLoses SuggestionsHold LedgerComplete PaidOnce UploadsBounded
PROPERTIES RetryAfterIsExact ImplementsLeakyBucket
