SPECIFICATION SlipsSpec
CONSTANTS
  LegIds = {"qb", "wr", "spread", "total"}
  Catalogue <- MCCatalogue
  Batches <- MCBatches
  Requests <- MCRequests
  LegPenalty <- MCLegPenalty
  None = None
  MaxLegs = 4
  MaxBatches = 1
  MaxEdits = 1
  Threads = {t1, t2}
  Evaluations = {e1, e2}
  Tokens = {k1, k2, k3}
  Emails = {m1}
  Sessions = {s1}
  Null = Null
  Retention = 1
  ShareDays = 2
  SessionDays = 1
  Attempts = 2
  MaxItems = 1
  LastDay = 3
  MaxCalls = 6
SYMMETRY Symmetric
CHECK_DEADLOCK FALSE
INVARIANTS ArrangementDoesNotMatter TablesAgree ViewsCounted
PROPERTIES LegsNeverHelp ContextNeverHelps SuggestionsRespectProfile NoSilentDowngrade KeptUntilExpiry
