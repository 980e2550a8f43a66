SPECIFICATION AnswersSpec
CONSTANTS
  Phrase <- MCPhrase
  Games <- MCGames
  LegPenalty <- MCLegPenalty
  Roster <- MCRoster
  HasMissingData = TRUE
  Requests <- MCRequests
  EnvFlags <- MCEnvFlags
  Followups <- MCFollowups
  Placeholders = {50, 100}
  Claims <- MCClaims
  MaxRequests = 2
  None = None
  Nothing = Nothing
  NoSnapshot = NoSnapshot
  NoLegId = NoLegId
  NoPlaceholder = NoPlaceholder
  Users = {u1, u2}
  Subs = {s1, s2}
  NULL = NULL
  MaxDuplicates = 1
  MaxFailures = 1
  MaxEvents = 4
CHECK_DEADLOCK FALSE
INVARIANTS AuditIsEarned AdviceConsistent BestIsBought PortalShowsSubscription BestIsPaid RecordedIsLive
PROPERTIES PaymentsTakeEffect CancellationsTakeEffect
