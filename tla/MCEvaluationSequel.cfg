SPECIFICATION EvaluationSpec
CONSTANTS
  Phrase <- MCPhrase
  Games <- MCGames
  LegPenalty <- MCLegPenalty
  Roster <- MCRoster
  HasMissingData = TRUE
  Requests <- MCRequests
  EnvFlags <- MCEnvFlags
  Followups <- MCFollowups
  Placeholders = {50, 100}
  Claims <- MCClaims
  MaxRequests = 2
  None = None
  Nothing = Nothing
  NoSnapshot = NoSnapshot
  NoLegId = NoLegId
  NoPlaceholder = NoPlaceholder
CHECK_DEADLOCK FALSE
PROPERTIES ChangeTold
