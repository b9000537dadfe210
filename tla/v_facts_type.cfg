\* A good token and a call with the body of TestWriteFactsRoute.
SPECIFICATION ServiceSpec
CONSTANTS
  insights_token = insights_token
  Name = {insights_token}
  TokenName = insights_token
  Namespace = ns
  TokenTargetLabel = FALSE
  InitialTokens <- GoodOnly
  Tampered <- Nothing
  MaxChanges = 0
  MaxDisturbances = 0
  Requests <- TestFacts
  EnvironmentId <- Ids
  MaxInt32 = 7
  WriteToQueue = TRUE
  Presented <- Nothing
INVARIANTS
  TypeOfTheRoute
\* With the token in place only calls are left to do.
CHECK_DEADLOCK FALSE
