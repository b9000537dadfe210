\* Two secrets, of which one holds a token signed with an old key.
SPECIFICATION ServiceSpec
CONSTANTS
  insights_token = insights_token
  other = other
  Name = {insights_token, other}
  TokenName = insights_token
  Namespace = ns
  TokenTargetLabel = FALSE
  InitialTokens <- GoodOrOld
  Tampered <- Nothing
  MaxChanges = 0
  MaxDisturbances = 0
  Requests <- Nothing
  EnvironmentId <- Ids
  MaxInt32 = 7
  WriteToQueue = TRUE
  Presented <- Nothing
INVARIANTS
  NeverLeftWithout
\* With the bounded changes made and the token in place nothing is left to do.
CHECK_DEADLOCK FALSE
