\* One secret, which at the start holds a good token, an old one, one without its first claim,
\* none or none that can be read; users delete it or write into it nothing, a token for another
\* namespace or one without a later claim; the namespace is deleted and made again or loses its
\* labels, a call fails, the process restarts with the same key or another; calls of the web
\* service with the secret's token and others, and a container that keeps trying; fair
\* scheduling with the resync.
SPECIFICATION ServiceSpec
CONSTANTS
  insights_token = insights_token
  Name = {insights_token}
  TokenName = insights_token
  Namespace = ns
  TokenTargetLabel = TRUE
  InitialTokens <- FoundAtFirst
  Tampered <- WrittenByUsers
  MaxChanges = 1
  MaxDisturbances = 1
  Requests <- Posts
  EnvironmentId <- Ids
  MaxInt32 = 7
  WriteToQueue = TRUE
  Presented <- OthersTokens
INVARIANTS
  TypeOK
  NeverLeftWithout
  MessagesAreOwn
  AnsweredTruly
PROPERTIES
  RefusedOnlyMeanwhile
  EventuallyHasToken
  EventuallyAccepted
\* With the bounded changes made and the token in place only calls are left to do.
CHECK_DEADLOCK FALSE
