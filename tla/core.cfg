\* One ConfigMap, published twice, one post-processor and one retry; a crash or a call that
\* fails, before or after the server took it; fair scheduling.
SPECIFICATION FairSpec
CONSTANTS
  Name = {c1}
  PostProcessors <- CoreOnly
  ProdOnly <- NobodyFilters
  ParentTemplate = TRUE
  Payloads <- OneSbom
  MinutesBetweenRetries = 0
  MaxNumberOfRetries = 1
  MaxConcurrent = 1
  ListLimit = 5
  EnableDeferred = TRUE
  BurnAfterReading = FALSE
  NamespaceLag = FALSE
  MaxInt32 = 1000
  MaxPublish = 2
  MaxFaults = 1
  MaxListed = 1
INVARIANTS
  TypeOK
  ProcessedMeansDelivered
  AbandonedOnlyAfterRetries
  NoLostWakeup
PROPERTIES
  NoPayloadRegression
  OutcomesAreKept
  DeferralHonoured
  EventuallySettled
  ImplementsDelivery
\* The builds are bounded: with the last payload settled nothing is left to do.
CHECK_DEADLOCK FALSE
