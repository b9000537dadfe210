\* Burn-after-reading and a ConfigMap that the next build publishes again.
SPECIFICATION Spec
CONSTANTS
  Name = {c1}
  PostProcessors <- CoreOnly
  ProdOnly <- NobodyFilters
  ParentTemplate = TRUE
  Payloads <- OneSbom
  MinutesBetweenRetries = 1
  MaxNumberOfRetries = 1
  MaxConcurrent = 1
  ListLimit = 5
  EnableDeferred = TRUE
  BurnAfterReading = TRUE
  NamespaceLag = FALSE
  MaxInt32 = 1000
  MaxPublish = 2
  MaxFaults = 0
  MaxListed = 1
PROPERTIES
  BurnOnlyProcessed
\* The builds are bounded: with the last payload settled nothing is left to do.
CHECK_DEADLOCK FALSE
