\* No parent project template and nothing else that goes wrong.
SPECIFICATION FairSpec
CONSTANTS
  Name = {c1}
  PostProcessors <- CoreAndDT
  ProdOnly <- NobodyFilters
  ParentTemplate = FALSE
  Payloads <- OneSbom
  MinutesBetweenRetries = 1
  MaxNumberOfRetries = 1
  MaxConcurrent = 1
  ListLimit = 5
  EnableDeferred = TRUE
  BurnAfterReading = FALSE
  NamespaceLag = FALSE
  MaxInt32 = 1000
  MaxPublish = 1
  MaxFaults = 0
  MaxListed = 1
PROPERTIES
  EventuallySettled
\* The builds are bounded: with the last payload settled nothing is left to do.
CHECK_DEADLOCK FALSE
