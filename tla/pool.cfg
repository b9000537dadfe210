\* Two ConfigMaps for one worker and a cron that lists one at a time: one of production,
\* whose push panics without a parent template, one not, one of an unrecognised type.
SPECIFICATION FairSpec
CONSTANTS
  Name = {c1, c2}
  PostProcessors <- DefaultOnly
  ProdOnly <- AllFilter
  ParentTemplate = FALSE
  Payloads <- Neighbours
  MinutesBetweenRetries = 0
  MaxNumberOfRetries = 0
  MaxConcurrent = 1
  ListLimit = 1
  EnableDeferred = TRUE
  BurnAfterReading = FALSE
  NamespaceLag = FALSE
  MaxInt32 = 1000
  MaxPublish = 1
  MaxFaults = 0
  MaxListed = 1
INVARIANTS
  NoLostWakeup
PROPERTIES
  NeighboursSettle
\* The builds are bounded: with the last payload settled nothing is left to do.
CHECK_DEADLOCK FALSE
