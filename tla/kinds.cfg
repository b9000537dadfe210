\* One publication of any kind of payload, three post-processors that look at production
\* only, both crons, a fault; the Namespace may reach the cache after the ConfigMap has
\* been reconciled, and the informer resyncs.
SPECIFICATION ResyncSpec
CONSTANTS
  Name = {c1}
  PostProcessors <- AllThree
  ProdOnly <- AllFilter
  ParentTemplate = TRUE
  Payloads <- EveryKind
  MinutesBetweenRetries = 1
  MaxNumberOfRetries = 0
  MaxConcurrent = 1
  ListLimit = 5
  EnableDeferred = TRUE
  BurnAfterReading = TRUE
  NamespaceLag = TRUE
  MaxInt32 = 1000
  MaxPublish = 1
  MaxFaults = 1
  MaxListed = 1
INVARIANTS
  ProcessedMeansDelivered
PROPERTIES
  OutcomesAreKept
  BurnOnlyProcessed
  EventuallySettled
  EventuallyBurned
  ImplementsDelivery
\* The builds are bounded: with the last payload settled nothing is left to do.
CHECK_DEADLOCK FALSE
