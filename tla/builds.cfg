\* Two builds of one environment, whose scans get in each other's way, or one build and a
\* disturbance: an update of its pod by Lagoon, a failing call, or a restart.
SPECIFICATION ResyncSpec
CONSTANTS
  Name = {b1, b2}
  MaxDisturbances = 2
INVARIANTS
  TypeOK
  MarkedMeansScanned
PROPERTIES
  ForgottenOnlyThen
  EventuallyScanned
\* The builds are bounded: once they are scanned nothing is left to do.
CHECK_DEADLOCK FALSE
