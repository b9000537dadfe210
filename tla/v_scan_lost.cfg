\* Two builds, nothing fails.
SPECIFICATION Spec
CONSTANTS
  Name = {b1, b2}
  MaxDisturbances = 2
INVARIANTS
  NeverLeftUnscanned
\* The builds are bounded: once they are scanned nothing is left to do.
CHECK_DEADLOCK FALSE
