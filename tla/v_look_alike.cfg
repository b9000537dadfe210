\* Two environments, one named like the project of the other, one worker, no fault.
SPECIFICATION FairSpec
CONSTANTS
  Worker = {w1}
  shop = shop
  dev = dev
  eu = eu
  blog = blog
  draft = draft
  SBOM = {dev, eu}
  Message <- LookAlikes
  Templates <- DefaultOnly
  PushProdOnly = TRUE
  RefusesDuplicates = TRUE
  MaxFaults = 0
PROPERTIES
  EveryPushEnds
\* With every message pushed that can be nothing is left to do.
CHECK_DEADLOCK FALSE
