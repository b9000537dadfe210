\* Five environments for two workers, two of which share a name; no parent projects in
\* another configuration; a call that fails before or after it took effect, or a crash.
SPECIFICATION FairSpec
CONSTANTS
  Worker = {w1, w2}
  shop = shop
  dev = dev
  eu = eu
  blog = blog
  draft = draft
  SBOM = {shop, dev, eu, blog, draft}
  Message <- Environments
  Templates <- WithAndWithout
  PushProdOnly = TRUE
  RefusesDuplicates = TRUE
  MaxFaults = 1
INVARIANTS
  TypeOK
  UploadedUnderItsParents
  ProjectsAreAskedFor
  SuccessMeansUploaded
  OwnNamesArePlaced
PROPERTIES
  EventuallyPushed
\* With every message pushed that can be nothing is left to do.
CHECK_DEADLOCK FALSE
