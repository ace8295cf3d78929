SPECIFICATION FairSpec
CONSTANTS
  e = e
  a = a
  b = b
  Modules = {e, a, b}
  Entry = e
  MaxWrites = 1
  Projects <- AllProjects
INVARIANT TypeOK
INVARIANT NothingIsStale
INVARIANT SeesWhatItImports
INVARIANT SeesDirectImports
INVARIANT BundleIsComplete
PROPERTY BuildsEnd
CHECK_DEADLOCK FALSE
