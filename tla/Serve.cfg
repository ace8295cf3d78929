SPECIFICATION FairSpec
CONSTANTS
  e = e
  g = g
  d1 = d1
  d2 = d2
  p1 = p1
  Files = {e, g}
  Entry = e
  ImportsOf <- MCImportsOf
  Broken <- MCBroken
  AlwaysImports = FALSE
  BrokenOf = {1}
  MaxWrites = 2
  Drains = {d1}
  Pages = {p1}
INVARIANT TypeOK
INVARIANT QueueIsScheduled
INVARIANT ReloadIsOwed
INVARIANT NoTimerAfterClose
PROPERTY RewritesAreNoticed
PROPERTY ChangesAreRebuilt
PROPERTY RebuildEnds
CHECK_DEADLOCK FALSE
