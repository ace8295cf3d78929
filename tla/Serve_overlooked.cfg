SPECIFICATION Spec
CONSTANTS
  e = e
  g = g
  d1 = d1
  d2 = d2
  p1 = p1
  Files = {e, g}
  Entry = e
  ImportsOf <- MCImportsOf
  Broken <- MCBroken
  AlwaysImports = TRUE
  BrokenOf = {}
  MaxWrites = 1
  Drains = {d1}
  Pages = {}
INVARIANT StaleIsNoticed
CHECK_DEADLOCK FALSE
