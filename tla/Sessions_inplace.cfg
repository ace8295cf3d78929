SPECIFICATION Spec
CONSTANTS
  u1 = u1
  tA = tA
  tB = tB
  tC = tC
  tX = tX
  k1 = k1
  k2 = k2
  p1 = p1
  p2 = p2
  NoKey = NoKey
  NoEntry = NoEntry
  Uris = {u1}
  Texts = {tA, tB}
  Keys = {k1, k2}
  ImportKey <- MCImportKey
  HasResolver = TRUE
  MaxHandles = 1
  MaxVersion = 2
  TaskIds = {p1, p2}
  MaxWorld = 1
INVARIANT RequestsSeeTheirText
CHECK_DEADLOCK FALSE
