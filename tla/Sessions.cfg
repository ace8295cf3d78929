SPECIFICATION FairSpec
CONSTANTS
  u1 = u1
  tA = tA
  tB = tB
  tC = tC
  tX = tX
  k1 = k1
  k2 = k2
  p1 = p1
  p2 = p2
  NoKey = NoKey
  NoEntry = NoEntry
  Uris = {u1}
  Texts = {tA, tC, tX}
  Keys = {k1, k2}
  ImportKey <- MCImportKey
  HasResolver = TRUE
  MaxHandles = 1
  MaxVersion = 3
  TaskIds = {p1, p2}
  MaxWorld = 1
INVARIANT TypeOK
INVARIANT CoherentSessions
INVARIANT PendingIsInFlight
INVARIANT LatestWorkIsShared
INVARIANT FreshUnlessStraddled
PROPERTY ImplementsService
PROPERTY ResolutionsSettle
CHECK_DEADLOCK FALSE
