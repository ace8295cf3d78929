SPECIFICATION FairSpec
CONSTANTS
  u1 = u1
  tA = tA
  tC = tC
  k1 = k1
  k2 = k2
  p1 = p1
  j1 = j1
  j2 = j2
  j3 = j3
  q1 = q1
  NoKey = NoKey
  NoEntry = NoEntry
  Uris = {u1}
  Texts = {tA, tC}
  Keys = {k1, k2}
  ImportKey <- MCImportKey
  HasResolver = TRUE
  MaxHandles = 2
  MaxVersion = 2
  TaskIds = {p1}
  MaxWorld = 0
  Jobs = {j1, j2}
  Pulls = {q1}
  Pulled = {"document"}
INVARIANT AnswersShowTheText
PROPERTY UsesTheSessionCache
PROPERTY PullsAreAnswered
CHECK_DEADLOCK FALSE
