SPECIFICATION Spec
CONSTANTS
  u1 = u1
  tA = tA
  tC = tC
  k1 = k1
  k2 = k2
  p1 = p1
  j1 = j1
  j2 = j2
  j3 = j3
  q1 = q1
  NoKey = NoKey
  NoEntry = NoEntry
  Uris = {u1}
  Texts = {tA}
  Keys = {k1, k2}
  ImportKey <- MCImportKey
  HasResolver = TRUE
  MaxHandles = 2
  MaxVersion = 1
  TaskIds = {p1}
  MaxWorld = 1
  Jobs = {j1, j2, j3}
  Pulls = {q1}
  Pulled = {"workspace", "tokens"}
INVARIANT AnswersSeeInvalidations
CHECK_DEADLOCK FALSE
