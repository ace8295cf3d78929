SPECIFICATION FairSpec
CONSTANTS
  f1 = f1
  Files = {f1}
  tA = tA
  tB = tB
  Texts = {tA, tB}
  MaxWrites = 2
  Absent <- Deleted
  UpsertIds = {1, 2}
  LoadIds = {1, 2}
  None = None
INVARIANT TypeOK
INVARIANT ServesTheDocument
INVARIANT CachedIsFresh
INVARIANT AnswersAreFresh
PROPERTY CacheCatchesUp
PROPERTY EditsArrive
