SPECIFICATION Spec
CONSTANTS
  f1 = f1
  Files = {f1}
  tA = tA
  tB = tB
  Texts = {tA, tB}
  MaxWrites = 0
  Absent <- Deleted
  UpsertIds = {1, 2}
  LoadIds = {1}
  None = None
INVARIANT SettledOverrideIsTheDocument
