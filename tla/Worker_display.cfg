SPECIFICATION FairSpec
CONSTANTS
  m1 = m1
  m2 = m2
  r1 = r1
  r2 = r2
  r3 = r3
  r4 = r4
  None = None
  Models = {m1, m2}
  Requests = {r1, r2, r3}
  Editable = {m1}
  MaxVersion = 3
PROPERTY DisplayMovesForward
PROPERTY DisplaySettles
