SPECIFICATION Spec
CONSTANTS
  m1 = m1  m2 = m2  m3 = m3  m4 = m4  s1 = s1
  Slot = {s1}
  MaxGameId = 2
  PostId = {m1, m2, m3, m4}
  NoPost = NoPost
  MaxVersion = 2
  MaxFailures = 1
SYMMETRY Symmetry
INVARIANT StubsTellTheTruth
