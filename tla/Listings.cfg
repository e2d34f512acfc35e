SPECIFICATION Spec
CONSTANTS
  None = None
  Photos = {f1, f2}
  Reports = {r1, r2}
  Files <- MCFiles
  Pages = {g1, g2}
  Own = {g2}
  Interests = {i1}
  Procs = {p1, p2}
  MaxUpdates = 1
  MaxCrashes = 1
SYMMETRY Symmetry
CONSTRAINT Apart
CHECK_DEADLOCK FALSE
INVARIANTS
  TypeOK
  RowIsReadable
  StoredIsNamed
  PageIsFresh
  InterestIsTold
