SPECIFICATION Spec
CONSTANTS
  Contexts <- MCContexts
  Procs = {p1, p2}
  MaxIssued = 2
  MaxCrashes = 1
CHECK_DEADLOCK FALSE
SYMMETRY Symmetry
CONSTRAINT Apart
INVARIANTS
  TypeOK
  UsedAsIssued
  SecondFactorWasGiven
  NewestLinkWorks
