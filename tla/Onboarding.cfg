SPECIFICATION Spec
CONSTANTS
  Contexts <- MCContexts
  NoId = NoId
  Accounts = {a1, a2}
  Customers = {k1, k2}
  Procs = {p1, p2}
  MaxEvents = 1
  MaxTokens = 1
  MaxInfo = 1
  MaxCrashes = 1
SYMMETRY Symmetry
CONSTRAINT Apart
CHECK_DEADLOCK FALSE
INVARIANTS
  TypeOK
  NoAccountUnapproved
  StatusIsOfAccount
  CustomerIsOfAccount
  LocalIsTold
