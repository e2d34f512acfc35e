CONSTANTS
  None = None
  f1 = f1
  f2 = f2
  v1 = v1
  c1 = c1
  i1 = i1
  Procs = {p1, p2}
  Rows = {f1, v1, c1, i1}
  TypeOf <- RowType
  MaxEdits = 2
  Updates = {"EM_ELABORACAO", "SOLICITANDO_ALTERACAO"}
  MaxCrashes = 1
SPECIFICATION Spec
SYMMETRY Symmetry
CONSTRAINT Apart
INVARIANTS
  TypeOK
  RequestHasReason
  SignatureIsPrepared
PROPERTIES
  ImplementsLifecycle
