CONSTANTS
  None = None
  NoEnvelope = NoEnvelope
  Files = {f1}
  Envelopes = {e1, e2}
  Procs = {p1,p2}
  Attempts = 2
  MaxJobs = 1
  MaxEdits = 1
  Updates = {}
  MaxCrashes = 0
CHECK_DEADLOCK FALSE
SPECIFICATION Spec
SYMMETRY Symmetry
INVARIANTS
  TypeOK
  RunningIsComplete
  SignedTextIsCurrent
  ContractFileIsStored
  ActiveWasSigned

