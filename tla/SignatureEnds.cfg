CONSTANTS
  None = None
  NoEnvelope = NoEnvelope
  Files = {f1, f2}
  Envelopes = {e1}
  Procs = {p1}
  Attempts = 3
  MaxJobs = 1
  MaxEdits = 0
  Updates = {"EM_ELABORACAO"}
  MaxCrashes = 1
CHECK_DEADLOCK FALSE
SPECIFICATION FairSpec
PROPERTIES
  SignatureJobEnds
