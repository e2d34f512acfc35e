CONSTANTS
  None = None
  Orders = {o1, o2}
  ChargeIds = {c1}
  Procs = {p1}
  Updates = {}
  MayHaveDeposit = {TRUE}
  MaxCrashes = 0
SPECIFICATION FairSpec
PROPERTIES
  ActivationCompletes
