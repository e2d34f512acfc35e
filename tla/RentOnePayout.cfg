CONSTANTS
  None = None
  Orders = {o1}
  First = o1
  Updates = {}
  ChargeIds = {c1}
  TransferIds = {t1,t2}
  Procs = {p1}
  MaxCrashes = 0
SPECIFICATION Spec
INVARIANT
  OneLivePayout
