CONSTANTS
  None = None
  Orders = {o1}
  First = o1
  Updates = {"AGUARDANDO_GARANTIA"}
  ChargeIds = {c1,c2}
  TransferIds = {}
  Procs = {p1}
  MaxCrashes = 1
SPECIFICATION FairSpec
PROPERTIES
  PendingIsCharged
  OverdueIsMarked
