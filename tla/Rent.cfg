CONSTANTS
  None = None
  Orders = {o1}
  First = o1
  Updates = {"FINALIZADO"}
  ChargeIds = {c1,c2}
  TransferIds = {t1,t2}
  Procs = {p1,p2}
  MaxCrashes = 1
SPECIFICATION Spec
SYMMETRY Symmetry
CONSTRAINT Apart
INVARIANTS
  TypeOK
  MoneyBehindPaid
  ReceivedWasTransferred
PROPERTIES
  ChargeNeverReplaced
  ImplementsLedger
