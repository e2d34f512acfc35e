CONSTANTS
  None = None
  Orders = {o1, o2}
  ChargeIds = {c1, c2}
  Procs = {p1, p2}
  Updates = {"AGUARDANDO_ASSINATURAS"}
  MayHaveDeposit = {TRUE, FALSE}
  MaxCrashes = 1
SPECIFICATION Spec
SYMMETRY Symmetry
CONSTRAINT Apart
INVARIANTS
  TypeOK
  ActiveIsJustified
  ScheduleIsJustified
