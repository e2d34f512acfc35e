SPECIFICATION Spec
CONSTANTS
  rent = rent
  deposit = deposit
  Orders = {rent, deposit}
  Due <- MCDue
  Deposits = {deposit}
  LastDay = 4
  Attempts = 1
  MaxReports = 2
  MaxRenewals = 1
  MaxFailures = 1
CONSTRAINTS
  TwoAtWork
  AdminAway
  FewEvents
ACTION_CONSTRAINTS
  MailNext
  MadeFirst
CHECK_DEADLOCK FALSE
INVARIANTS
  TypeOK
  PaidStaysPaid
  PayoutIsAnswered
  LateToldOnce
  UnpaidIsReminded
