CONSTANTS
  adv = adv
  pub = pub
  c1 = c1
  c2 = c2
  e1 = e1
  e2 = e2
  Advertisers = {adv}
  Publishers = {pub}
  Campaigns = {c1, c2}
  Owner <- MCOwner
  Amounts = {1, 2}
  Refs = {e1, e2}
  Instants = {1}
  StatusWrites = {"ACTIVE", "PAUSED"}
  MinBalances = {1}
  ColumnMax = 3
SPECIFICATION Spec
SYMMETRY Symmetry
INVARIANTS TypeOK MoneyConserved ReservedIsBacked LedgerReplays SpendWithinReservation
CHECK_DEADLOCK FALSE
