CONSTANTS
  adv = adv
  c1 = c1
  e1 = e1
  e2 = e2
  h1 = h1
  h2 = h2
  Advertisers = {adv}
  Publishers = {}
  Campaigns = {c1}
  Owner <- MCOwner
  Amounts = {1, 2}
  Refs = {e1, e2}
  Instants = {1, 2}
  StatusWrites = {"ACTIVE", "PAUSED", "ARCHIVED"}
  MinBalances = {1, 2}
  ColumnMax = 4
  Handlers = {h1, h2}
  Budgets = {1, 2}
SPECIFICATION FundingSpec
SYMMETRY Symmetry
INVARIANTS LiveIsFunded ArchivingSettles
PROPERTIES ImplementsLedger
CHECK_DEADLOCK FALSE
