CONSTANTS
  pub = pub
  p1 = p1
  p2 = p2
  p3 = p3
  key = key
  bank = bank
  upi = upi
  Advertisers = {}
  Publishers = {pub}
  Campaigns = {}
  Owner <- MCOwner
  Amounts = {1, 2}
  Refs = {p1, p2, key}
  Instants = {}
  StatusWrites = {}
  MinBalances = {}
  ColumnMax = 2
  PayoutIds = {p1, p2}
  IdempotencyKeys = {key}
  MinPayout = 1
  Accounts = {bank, upi}
  Payouts = {p1, p2, p3}
  MaxSets = 2
SPECIFICATION EitherSpec
SYMMETRY Symmetry
INVARIANTS HoldBacksOpenPayouts SettlesOnce PaysTheAccountOnFile
CHECK_DEADLOCK FALSE
