CONSTANTS
  adv = adv
  o1 = o1
  pay1 = pay1
  h1 = h1
  h2 = h2
  h3 = h3
  Advertisers = {adv}
  Publishers = {}
  Campaigns = {}
  Owner <- MCOwner
  Amounts = {1, 2}
  Refs = {o1, pay1}
  Instants = {}
  StatusWrites = {}
  MinBalances = {}
  ColumnMax = 4
  Orders = {o1}
  CaptureId <- MCCaptureId
  Handlers = {h1, h2, h3}
SPECIFICATION TopUpSpec
SYMMETRY Symmetry
INVARIANTS OrdersAreSound
PROPERTIES CreditsExactlyOnce
CHECK_DEADLOCK FALSE
