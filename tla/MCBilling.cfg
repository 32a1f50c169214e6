CONSTANTS
  adv = adv
  pub = pub
  pub2 = pub2
  c1 = c1
  k1 = k1
  i1 = i1
  i2 = i2
  x1 = x1
  Advertisers = {adv}
  Publishers = {pub, pub2}
  Campaigns = {c1}
  Owner <- MCOwner
  Amounts = {1, 2, 3}
  Refs <- MCRefs
  Instants = {}
  StatusWrites = {"ACTIVE", "PAUSED"}
  MinBalances = {}
  ColumnMax = 10
  Clicks = {k1}
  Impressions = {i1, i2}
  Conversions = {x1}
  CampaignOf <- MCCampaignOf
  PublisherOf <- MCPublisherOf
  Price <- MCPrice
  Unique = {i1, i2}
  BatchSize = 3
  FeeBps = {3000}
  Budget = 2
  MaxRetries = 1
SPECIFICATION BillingSpec
INVARIANTS ChargesMatchShares BatchesFollowCounter
PROPERTIES EveryEventIsProcessed
CHECK_DEADLOCK FALSE
