CONSTANTS
  v1 = v1
  ip = ip
  z1 = z1
  site = site
  c1 = c1
  c2 = c2
  r1 = r1
  r2 = r2
  Visitors = {v1}
  IpOf <- MCIpOf
  Zones = {z1}
  SiteOf <- MCSiteOf
  Campaigns = {c1, c2}
  Terms <- MCTerms
  Requests = {r1, r2}
  ImpressionLimit = 2
  ClickLimit = 1
  CapLimit = 1
  MaxRequests = 3
  MaxFailures = 1
SPECIFICATION ServingSpec
SYMMETRY Symmetry
CHECK_DEADLOCK FALSE
INVARIANT ChargedOneWay
