CONSTANTS
  a = a
  b = b
  c1 = c1
  c2 = c2
  c3 = c3
  s3 = s3
  home = home
  m = m
  f = f
  g = g
  Workers = {a, b}
  Formats = {f, g}
  Fee = Fee
  Default = Default
  Calls = {c1, c2, c3}
  TTL = 1
  ZoneIds = {home, m}
  Existing = {home}
  Tabs = {a, b}
  ZoneCalls = {c1, c2, c3}
  AdFormats = {f, g}
  WizardTabs = {home}
  NoForm = NoForm
  MaxEdits = 2
  MaxFailures = 1
  MaxSubmits = 1
  Sections = {a, b, s3}
  ZoneOf <- MCZoneOf
  MaxLoads = 1
SPECIFICATION Spec
SYMMETRY Symmetry
INVARIANTS RatesAreKept StaleForLessThanTtl DraftFollowsWork MisfitWasNotChecked OncePerSession
PROPERTIES ArchivedChangesOnlyByOverlap
CHECK_DEADLOCK FALSE
