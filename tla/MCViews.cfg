CONSTANTS
  k1 = k1
  k2 = k2
  r1 = r1
  r2 = r2
  ViewKeys = {k1, k2}
  ViewRows = {r1, r2}
  NoKey = NoKey
  MaxAsks = 2
  MaxWrites = 1
  MaxLapses = 1
SPECIFICATION ViewSpec
SYMMETRY Symmetry
INVARIANTS ShownIsAsked OwnWritesAreShown TextGoesToItsRow
CHECK_DEADLOCK FALSE
