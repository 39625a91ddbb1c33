CONSTANTS
  r1 = r1
  r2 = r2
  b1 = b1
  b2 = b2
  Nobody = Nobody
  Requests <- TwoRequests
  Browsers <- TwoBrowsers
  MaxEntries = 1
  StateTTL = 3
  MaxStates = 2
  MaxTime = 4
SPECIFICATION Spec
SYMMETRY Symmetry
INVARIANTS TypeOK SingleUse Bounded LiveLoginsKept SessionIsOwn
PROPERTY FullOfTheLiving
