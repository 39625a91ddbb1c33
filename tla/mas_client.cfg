CONSTANTS
  c1 = c1
  c2 = c2
  Nobody = Nobody
  Callers <- TwoCallers
  Mixes <- TokenOrListing
  Lifetimes <- ShortAndLong
  Timeout = 1
  Margin = 2
  PageSize = 1
  MaxPages = 2
  Faults <- FaultKinds
  MaxFaults = 1
  MaxItems = 2
  MaxNow = 3
SPECIFICATION FairSpec
INVARIANTS TypeOK TokenAlive Complete
PROPERTY CallsEnd
