CONSTANTS
  n1 = n1
  n2 = n2
  ns1 = ns1
  ns2 = ns2
  None = None
  Names <- OneName
  Resources <- TwoResources
  Namespaces <- TwoNamespaces
  NamespaceOf <- Apart
  Established <- NoResource
  Policies <- Deactivating
  Dashboard <- Remakes
  Edits <- Claims
  Aging = TRUE
  Faults <- FaultKinds
  MaxFaults = 1
  MaxOutside = 3
  MaxTokens = 2
SPECIFICATION FairSpec
INVARIANT NoTakeover
PROPERTIES ClosesOwnAccount OldestClaims
