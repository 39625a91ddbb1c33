CONSTANTS
  n1 = n1
  n2 = n2
  ns1 = ns1
  ns2 = ns2
  None = None
  Names <- OneName
  Resources <- TwoResources
  Namespaces <- TwoNamespaces
  NamespaceOf <- Apart
  Established <- OneResource
  Policies <- Retaining
  Dashboard <- NoDashboard
  Edits <- Adopting
  Aging = FALSE
  Faults <- ListOnly
  MaxFaults = 1
  MaxOutside = 1
  MaxTokens = 3
SPECIFICATION Spec
INVARIANT ClaimedOnce
