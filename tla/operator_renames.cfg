CONSTANTS
  n1 = n1
  n2 = n2
  ns1 = ns1
  ns2 = ns2
  None = None
  Names <- TwoNames
  Resources <- TwoResources
  Namespaces <- OneNamespace
  NamespaceOf <- Together
  Established <- OneResource
  Policies <- Retaining
  Dashboard <- NoDashboard
  Edits <- Renames
  Aging = FALSE
  Faults <- NoFaults
  MaxFaults = 0
  MaxOutside = 3
  MaxTokens = 3
SPECIFICATION FairSpec
INVARIANT NoTakeover
PROPERTY Converges
