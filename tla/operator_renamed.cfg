CONSTANTS
  n1 = n1
  n2 = n2
  ns1 = ns1
  ns2 = ns2
  None = None
  Names <- TwoNames
  Resources <- OneResource
  Namespaces <- OneNamespace
  NamespaceOf <- Alone
  Established <- OneResource
  Policies <- Deactivating
  Dashboard <- NoDashboard
  Edits <- RenameAndDelete
  Aging = FALSE
  Faults <- NoFaults
  MaxFaults = 0
  MaxOutside = 2
  MaxTokens = 3
SPECIFICATION Spec
PROPERTY ClosesOwnAccount
