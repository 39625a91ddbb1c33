CONSTANTS
  n1 = n1
  n2 = n2
  ns1 = ns1
  ns2 = ns2
  None = None
  Names <- OneName
  Resources <- OneResource
  Namespaces <- OneNamespace
  NamespaceOf <- Alone
  Established <- OneResource
  Policies <- BothPolicies
  Dashboard <- Renewals
  Edits <- EditsOfReady
  Aging = TRUE
  Faults <- AllButPurge
  MaxFaults = 2
  MaxOutside = 3
  MaxTokens = 3
SPECIFICATION FairSpec
INVARIANTS TypeOK RestartsFollow RotationHonoured
PROPERTIES DeactivatedFirst Converges
