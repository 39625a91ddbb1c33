CONSTANTS
  n1 = n1
  n2 = n2
  a1 = a1
  a2 = a2
  img1 = img1
  img2 = img2
  Nobody = Nobody
  NoAvatar = NoAvatar
  Names <- OneName
  Locked <- NoNames
  Actors <- TwoActors
  Avatars <- OneAvatar
  Ops <- Operations
  DeviceScoped = FALSE
  Faults <- AllFaults
  MaxFaults = 2
  MaxIssued = 3
SYMMETRY Symmetry
SPECIFICATION Spec
INVARIANTS TypeOK NoStrayCredential SettledAgrees DeactivatedIsDead
PROPERTY ImplementsLifecycle
