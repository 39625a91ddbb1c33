CONSTANTS
  n1 = n1
  n2 = n2
  a1 = a1
  a2 = a2
  img1 = img1
  img2 = img2
  Nobody = Nobody
  NoAvatar = NoAvatar
  Names <- OneName
  Locked <- NoNames
  Actors <- TwoActors
  Avatars <- OneAvatar
  Ops <- RotateOps
  DeviceScoped = TRUE
  Faults <- EditOnly
  MaxFaults = 1
  MaxIssued = 2
SPECIFICATION Spec
INVARIANT NoAbandonedSession
CHECK_DEADLOCK FALSE
