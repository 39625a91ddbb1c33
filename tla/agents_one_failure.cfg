CONSTANTS
  n1 = n1
  n2 = n2
  a1 = a1
  a2 = a2
  img1 = img1
  img2 = img2
  Nobody = Nobody
  NoAvatar = NoAvatar
  Names <- TwoNames
  Locked <- LockedName
  Actors <- TwoActors
  Avatars <- TwoAvatars
  Ops <- NoWithdrawal
  DeviceScoped = FALSE
  Faults <- FailBlank
  MaxFaults = 1
  MaxIssued = 2
SPECIFICATION Spec
SYMMETRY Symmetry
INVARIANTS NoOrphan ActiveIsUsable AvatarAgrees
