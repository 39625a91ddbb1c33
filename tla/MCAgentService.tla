--------------------------- MODULE MCAgentService ---------------------------
(* Instances of AgentService for TLC. *)
EXTENDS AgentServiceInvariant, TLC

CONSTANTS n1, n2, a1, a2, img1, img2

NoNames == {}
OneName == {n1}
TwoNames == {n1, n2}
LockedName == {n2}
TwoActors == {a1, a2}
OneAvatar == {img1}
TwoAvatars == {img1, img2}

AllFaults == FaultKinds
FailEdit == {"fail", "edit"}
FailBlank == {"fail", "blank"}
EditOnly == {"edit"}
NoAvatarOps == Operations \ {"avatar"}
NoWithdrawal == {"create", "rotate", "revoke", "avatar"}
RotateOps == {"create", "rotate"}

\* The actors take part in no ordering, so permuting them changes nothing.
Symmetry == Permutations(Actors)
=============================================================================
