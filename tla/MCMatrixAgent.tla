--------------------------- MODULE MCMatrixAgent ---------------------------
(* Small instances of MatrixAgentOperator. *)
EXTENDS MatrixAgentProperties, TLC

CONSTANTS n1, n2, ns1, ns2

OneName == {n1}
TwoNames == {n1, n2}
OneResource == {1}
TwoResources == {1, 2}
NoResource == {}
OneNamespace == {ns1}
TwoNamespaces == {ns1, ns2}
Apart == [r \in TwoResources |-> IF r = 1 THEN ns1 ELSE ns2]
Together == [r \in TwoResources |-> ns1]
Alone == [r \in OneResource |-> ns1]

Retaining == {"Retain"}
BothPolicies == {"Retain", "Deactivate"}
Deactivating == {"Deactivate"}

NoDashboard == {}
Remakes == {"create", "remove"}
Renewals == {"rotate", "revoke", "deactivate"}
Claims == {"apply", "adopt", "delete"}
EditsOfReady == {"rotation", "policy", "delete"}
Adopting == {"apply", "adopt"}
Renames == {"apply", "adopt", "invalid", "rename", "delete"}
RenameAndDelete == {"rename", "delete"}

AllButPurge == {"list", "fail", "lost", "restart", "crash"}
ListOnly == {"list"}
NoFaults == {}
RestartOnly == {"restart"}
=============================================================================
