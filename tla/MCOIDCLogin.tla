---------------------------- MODULE MCOIDCLogin ----------------------------
(* A small instance of OIDCLogin. *)
EXTENDS OIDCLogin, TLC

CONSTANTS r1, r2, b1, b2

TwoRequests == {r1, r2}
TwoBrowsers == {b1, b2}

\* Neither handlers nor browsers are ordered.
Symmetry == Permutations(Requests) \cup Permutations(Browsers)
=============================================================================
