---------------------------- MODULE MCMASClient ----------------------------
(* Small instances of MASClient. *)
EXTENDS MASClientInvariant, TLC

CONSTANTS c1, c2

TwoCallers == {c1, c2}
SharedToken == [c \in TwoCallers |-> {"one"}]
OneLister == [c \in TwoCallers |-> IF c = c1 THEN {"list", "sweep"} ELSE {}]
TokenOrListing == {SharedToken, OneLister}
ShortAndLong == {1, 3}
=============================================================================
