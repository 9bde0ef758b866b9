----------------------------- MODULE MCApiClient -----------------------------
(* ApiClient for TLC.                                                      *)
EXTENDS ApiClient, TLC

CONSTANTS p1, p2, c1, c2, c3

OnePage == {p1}
TwoPages == {p1, p2}
TwoCalls == {c1, c2}
ThreeCalls == {c1, c2, c3}
SamePage == [c \in Call |-> p1]
SplitPages == [c \in Call |-> IF c = c1 THEN p1 ELSE p2]

Calls == Permutations(Call)
=============================================================================
