------------------------------ MODULE MCKeyRotation ------------------------------
(* KeyRotation for TLC.                                                    *)
EXTENDS KeyRotation, TLC

CONSTANTS a, b, s1, s2, c1, c2, c3, p1, p2

TwoKeks == {a, b}
TwoSigningKeys == {s1, s2}
TwoClients == {c1, c2}
ThreeClients == {c1, c2, c3}
TwoPans == {p1, p2}
OneId == {"current"}
Ids == {"current", "next", "previous_0"}
PositionId(i) == <<"previous_0", "previous_1">>[i]

Symmetry ==
    Permutations(Kek) \cup Permutations(SigningKey) \cup Permutations(Client)
      \cup Permutations(Pan)
=============================================================================
