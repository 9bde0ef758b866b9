------------------------------ MODULE MCCrmRecords ------------------------------
(* CrmRecords for TLC.                                                     *)
EXTENDS CrmRecords, TLC

CONSTANTS u1, u2, c1, c2, d1, p1, p2, n1, r1, r2

TwoUsers == {u1, u2}
TwoClients == {c1, c2}
OneDocument == {d1}
TwoPans == {p1, p2}
OneNumber == {n1}
TwoRequests == {r1, r2}

(* Ids, labels and requests are only ever compared.                        *)
Symmetry ==
    Permutations(User) \cup Permutations(Client) \cup Permutations(Document)
      \cup Permutations(Pan) \cup Permutations(Request)
=============================================================================
