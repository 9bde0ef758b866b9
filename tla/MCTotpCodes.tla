------------------------------ MODULE MCTotpCodes ------------------------------
(* TotpCodes for TLC.                                                      *)
EXTENDS TotpCodes, TLC

CONSTANTS b1, b2, b3, k1, k2, r1, r2

ThreeBatches == {b1, b2, b3}
TwoCodes == {k1, k2}
TwoRequests == {r1, r2}

(* Batches, positions and requests are only ever compared.                 *)
Symmetry == Permutations(Batch) \cup Permutations(Position) \cup Permutations(Request)
=============================================================================
