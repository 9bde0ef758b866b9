----------------------------- MODULE MCCredentials -----------------------------
(* Credentials for TLC.                                                    *)
EXTENDS Credentials, TLC

CONSTANTS p1, p2, a1, a2, r1, r2

TwoPasswords == {p1, p2}
TwoAddresses == {a1, a2}
TwoRequests == {r1, r2}

(* Passwords, addresses and requests are only ever compared.               *)
Symmetry == Permutations(Password) \cup Permutations(Address) \cup Permutations(Request)
=============================================================================
