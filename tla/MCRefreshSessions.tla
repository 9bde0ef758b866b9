--------------------------- MODULE MCRefreshSessions ---------------------------
(* RefreshSessions for TLC.                                                *)
EXTENDS RefreshSessions, TLC

CONSTANTS u1, u2, t1, t2, t3, r1, r2

TwoUsers == {u1, u2}
ThreeTokens == {t1, t2, t3}
TwoRequests == {r1, r2}

(* Users, tokens and requests are only ever compared.                      *)
Symmetry ==
    Permutations(User) \cup Permutations(Token) \cup Permutations(Request)
=============================================================================
