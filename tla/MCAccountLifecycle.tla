-------------------------- MODULE MCAccountLifecycle --------------------------
(* AccountLifecycle for TLC.                                               *)
EXTENDS AccountLifecycle

CONSTANTS u1, r1, r2

OneUser == {u1}
TwoRequests == {r1, r2}
=============================================================================
