--------------------------------- MODULE MCRbac ---------------------------------
(* Rbac for TLC.                                                           *)
EXTENDS Rbac, TLC

CONSTANTS u1, u2, i1, i2, n1, n2, edit, crm, r1, r2

TwoUsers == {u1, u2}
TwoRoles == {i1, i2}
TwoNames == {n1, n2}
CrmPermission == {edit}
CrmApp == {crm}
TwoRequests == {r1, r2}

(* RESOURCE_APP_MAP: clients and documents belong to the CRM.              *)
ResourceApp == [p \in CrmPermission |-> crm]

Symmetry ==
    Permutations(User) \cup Permutations(Role) \cup Permutations(Name)
      \cup Permutations(Request)
=============================================================================
