--------------------------------- MODULE RoleBook ---------------------------------
(***************************************************************************)
(* What roles and memberships amount to for who asks for a permission: a   *)
(* set of roles with their permissions, who holds which, and who is in     *)
(* which app, changed by one whole operation at a time.                    *)
(*                                                                         *)
(* A role is held or not held: the rows of user_roles, which may be there  *)
(* twice, and the transactions that write them are the module Rbac's,      *)
(* which implements this.                                                  *)
(***************************************************************************)
CONSTANTS User, Role, Name, Permission, App, None

VARIABLES
    users,      \* users that exist
    roles,      \* roles[i]: the name of role i, or None
    perms,      \* the pairs of a role and a permission of it
    holders,    \* the pairs of a user and a role of his
    members     \* the pairs of a user and an app of his

bookVars == <<users, roles, perms, holders, members>>

Existing == {i \in Role : roles[i] # None}

Init ==
    /\ users = User
    /\ roles = [i \in Role |-> None]
    /\ perms = {}
    /\ holders = {}
    /\ members = {}

Create(i, n) ==
    /\ i \notin Existing
    /\ \A j \in Existing : roles[j] # n
    /\ roles' = [roles EXCEPT ![i] = n]
    /\ UNCHANGED <<users, perms, holders, members>>

Delete(i) ==
    /\ i \in Existing
    /\ roles' = [roles EXCEPT ![i] = None]
    /\ perms' = {q \in perms : q[1] # i}
    /\ holders' = {q \in holders : q[2] # i}
    /\ UNCHANGED <<users, members>>

Grant(i, p) ==
    /\ i \in Existing
    /\ perms' = perms \cup {<<i, p>>}
    /\ UNCHANGED <<users, roles, holders, members>>

Assign(u, i) ==
    /\ u \in users /\ i \in Existing
    /\ holders' = holders \cup {<<u, i>>}
    /\ UNCHANGED <<users, roles, perms, members>>

Revoke(u, i) ==
    /\ holders' = holders \ {<<u, i>>}
    /\ UNCHANGED <<users, roles, perms, members>>

Register(u, a) ==
    /\ u \in users
    /\ members' = members \cup {<<u, a>>}
    /\ UNCHANGED <<users, roles, perms, holders>>

RemoveUser(u) ==
    /\ u \in users
    /\ users' = users \ {u}
    /\ holders' = {q \in holders : q[1] # u}
    /\ members' = {q \in members : q[1] # u}
    /\ UNCHANGED <<roles, perms>>

Next ==
    \/ \E i \in Role :
         \/ \E n \in Name : Create(i, n)
         \/ \E p \in Permission : Grant(i, p)
         \/ Delete(i)
    \/ \E u \in User :
         \/ \E i \in Role : Assign(u, i) \/ Revoke(u, i)
         \/ \E a \in App : Register(u, a)
         \/ RemoveUser(u)

Spec == Init /\ [][Next]_bookVars
=============================================================================
