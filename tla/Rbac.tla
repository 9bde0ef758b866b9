---------------------------------- MODULE Rbac ----------------------------------
(***************************************************************************)
(* Roles, their permissions, who holds which role and who is in which app: *)
(* RoleService and AppRepository over auth.roles, role_permissions,        *)
(* user_roles and user_apps, and the permission check in front of the      *)
(* CRM's operations.                                                       *)
(*                                                                         *)
(* Every request has one READ COMMITTED transaction: it looks for what is  *)
(* there, issues one INSERT or DELETE, and commits.  A checked operation   *)
(* has two: assert_permission reads in its own, the operation follows in   *)
(* another.  A refusal that changes nothing is no step.                    *)
(*                                                                         *)
(* The users here are no superusers, who hold every permission.  Nothing   *)
(* sets Role.is_system.  require_permission, in front of the endpoints of  *)
(* roles, asks check_permission and does not look at the answer, so it     *)
(* refuses nobody.                                                         *)
(***************************************************************************)
EXTENDS Naturals

CONSTANTS
    User,
    Role,          \* ids of auth.roles
    Name,          \* names of roles
    Permission,    \* resource:action pairs
    App,
    AppOf,         \* RESOURCE_APP_MAP: the app of a permission's resource, or None
    Request,       \* slots for requests being handled at the same time
    None

ASSUME NoneIsApart == None \notin User \cup Role \cup Name \cup Permission \cup App

ASSUME AppOfIsApp == AppOf \in [Permission -> App \cup {None}]

VARIABLES
    users,     \* users that exist
    roles,     \* roles[i]: the name of role i, or None
    perms,     \* role_permissions
    held,      \* held[u][i]: rows of user_roles for the pair
    members,   \* user_apps
    task       \* task[r]: the transaction of request r

data == <<users, roles, perms, held, members>>
vars == <<users, roles, perms, held, members, task>>

Operation ==
    {"create", "delete", "grant", "ungrant", "assign", "revoke",
     "register", "unregister", "use"}

(* at: the next statement; key: a name, a permission or an app; seen: the  *)
(* copies of a link that a revocation deletes; view: whether something that *)
(* Overtakes has been committed since this request read.                   *)
Task ==
    [at : {"insert", "delete", "commit", "raise", "act"}, op : Operation,
     user : User \cup {None}, role : Role \cup {None},
     key : Name \cup Permission \cup App \cup {None},
     seen : Nat, view : {"current", "overtaken"}]

ASSUME NoneIsNoTask == None \notin Task

TypeOK ==
    /\ users \subseteq User
    /\ roles \in [Role -> Name \cup {None}]
    /\ perms \subseteq Role \X Permission
    /\ held \in [User -> [Role -> Nat]]
    /\ members \subseteq User \X App
    /\ task \in [Request -> Task \cup {None}]

Init ==
    /\ users = User
    /\ roles = [i \in Role |-> None]
    /\ perms = {}
    /\ held = [u \in User |-> [i \in Role |-> 0]]
    /\ members = {}
    /\ task = [r \in Request |-> None]

-----------------------------------------------------------------------------
At(r, places) == task[r] # None /\ task[r].at \in places

Wrote(r, ops) == At(r, {"commit"}) /\ task[r].op \in ops

Existing == {i \in Role : roles[i] # None}

Begin(r, place, op, u, i, key) ==
    /\ task[r] = None
    /\ task' = [task EXCEPT ![r] =
                  [at |-> place, op |-> op, user |-> u, role |-> i, key |-> key,
                   seen |-> 0, view |-> "current"]]
    /\ UNCHANGED data

(* uuid4, and nothing under way that names the id.                         *)
CreateRole(r, i, n) ==
    /\ roles[i] = None
    /\ \A o \in Request : task[o] # None => task[o].role # i
    /\ \A j \in Existing : roles[j] # n
    /\ Begin(r, "insert", "create", None, i, n)

DeleteRole(r, i) == i \in Existing /\ Begin(r, "delete", "delete", None, i, None)

AddPermission(r, i, p) ==
    /\ i \in Existing
    /\ <<i, p>> \notin perms
    /\ Begin(r, "insert", "grant", None, i, p)

(* The endpoint passes a keyword the method does not take: TypeError.      *)
RemovePermission(r, i, p) ==
    i \in Existing /\ Begin(r, "raise", "ungrant", None, i, p)

(* Mutant: assign_role_to_user does not look for the link.                 *)
AssignAgain(r, u, i) ==
    /\ u \in users /\ i \in Existing
    /\ Begin(r, "insert", "assign", u, i, None)

(* One row is an answer, two are MultipleResultsFound.                     *)
AssignRole(r, u, i) ==
    /\ u \in users /\ i \in Existing
    /\ held[u][i] = 0
    /\ Begin(r, "insert", "assign", u, i, None)

RevokeRole(r, u, i) ==
    /\ u \in users /\ i \in Existing
    /\ Begin(r, "delete", "revoke", u, i, None)

(* The user is not looked up: the foreign key decides.                     *)
RegisterToApp(r, u, a) ==
    /\ <<u, a>> \notin members
    /\ Begin(r, "insert", "register", u, None, a)

(* TypeError again.                                                        *)
UnregisterFromApp(r, u, a) == Begin(r, "raise", "unregister", u, None, a)

(* Mutant: the membership of the resource's app is not asked for.          *)
HoldsPermission(u, p) == \E i \in Role : held[u][i] > 0 /\ <<i, p>> \in perms

CheckPermission(u, p) ==
    /\ u \in users
    /\ AppOf[p] # None => <<u, AppOf[p]>> \in members
    /\ \E i \in Role : held[u][i] > 0 /\ <<i, p>> \in perms

Use(r, u, p) == CheckPermission(u, p) /\ Begin(r, "act", "use", u, None, p)

-----------------------------------------------------------------------------
End(r) == task' = [task EXCEPT ![r] = None]

Goto(r, place, seen) ==
    task' = [task EXCEPT ![r] =
               [at |-> place, op |-> task[r].op, user |-> task[r].user,
                role |-> task[r].role, key |-> task[r].key, seen |-> seen,
                view |-> task[r].view]]

(* Mutant: two revocations of one link do not wait for each other.         *)
WaitsForOthers(r) ==
    \E o \in Request \ {r} :
      \/ Wrote(o, {"delete"}) /\ task[o].role = task[r].role
      \/ task[r].op = "create" /\ Wrote(o, {"create"}) /\ task[o].key = task[r].key
      \/ task[r].op = "delete" /\ Wrote(o, {"grant", "assign", "revoke"})
           /\ task[o].role = task[r].role

(* Waits: for the role's row, which a deletion holds and a reference       *)
(* shares; for a uniqueness another request has not settled yet.           *)
Waits(r) ==
    \E o \in Request \ {r} :
      \/ Wrote(o, {"delete"}) /\ task[o].role = task[r].role
      \/ task[r].op = "create" /\ Wrote(o, {"create"}) /\ task[o].key = task[r].key
      \/ task[r].op = "grant" /\ Wrote(o, {"grant"})
           /\ <<task[o].role, task[o].key>> = <<task[r].role, task[r].key>>
      \/ task[r].op = "register" /\ Wrote(o, {"register"})
           /\ <<task[o].user, task[o].key>> = <<task[r].user, task[r].key>>
      \/ task[r].op = "delete" /\ Wrote(o, {"grant", "assign", "revoke"})
           /\ task[o].role = task[r].role
      \/ task[r].op = "revoke" /\ Wrote(o, {"revoke"})
           /\ <<task[o].user, task[o].role>> = <<task[r].user, task[r].role>>

(* A foreign key without its row, or a second row of a unique pair; the    *)
(* links of user_roles are not unique.                                     *)
BreaksConstraint(t) ==
    \/ t.op = "create" /\ \E j \in Existing : roles[j] = t.key
    \/ t.op \in {"grant", "assign"} /\ roles[t.role] = None
    \/ t.op \in {"assign", "register"} /\ t.user \notin users
    \/ t.op = "grant" /\ <<t.role, t.key>> \in perms
    \/ t.op = "register" /\ <<t.user, t.key>> \in members

Insert(r) ==
    /\ At(r, {"insert"}) /\ ~Waits(r)
    /\ IF BreaksConstraint(task[r]) THEN End(r) ELSE Goto(r, "commit", 0)
    /\ UNCHANGED data

(* Mutant: one row of user_roles is deleted.                               *)
FirstCopy(t) == IF t.op = "revoke" /\ held[t.user][t.role] > 0 THEN 1 ELSE 0

(* The rows that the DELETE finds and locks.                               *)
Copies(t) == IF t.op = "revoke" THEN held[t.user][t.role] ELSE 0

Delete(r) ==
    /\ At(r, {"delete"}) /\ ~Waits(r)
    /\ Goto(r, "commit", Copies(task[r]))
    /\ UNCHANGED data

Linked(u, i, n) == [held EXCEPT ![u] = [held[u] EXCEPT ![i] = n]]

(* Mutant: the links of a deleted role stay.                               *)
HeldWithDeleted(t) ==
    IF t.op = "assign" THEN Linked(t.user, t.role, held[t.user][t.role] + 1)
    ELSE IF t.op = "revoke" THEN Linked(t.user, t.role, held[t.user][t.role] - t.seen)
    ELSE held

HeldAfter(t) ==
    IF t.op = "assign" THEN Linked(t.user, t.role, held[t.user][t.role] + 1)
    ELSE IF t.op = "revoke" THEN Linked(t.user, t.role, held[t.user][t.role] - t.seen)
    ELSE IF t.op = "delete"
    THEN [u \in User |-> [i \in Role |-> IF i = t.role THEN 0 ELSE held[u][i]]]
    ELSE held

(* Transaction o makes what t has read untrue: a second assignment of the  *)
(* pair, or a permission that is gone before it is used.                   *)
Overtakes(o, t) ==
    \/ /\ o.op = "assign" /\ t.op \in {"assign", "revoke"}
       /\ <<o.user, o.role>> = <<t.user, t.role>>
    \/ /\ o.op \in {"revoke", "cleanup"} /\ t.op = "use"
       /\ o.user = t.user
    \/ o.op = "delete" /\ t.op = "use"

(* The other transactions, once o is committed.                            *)
Others(r, o) ==
    [q \in Request |->
       IF q = r \/ task[q] = None THEN None
       ELSE [at |-> task[q].at, op |-> task[q].op, user |-> task[q].user,
             role |-> task[q].role, key |-> task[q].key, seen |-> task[q].seen,
             view |-> IF Overtakes(o, task[q]) THEN "overtaken" ELSE task[q].view]]

(* A row deleted takes with it the rows that refer to it.                  *)
Commit(r) ==
    /\ At(r, {"commit"})
    /\ LET t == task[r] IN
         /\ roles' = IF t.op = "create" THEN [roles EXCEPT ![t.role] = t.key]
                     ELSE IF t.op = "delete" THEN [roles EXCEPT ![t.role] = None]
                     ELSE roles
         /\ perms' = IF t.op = "grant" THEN perms \cup {<<t.role, t.key>>}
                     ELSE IF t.op = "delete" THEN {q \in perms : q[1] # t.role}
                     ELSE perms
         /\ held' = HeldAfter(t)
         /\ members' = IF t.op = "register" THEN members \cup {<<t.user, t.key>>}
                       ELSE members
    /\ task' = Others(r, task[r])
    /\ UNCHANGED users

(* The operation behind a check, in its own transaction.                   *)
Act(r) == At(r, {"act"}) /\ End(r) /\ UNCHANGED data

Raise(r) == At(r, {"raise"}) /\ End(r) /\ UNCHANGED data

(* The process or the connection dies.                                     *)
Abort(r) == task[r] # None /\ End(r) /\ UNCHANGED data

(* The cleanup loop deletes a user, and waits for who refers to it.        *)
DeleteUser(u) ==
    /\ u \in users
    /\ \A r \in Request : Wrote(r, {"assign", "revoke", "register"}) => task[r].user # u
    /\ users' = users \ {u}
    /\ held' = [held EXCEPT ![u] = [i \in Role |-> 0]]
    /\ members' = {q \in members : q[1] # u}
    /\ task' = Others(None, [op |-> "cleanup", user |-> u])
    /\ UNCHANGED <<roles, perms>>

RoleRequest(r) ==
    \E i \in Role :
      \/ \E n \in Name : CreateRole(r, i, n)
      \/ \E p \in Permission : AddPermission(r, i, p) \/ RemovePermission(r, i, p)
      \/ DeleteRole(r, i)

UserRequest(r) ==
    \E u \in User :
      \/ \E i \in Role : AssignRole(r, u, i) \/ RevokeRole(r, u, i)
      \/ \E a \in App : RegisterToApp(r, u, a) \/ UnregisterFromApp(r, u, a)
      \/ \E p \in Permission : Use(r, u, p)

Advance(r) ==
    \/ Insert(r)
    \/ Delete(r)
    \/ Commit(r)
    \/ Act(r)
    \/ Raise(r)
    \/ Abort(r)

Next ==
    \/ \E r \in Request : RoleRequest(r) \/ UserRequest(r) \/ Advance(r)
    \/ \E u \in User : DeleteUser(u)

Spec == Init /\ [][Next]_vars

-----------------------------------------------------------------------------
(* What roles and memberships promise.                                     *)

(* A link joins a user and a role that exist, and a permission belongs to  *)
(* a role that exists, whatever assignments, grants, deletions and         *)
(* cascades overlap (auth/models/role.py:22-31, 90-95).                    *)
LinksHaveEnds ==
    /\ \A u \in User, i \in Role : held[u][i] > 0 => u \in users /\ i \in Existing
    /\ \A q \in perms : q[1] \in Existing
    /\ \A q \in members : q[1] \in users

(* Two roles never share a name, although create_role looks and inserts in *)
(* two steps (auth/services/role_service.py:131-134).                      *)
NamesAreUnique == \A i, j \in Existing : roles[i] = roles[j] => i = j

(* A user has a role twice only when another assignment of it committed    *)
(* after this one had looked (auth/db/repository.py:197-208).              *)
SecondLinkComesFromOverlap ==
    [][\A u \in User, i \in Role :
         0 < held[u][i] /\ held[u][i] < held'[u][i] =>
           \E r \in Request : At(r, {"commit"}) /\ Commit(r) /\ task[r].view = "overtaken"]_vars

(* A revocation takes every link of the pair, duplicates included, but for *)
(* one that was committed while it was under way (repository.py:211-216).  *)
RevocationIsComplete ==
    [][\A r \in Request :
         Wrote(r, {"revoke"}) /\ Commit(r) =>
           held'[task[r].user][task[r].role] = 0 \/ task[r].view = "overtaken"]_vars

(* A CRM operation is carried out for who is in the app and holds the      *)
(* permission then, or did when the check asked, and has lost a role or    *)
(* the account since (auth/services/role_service.py:76-127,                *)
(* crm/services.py:45).                                                    *)
UseIsPermitted ==
    [][\A r \in Request :
         At(r, {"act"}) /\ Act(r) =>
           LET u == task[r].user
               p == task[r].key
           IN \/ /\ u \in users
                 /\ AppOf[p] \in App => <<u, AppOf[p]>> \in members
                 /\ \E i \in Existing : held[u][i] > 0 /\ <<i, p>> \in perms
              \/ task[r].view = "overtaken"]_vars

-----------------------------------------------------------------------------
(* What the tables amount to: a role is held when a link says so.          *)

Holders == {q \in User \X Role : held[q[1]][q[2]] > 0}

Book == INSTANCE RoleBook WITH holders <- Holders

(* Requests that look, wait, fail and duplicate links change who may do    *)
(* what as if each operation were one step: nothing is granted, assigned   *)
(* or joined to what is gone, a name is free when it is taken, and a       *)
(* deleted role or user leaves nothing behind (auth/models/role.py:22-122, *)
(* auth/db/repository.py:186-268, 388-413).                                *)
ImplementsRoleBook == Book!Spec
=============================================================================
