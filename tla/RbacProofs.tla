------------------------------- MODULE RbacProofs -------------------------------
(***************************************************************************)
(* The properties of Rbac for any number of users, roles, permissions and  *)
(* concurrent requests.  The argument is in three parts: what a request    *)
(* has read stays true unless it is overtaken (Read); what it has written *)
(* and not committed stays possible, because the locks it holds make the   *)
(* others wait (Apart); so every commit keeps links, names and checks, and *)
(* is one operation of RoleBook.                                           *)
(***************************************************************************)
EXTENDS Rbac, TLAPS

(* A task's operation goes with its statement and has its arguments.       *)
Kind(t) ==
    /\ t.at = "insert" => t.op \in {"create", "grant", "assign", "register"}
    /\ t.at = "delete" => t.op \in {"delete", "revoke"}
    /\ t.at = "commit" => t.op \notin {"ungrant", "unregister", "use"}
    /\ t.at = "raise" => t.op \in {"ungrant", "unregister"}
    /\ t.at = "act" => t.op = "use"
    /\ t.op \in {"create", "delete", "grant", "assign", "revoke"} => t.role \in Role
    /\ t.op \in {"assign", "revoke", "register", "use"} => t.user \in User
    /\ t.op = "create" => t.key \in Name
    /\ t.op \in {"grant", "use"} => t.key \in Permission
    /\ t.op = "register" => t.key \in App

(* What the task has read still holds, or another has overtaken it.        *)
Read(t) ==
    /\ t.op = "assign" /\ t.view = "current" => held[t.user][t.role] = 0
    /\ t.op = "use" /\ t.view = "current" => CheckPermission(t.user, t.key)

(* What the task has written can be committed.                             *)
Possible(t) ==
    t.at = "commit" =>
      /\ t.op = "create" => \A j \in Role : roles[j] # t.key
      /\ t.op \in {"grant", "assign"} => roles[t.role] # None
      /\ t.op \in {"assign", "register"} => t.user \in users
      /\ t.op = "revoke" => t.seen <= held[t.user][t.role]
      /\ t.op = "revoke" /\ t.view = "current" => t.seen = held[t.user][t.role]

(* Two tasks that have both written do not write the same thing.           *)
Apart(t, o) ==
    t.at = "commit" /\ o.at = "commit" =>
      /\ t.op = "delete" /\ o.op \in {"delete", "grant", "assign", "revoke"} =>
           t.role # o.role
      /\ t.op = "create" /\ o.op = "create" => t.key # o.key
      /\ t.op = "revoke" /\ o.op = "revoke" => <<t.user, t.role>> # <<o.user, o.role>>

TasksInv ==
    \A r \in Request : task[r] # None =>
      /\ Kind(task[r]) /\ Read(task[r]) /\ Possible(task[r])
      /\ \A o \in Request \ {r} : task[o] # None => Apart(task[r], task[o])

IInv ==
    /\ TypeOK
    /\ LinksHaveEnds
    /\ NamesAreUnique
    /\ TasksInv

-----------------------------------------------------------------------------
(* Steps that leave the tables alone.                                      *)

LEMMA MoveType ==
    ASSUME TypeOK, UNCHANGED data, NEW r \in Request, NEW t \in Task \cup {None},
           task' = [task EXCEPT ![r] = t]
    PROVE  TypeOK'
BY DEF TypeOK, data

LEMMA SameTables ==
    ASSUME UNCHANGED data, NEW q \in Request, NEW t, task'[q] = t
    PROVE  /\ Read(t) => Read(task[q])'
           /\ Possible(t) => Possible(task[q])'
BY DEF Read, Possible, CheckPermission, data

(* One request goes on to t, which is sound and apart from the others.     *)
LEMMA MoveInv ==
    ASSUME IInv, TypeOK', UNCHANGED data, NEW r \in Request, NEW t,
           task' = [task EXCEPT ![r] = t],
           t # None, Kind(t), Read(t), Possible(t),
           \A o \in Request \ {r} :
             task[o] # None => Apart(t, task[o]) /\ Apart(task[o], t)
    PROVE  IInv'
<1>1. LinksHaveEnds' /\ NamesAreUnique'
  BY DEF IInv, LinksHaveEnds, NamesAreUnique, Existing, data
<1>2. ASSUME NEW q \in Request, task'[q] # None
      PROVE  /\ Kind(task[q])' /\ Read(task[q])' /\ Possible(task[q])'
             /\ \A o \in Request \ {q} : task'[o] # None => Apart(task[q], task[o])'
  <2>1. \A o \in Request : task'[o] = IF o = r THEN t ELSE task[o]
    BY DEF IInv, TypeOK
  <2>2. q # r => task[q] # None /\ Kind(task[q]) /\ Read(task[q]) /\ Possible(task[q])
    BY <1>2, <2>1 DEF IInv, TasksInv
  <2>3. Kind(task'[q])
    BY <2>1, <2>2
  <2>4. Read(task[q])'
    BY <2>1, <2>2, SameTables
  <2>5. Possible(task[q])'
    BY <2>1, <2>2, SameTables
  <2>6. \A o \in Request \ {q} : task'[o] # None => Apart(task'[q], task'[o])
    BY <1>2, <2>1 DEF IInv, TasksInv
  <2> QED
    BY <2>3, <2>4, <2>5, <2>6
<1> QED
  BY <1>1, <1>2 DEF IInv, TasksInv

LEMMA EndInv ==
    ASSUME IInv, UNCHANGED data, NEW r \in Request, End(r)
    PROVE  IInv'
<1>1. TypeOK' /\ LinksHaveEnds' /\ NamesAreUnique'
  BY DEF IInv, TypeOK, LinksHaveEnds, NamesAreUnique, Existing, data, End
<1>2. ASSUME NEW q \in Request, task'[q] # None
      PROVE  /\ Kind(task[q])' /\ Read(task[q])' /\ Possible(task[q])'
             /\ \A o \in Request \ {q} : task'[o] # None => Apart(task[q], task[o])'
  <2>1. \A o \in Request : task'[o] # None => task'[o] = task[o]
    BY DEF IInv, TypeOK, End
  <2>2. Kind(task[q]) /\ Read(task[q]) /\ Possible(task[q])
    BY <1>2, <2>1 DEF IInv, TasksInv
  <2>4. Read(task[q])'
    BY <1>2, <2>1, <2>2 DEF Read, CheckPermission, data
  <2>5. Possible(task[q])'
    BY <1>2, <2>1, <2>2 DEF Possible, data
  <2>6. \A o \in Request \ {q} : task'[o] # None => Apart(task'[q], task'[o])
    BY <1>2, <2>1 DEF IInv, TasksInv
  <2> QED
    BY <1>2, <2>1, <2>2, <2>4, <2>5, <2>6
<1> QED
  BY <1>1, <1>2 DEF IInv, TasksInv

-----------------------------------------------------------------------------
(* A request begins with a task that has what it read.                     *)
LEMMA BeginInv ==
    ASSUME IInv, NEW r \in Request,
           NEW place \in {"insert", "delete", "raise", "act"}, NEW op \in Operation,
           NEW u \in User \cup {None}, NEW i \in Role \cup {None},
           NEW key \in Name \cup Permission \cup App \cup {None},
           Begin(r, place, op, u, i, key),
           place = "insert" => op \in {"create", "grant", "assign", "register"},
           place = "delete" => op \in {"delete", "revoke"},
           place = "raise" => op \in {"ungrant", "unregister"},
           place = "act" => op = "use",
           op \in {"create", "delete", "grant", "assign", "revoke"} => i \in Role,
           op \in {"assign", "revoke", "register", "use"} => u \in User,
           op = "create" => key \in Name,
           op \in {"grant", "use"} => key \in Permission,
           op = "register" => key \in App,
           op = "assign" => held[u][i] = 0,
           op = "use" => CheckPermission(u, key)
    PROVE  IInv'
<1> DEFINE t == [at |-> place, op |-> op, user |-> u, role |-> i, key |-> key,
                 seen |-> 0, view |-> "current"]
<1>1. t \in Task
  BY DEF Task
<1>2. task' = [task EXCEPT ![r] = t] /\ UNCHANGED data
  BY DEF Begin
<1>3. Kind(t)
  BY DEF Kind
<1>4. Read(t)
  BY DEF Read
<1>5. Possible(t) /\ \A o \in Request : Apart(t, task[o]) /\ Apart(task[o], t)
  BY DEF Possible, Apart
<1>6. TypeOK'
  BY <1>1, <1>2, MoveType DEF IInv
<1>7. t # None
  BY <1>1, NoneIsNoTask
<1> HIDE DEF t
<1> QED
  BY <1>2, <1>3, <1>4, <1>5, <1>6, <1>7, MoveInv

LEMMA ReceiveInv ==
    ASSUME IInv, NEW r \in Request, RoleRequest(r) \/ UserRequest(r)
    PROVE  IInv'
<1> USE DEF Operation
<1>1. ASSUME NEW i \in Role, NEW n \in Name, CreateRole(r, i, n) PROVE IInv'
  BY <1>1, BeginInv DEF CreateRole
<1>2. ASSUME NEW i \in Role, DeleteRole(r, i) PROVE IInv'
  BY <1>2, BeginInv DEF DeleteRole
<1>3. ASSUME NEW i \in Role, NEW p \in Permission, AddPermission(r, i, p) PROVE IInv'
  BY <1>3, BeginInv DEF AddPermission
<1>4. ASSUME NEW i \in Role, NEW p \in Permission, RemovePermission(r, i, p) PROVE IInv'
  BY <1>4, BeginInv DEF RemovePermission
<1>5. ASSUME NEW u \in User, NEW i \in Role, AssignRole(r, u, i) PROVE IInv'
  BY <1>5, BeginInv DEF AssignRole
<1>6. ASSUME NEW u \in User, NEW i \in Role, RevokeRole(r, u, i) PROVE IInv'
  BY <1>6, BeginInv DEF RevokeRole
<1>7. ASSUME NEW u \in User, NEW a \in App, RegisterToApp(r, u, a) PROVE IInv'
  BY <1>7, BeginInv DEF RegisterToApp
<1>8. ASSUME NEW u \in User, NEW a \in App, UnregisterFromApp(r, u, a) PROVE IInv'
  BY <1>8, BeginInv DEF UnregisterFromApp
<1>9. ASSUME NEW u \in User, NEW p \in Permission, Use(r, u, p) PROVE IInv'
  BY <1>9, BeginInv DEF Use
<1> QED
  BY <1>1, <1>2, <1>3, <1>4, <1>5, <1>6, <1>7, <1>8, <1>9 DEF RoleRequest, UserRequest

-----------------------------------------------------------------------------
(* A statement that writes has waited for what others have written.        *)
LEMMA InsertInv ==
    ASSUME IInv, NEW r \in Request, Insert(r)
    PROVE  IInv'
<1> DEFINE t == task[r]
           n == [at |-> "commit", op |-> t.op, user |-> t.user, role |-> t.role,
                 key |-> t.key, seen |-> 0, view |-> t.view]
<1>1. CASE BreaksConstraint(t)
  BY <1>1, EndInv DEF Insert
<1>2. CASE ~BreaksConstraint(t)
  <2>1. /\ t \in Task /\ t # None /\ t.at = "insert"
        /\ Kind(t) /\ Read(t) /\ ~Waits(r)
        /\ task' = [task EXCEPT ![r] = n] /\ UNCHANGED data
    BY <1>2, NoneIsNoTask DEF Insert, At, IInv, TypeOK, TasksInv, Goto
  <2>2. n \in Task
    BY <2>1 DEF Task
  <2>3. Kind(n) /\ n.op \in {"create", "grant", "assign", "register"}
    BY <2>1 DEF Kind
  <2>4. Read(n)
    BY <2>1 DEF Read
  <2>5. Possible(n)
    BY <1>2, <2>3, NoneIsApart DEF Possible, BreaksConstraint, Existing, Kind
  <2>6. ASSUME NEW o \in Request \ {r}, task[o] # None
        PROVE  Apart(n, task[o]) /\ Apart(task[o], n)
    BY <2>1, <2>3, <2>6 DEF Apart, Waits, Wrote, At
  <2>7. TypeOK'
    BY <2>1, <2>2, MoveType DEF IInv
  <2>8. n # None
    BY <2>2, NoneIsNoTask
  <2> HIDE DEF n
  <2> QED
    BY <2>1, <2>3, <2>4, <2>5, <2>6, <2>7, <2>8, MoveInv
<1> QED
  BY <1>1, <1>2

LEMMA DeleteInv ==
    ASSUME IInv, NEW r \in Request, Delete(r)
    PROVE  IInv'
<1> DEFINE t == task[r]
           n == [at |-> "commit", op |-> t.op, user |-> t.user, role |-> t.role,
                 key |-> t.key, seen |-> Copies(t), view |-> t.view]
<1>1. /\ t \in Task /\ t # None /\ t.at = "delete"
      /\ Kind(t) /\ Read(t) /\ ~Waits(r)
      /\ task' = [task EXCEPT ![r] = n] /\ UNCHANGED data
  BY NoneIsNoTask DEF Delete, At, IInv, TypeOK, TasksInv, Goto
<1>2. Copies(t) \in Nat /\ (t.op = "revoke" => Copies(t) = held[t.user][t.role])
  BY <1>1 DEF Copies, Kind, IInv, TypeOK
<1>3. n \in Task
  BY <1>1, <1>2 DEF Task
<1>4. Kind(n) /\ n.op \in {"delete", "revoke"}
  BY <1>1 DEF Kind
<1>5. Read(n)
  BY <1>1 DEF Read
<1>6. Possible(n)
  BY <1>2, <1>4 DEF Possible
<1>7. ASSUME NEW o \in Request \ {r}, task[o] # None
      PROVE  Apart(n, task[o]) /\ Apart(task[o], n)
  BY <1>1, <1>4, <1>7 DEF Apart, Waits, Wrote, At
<1>8. TypeOK' /\ n # None
  BY <1>1, <1>3, MoveType, NoneIsNoTask DEF IInv
<1> HIDE DEF n
<1> QED
  BY <1>1, <1>4, <1>5, <1>6, <1>7, <1>8, MoveInv

-----------------------------------------------------------------------------
(* What a task keeps while another transaction comes to its end.           *)
LEMMA OthersTask ==
    ASSUME IInv, NEW r, NEW o, task' = Others(r, o), NEW q \in Request, task'[q] # None
    PROVE  /\ q # r /\ task[q] # None /\ task[q] \in Task
           /\ task'[q] \in Task
           /\ task'[q].at = task[q].at /\ task'[q].op = task[q].op
           /\ task'[q].user = task[q].user /\ task'[q].role = task[q].role
           /\ task'[q].key = task[q].key /\ task'[q].seen = task[q].seen
           /\ task'[q].view = "current" => task[q].view = "current" /\ ~Overtakes(o, task[q])
           /\ Kind(task[q])' /\ Kind(task[q]) /\ Read(task[q]) /\ Possible(task[q])
<1>1. /\ q # r /\ task[q] # None
      /\ task'[q] = [at |-> task[q].at, op |-> task[q].op, user |-> task[q].user,
                     role |-> task[q].role, key |-> task[q].key, seen |-> task[q].seen,
                     view |-> IF Overtakes(o, task[q]) THEN "overtaken" ELSE task[q].view]
  BY DEF Others
<1>2. task[q] \in Task /\ Kind(task[q]) /\ Read(task[q]) /\ Possible(task[q])
  BY <1>1 DEF IInv, TypeOK, TasksInv
<1>3. task'[q] \in Task
  BY <1>1, <1>2 DEF Task
<1>4. /\ task'[q].at = task[q].at /\ task'[q].op = task[q].op
      /\ task'[q].user = task[q].user /\ task'[q].role = task[q].role
      /\ task'[q].key = task[q].key /\ task'[q].seen = task[q].seen
      /\ task'[q].view = "current" => task[q].view = "current" /\ ~Overtakes(o, task[q])
  BY <1>1
<1>5. Kind(task[q])'
  BY <1>2, <1>4 DEF Kind
<1> QED
  BY <1>1, <1>2, <1>3, <1>4, <1>5

LEMMA OthersApart ==
    ASSUME IInv, NEW r, NEW o, task' = Others(r, o),
           NEW q \in Request, NEW p \in Request \ {q}, task'[q] # None, task'[p] # None
    PROVE  Apart(task[q], task[p])'
<1>1. Apart(task[q], task[p])
  BY OthersTask DEF IInv, TasksInv
<1> QED
  BY <1>1, OthersTask DEF Apart

LEMMA OthersType ==
    ASSUME IInv, NEW r, NEW o, task' = Others(r, o)
    PROVE  task' \in [Request -> Task \cup {None}]
<1>1. \A q \in Request : task'[q] # None => task'[q] \in Task
  BY OthersTask
<1> QED
  BY <1>1 DEF Others

(* How the links of one pair change when t is committed.                   *)
LEMMA HeldChanges ==
    ASSUME IInv, NEW r \in Request, task[r] # None, task[r].at = "commit",
           held' = HeldAfter(task[r])
    PROVE  LET t == task[r] IN
           /\ held' \in [User -> [Role -> Nat]]
           /\ t.op = "assign" =>
                /\ held'[t.user][t.role] = held[t.user][t.role] + 1
                /\ \A u \in User, i \in Role :
                     <<u, i>> # <<t.user, t.role>> => held'[u][i] = held[u][i]
           /\ t.op = "revoke" =>
                /\ held'[t.user][t.role] = held[t.user][t.role] - t.seen
                /\ \A u \in User, i \in Role :
                     <<u, i>> # <<t.user, t.role>> => held'[u][i] = held[u][i]
           /\ t.op = "delete" =>
                \A u \in User, i \in Role :
                  held'[u][i] = IF i = t.role THEN 0 ELSE held[u][i]
           /\ t.op \notin {"assign", "revoke", "delete"} => held' = held
<1> DEFINE t == task[r]
<1>1. /\ held \in [User -> [Role -> Nat]] /\ t \in Task /\ Kind(t) /\ Possible(t)
  BY DEF IInv, TypeOK, TasksInv
<1>2. t.op \in {"assign", "revoke", "delete"} => t.role \in Role
  BY <1>1 DEF Kind
<1>3. t.op \in {"assign", "revoke"} => t.user \in User
  BY <1>1 DEF Kind
<1>4. t.op = "revoke" => held[t.user][t.role] - t.seen \in Nat
  <2>1. t.seen \in Nat
    BY <1>1 DEF Task
  <2>2. t.op = "revoke" => t.seen <= held[t.user][t.role]
    BY <1>1 DEF Possible
  <2> QED
    BY <1>1, <1>2, <1>3, <2>1, <2>2
<1> HIDE DEF t
<1>5. ASSUME NEW u \in User, NEW i \in Role, NEW n \in Nat, held' = Linked(u, i, n)
      PROVE  /\ held' \in [User -> [Role -> Nat]]
             /\ held'[u][i] = n
             /\ \A v \in User, j \in Role : <<v, j>> # <<u, i>> => held'[v][j] = held[v][j]
  BY <1>1, <1>5 DEF Linked
<1>6. CASE t.op = "assign"
  <2>1. held' = Linked(t.user, t.role, held[t.user][t.role] + 1)
    BY <1>6 DEF HeldAfter, t
  <2>2. held[t.user][t.role] + 1 \in Nat
    BY <1>1, <1>2, <1>3, <1>6
  <2>3. /\ held' \in [User -> [Role -> Nat]]
        /\ held'[t.user][t.role] = held[t.user][t.role] + 1
        /\ \A u \in User, i \in Role :
             <<u, i>> # <<t.user, t.role>> => held'[u][i] = held[u][i]
    BY <1>2, <1>3, <1>5, <1>6, <2>1, <2>2
  <2> QED
    BY <1>6, <2>3 DEF t
<1>7. CASE t.op = "revoke"
  <2>1. held' = Linked(t.user, t.role, held[t.user][t.role] - t.seen)
    BY <1>7 DEF HeldAfter, t
  <2>2. /\ held' \in [User -> [Role -> Nat]]
        /\ held'[t.user][t.role] = held[t.user][t.role] - t.seen
        /\ \A u \in User, i \in Role :
             <<u, i>> # <<t.user, t.role>> => held'[u][i] = held[u][i]
    BY <1>2, <1>3, <1>4, <1>5, <1>7, <2>1
  <2> QED
    BY <1>7, <2>2 DEF t
<1>8. CASE t.op = "delete"
  BY <1>1, <1>2, <1>8 DEF HeldAfter, t
<1>9. CASE t.op \notin {"assign", "revoke", "delete"}
  BY <1>1, <1>9 DEF HeldAfter, t
<1> QED
  BY <1>6, <1>7, <1>8, <1>9 DEF t

-----------------------------------------------------------------------------
(* A commit, case by case of its operation.                                *)
LEMMA CommitInv ==
    ASSUME IInv, NEW r \in Request, Commit(r)
    PROVE  IInv'
<1> DEFINE t == task[r]
<1>1. /\ t # None /\ t.at = "commit" /\ t \in Task
      /\ Kind(t) /\ Read(t) /\ Possible(t)
  BY DEF Commit, At, IInv, TypeOK, TasksInv
<1>2. /\ task' = Others(r, t) /\ held' = HeldAfter(t) /\ users' = users
      /\ roles' = IF t.op = "create" THEN [roles EXCEPT ![t.role] = t.key]
                  ELSE IF t.op = "delete" THEN [roles EXCEPT ![t.role] = None] ELSE roles
      /\ perms' = IF t.op = "grant" THEN perms \cup {<<t.role, t.key>>}
                  ELSE IF t.op = "delete" THEN {q \in perms : q[1] # t.role} ELSE perms
      /\ members' = IF t.op = "register" THEN members \cup {<<t.user, t.key>>} ELSE members
  BY DEF Commit
<1>3. /\ held' \in [User -> [Role -> Nat]]
      /\ t.op = "assign" =>
           /\ held'[t.user][t.role] = held[t.user][t.role] + 1
           /\ \A u \in User, i \in Role :
                <<u, i>> # <<t.user, t.role>> => held'[u][i] = held[u][i]
      /\ t.op = "revoke" =>
           /\ held'[t.user][t.role] = held[t.user][t.role] - t.seen
           /\ \A u \in User, i \in Role :
                <<u, i>> # <<t.user, t.role>> => held'[u][i] = held[u][i]
      /\ t.op = "delete" =>
           \A u \in User, i \in Role :
             held'[u][i] = IF i = t.role THEN 0 ELSE held[u][i]
      /\ t.op \notin {"assign", "revoke", "delete"} => held' = held
  BY <1>1, <1>2, HeldChanges
<1>4. /\ users \subseteq User /\ roles \in [Role -> Name \cup {None}]
      /\ perms \subseteq Role \X Permission /\ members \subseteq User \X App
      /\ held \in [User -> [Role -> Nat]]
      /\ \A u \in User, i \in Role : held[u][i] > 0 => u \in users /\ roles[i] # None
      /\ \A q \in perms : roles[q[1]] # None
      /\ \A q \in members : q[1] \in users
      /\ \A i, j \in Role : roles[i] # None /\ roles[i] = roles[j] => i = j
  BY DEF IInv, TypeOK, LinksHaveEnds, NamesAreUnique, Existing
<1>5. /\ t.op \in {"create", "delete", "grant", "assign", "revoke"} => t.role \in Role
      /\ t.op \in {"assign", "revoke", "register"} => t.user \in User
      /\ t.op = "create" => t.key \in Name /\ \A j \in Role : roles[j] # t.key
      /\ t.op = "grant" => t.key \in Permission
      /\ t.op = "register" => t.key \in App
      /\ t.op \in {"grant", "assign"} => roles[t.role] # None
      /\ t.op \in {"assign", "register"} => t.user \in users
      /\ t.op = "revoke" => t.seen <= held[t.user][t.role] /\ t.seen \in Nat
  BY <1>1 DEF Kind, Possible, Task
<1> HIDE DEF t
<1>6. TypeOK'
  <2>1. task' \in [Request -> Task \cup {None}]
    BY <1>2, OthersType
  <2>2. roles' \in [Role -> Name \cup {None}]
    BY <1>2, <1>4, <1>5
  <2>3. perms' \subseteq Role \X Permission /\ members' \subseteq User \X App
    BY <1>2, <1>4, <1>5
  <2> QED
    BY <1>2, <1>3, <1>4, <2>1, <2>2, <2>3 DEF TypeOK
<1>7. \A i \in Role :
        roles'[i] = IF t.op = "create" /\ i = t.role THEN t.key
                    ELSE IF t.op = "delete" /\ i = t.role THEN None ELSE roles[i]
  BY <1>2, <1>4
<1>8. LinksHaveEnds'
  <2>1. ASSUME NEW u \in User, NEW i \in Role, held'[u][i] > 0
        PROVE  u \in users /\ roles'[i] # None
    <3>1. held[u][i] \in Nat /\ held'[u][i] \in Nat
      BY <1>3, <1>4
    <3>2. \/ held[u][i] > 0 /\ ~(t.op = "delete" /\ i = t.role)
          \/ t.op = "assign" /\ u = t.user /\ i = t.role
      <4>1. CASE t.op = "revoke" /\ u = t.user /\ i = t.role
        BY <1>3, <1>5, <2>1, <3>1, <4>1
      <4>2. CASE ~(t.op = "revoke" /\ u = t.user /\ i = t.role)
        BY <1>3, <2>1, <3>1, <4>2
      <4> QED
        BY <4>1, <4>2
    <3>3. t.op = "create" => t.key # None
      BY <1>5, NoneIsApart
    <3> QED
      BY <1>4, <1>5, <1>7, <3>2, <3>3
  <2>2. ASSUME NEW q \in perms' PROVE roles'[q[1]] # None /\ q[1] \in Role
    <3>1. t.op = "create" => t.key # None
      BY <1>5, NoneIsApart
    <3>2. q \in perms \/ (t.op = "grant" /\ q = <<t.role, t.key>>)
      BY <1>2, <2>2
    <3>3. q[1] \in Role /\ roles[q[1]] # None
      BY <1>4, <1>5, <3>2
    <3>4. ~(t.op = "delete" /\ q[1] = t.role)
      BY <1>2, <2>2
    <3> QED
      BY <1>7, <3>1, <3>3, <3>4
  <2>3. \A q \in members' : q[1] \in users'
    BY <1>2, <1>4, <1>5
  <2> QED
    BY <1>2, <2>1, <2>2, <2>3 DEF LinksHaveEnds, Existing
<1>9. NamesAreUnique'
  <2>1. \A i, j \in Role : roles'[i] # None /\ roles'[i] = roles'[j] => i = j
    BY <1>4, <1>5, <1>7
  <2> QED
    BY <2>1 DEF NamesAreUnique, Existing
<1>10. ASSUME NEW q \in Request, task'[q] # None
       PROVE  /\ Kind(task[q])' /\ Read(task[q])' /\ Possible(task[q])'
              /\ \A o \in Request \ {q} : task'[o] # None => Apart(task[q], task[o])'
  <2> DEFINE s == task[q]
             n == task'[q]
  <2>1. /\ q # r /\ s # None /\ s \in Task /\ n \in Task
        /\ n.at = s.at /\ n.op = s.op /\ n.user = s.user /\ n.role = s.role
        /\ n.key = s.key /\ n.seen = s.seen
        /\ n.view = "current" => s.view = "current" /\ ~Overtakes(t, s)
        /\ Kind(n) /\ Kind(s) /\ Read(s) /\ Possible(s)
    BY <1>2, <1>10, OthersTask
  <2>2. Apart(t, s) /\ Apart(s, t)
    BY <1>1, <2>1 DEF IInv, TasksInv, t
  <2> HIDE DEF s, n
  <2>3. n.op = "assign" /\ n.view = "current" => held'[n.user][n.role] = 0
    <3> SUFFICES ASSUME n.op = "assign", n.view = "current"
                 PROVE  held'[n.user][n.role] = 0
      OBVIOUS
    <3>1. n.user \in User /\ n.role \in Role
      BY <2>1 DEF Kind
    <3>2. held[n.user][n.role] = 0
      BY <2>1 DEF Read
    <3>3. ~(t.op = "assign" /\ t.user = n.user /\ t.role = n.role)
      BY <2>1 DEF Overtakes
    <3>4. CASE t.op = "revoke" /\ n.user = t.user /\ n.role = t.role
      BY <1>3, <1>5, <3>1, <3>2, <3>4
    <3>5. CASE ~(t.op = "revoke" /\ n.user = t.user /\ n.role = t.role)
      BY <1>3, <3>1, <3>2, <3>3, <3>5
    <3> QED
      BY <3>4, <3>5
  <2>4. n.op = "use" /\ n.view = "current" =>
          CheckPermission(task[q].user, task[q].key)'
    <3> SUFFICES ASSUME n.op = "use", n.view = "current"
                 PROVE  CheckPermission(task[q].user, task[q].key)'
      OBVIOUS
    <3>1. n.user \in User /\ CheckPermission(n.user, n.key)
      BY <2>1 DEF Kind, Read
    <3>2. t.op # "delete" /\ ~(t.op = "revoke" /\ t.user = n.user)
      BY <2>1 DEF Overtakes
    <3>3. \A i \in Role : held[n.user][i] > 0 => held'[n.user][i] > 0
      <4> SUFFICES ASSUME NEW i \in Role, held[n.user][i] > 0
                   PROVE  held'[n.user][i] > 0
        OBVIOUS
      <4>1. held[n.user][i] \in Nat
        BY <1>4, <3>1
      <4> QED
        BY <1>3, <3>1, <3>2, <4>1
    <3>4. perms \subseteq perms' /\ members \subseteq members'
      BY <1>2, <3>2
    <3>5. /\ n.user \in users'
          /\ AppOf[n.key] # None => <<n.user, AppOf[n.key]>> \in members'
          /\ \E i \in Role : held'[n.user][i] > 0 /\ <<i, n.key>> \in perms'
      BY <1>2, <3>1, <3>3, <3>4 DEF CheckPermission
    <3> QED
      BY <3>5 DEF CheckPermission, n
  <2>5. Read(task[q])'
    BY <2>3, <2>4 DEF Read, n
  <2>6. ASSUME n.at = "commit"
        PROVE  /\ n.op = "create" => \A j \in Role : roles'[j] # n.key
               /\ n.op \in {"grant", "assign"} => roles'[n.role] # None
               /\ n.op \in {"assign", "register"} => n.user \in users'
    <3>1. /\ s.op = "create" => s.key \in Name /\ \A j \in Role : roles[j] # s.key
          /\ s.op \in {"grant", "assign"} => s.role \in Role /\ roles[s.role] # None
          /\ s.op \in {"assign", "register"} => s.user \in users
      BY <2>1, <2>6 DEF Possible, Kind
    <3>2. /\ t.op = "create" /\ s.op = "create" => t.key # s.key
          /\ t.op = "delete" /\ s.op \in {"grant", "assign"} => t.role # s.role
      BY <1>1, <2>1, <2>2, <2>6 DEF Apart, t
    <3>3. \A a \in Name : a # None
      BY NoneIsApart
    <3> QED
      BY <1>2, <1>5, <1>7, <2>1, <3>1, <3>2, <3>3
  <2>7. ASSUME n.at = "commit", n.op = "revoke"
        PROVE  /\ n.seen <= held'[n.user][n.role]
               /\ n.view = "current" => n.seen = held'[n.user][n.role]
    <3>1. /\ s.user \in User /\ s.role \in Role /\ s.seen \in Nat
          /\ s.seen <= held[s.user][s.role]
          /\ n.view = "current" => s.seen = held[s.user][s.role]
      BY <2>1, <2>7 DEF Possible, Kind, Task
    <3>2. /\ t.op = "delete" => t.role # s.role
          /\ t.op = "revoke" => <<t.user, t.role>> # <<s.user, s.role>>
      BY <1>1, <2>1, <2>2, <2>7 DEF Apart, t
    <3>3. n.view = "current" =>
            ~(t.op = "assign" /\ t.user = s.user /\ t.role = s.role)
      BY <2>1, <2>7 DEF Overtakes
    <3>4. CASE t.op = "assign" /\ t.user = s.user /\ t.role = s.role
      <4>1. held'[s.user][s.role] = held[s.user][s.role] + 1 /\ held[s.user][s.role] \in Nat
        BY <1>3, <1>4, <3>1, <3>4
      <4> QED
        BY <2>1, <3>1, <3>3, <3>4, <4>1
    <3>5. CASE ~(t.op = "assign" /\ t.user = s.user /\ t.role = s.role)
      <4>1. held'[s.user][s.role] = held[s.user][s.role]
        BY <1>3, <3>1, <3>2, <3>5
      <4> QED
        BY <2>1, <3>1, <4>1
    <3> QED
      BY <3>4, <3>5
  <2>8. Possible(task[q])'
    BY <2>6, <2>7 DEF Possible, n
  <2> QED
    BY <1>2, <1>10, <2>1, <2>5, <2>8, OthersApart DEF n
<1> QED
  BY <1>6, <1>8, <1>9, <1>10 DEF IInv, TasksInv

(* The cascade of a user takes the links, and the requests that have       *)
(* written about the user hold it off.                                     *)
LEMMA DeleteUserInv ==
    ASSUME IInv, NEW u \in User, DeleteUser(u)
    PROVE  IInv'
<1>1. /\ users' = users \ {u} /\ held' = [held EXCEPT ![u] = [i \in Role |-> 0]]
      /\ members' = {q \in members : q[1] # u} /\ roles' = roles /\ perms' = perms
      /\ task' = Others(None, [op |-> "cleanup", user |-> u])
      /\ \A r \in Request : Wrote(r, {"assign", "revoke", "register"}) => task[r].user # u
  BY DEF DeleteUser
<1>2. held \in [User -> [Role -> Nat]]
  BY DEF IInv, TypeOK
<1>3. held' \in [User -> [Role -> Nat]] /\ task' \in [Request -> Task \cup {None}]
  BY <1>1, <1>2, OthersType
<1>4. TypeOK'
  BY <1>1, <1>3 DEF IInv, TypeOK
<1>5. /\ \A i \in Role : held'[u][i] = 0
      /\ \A v \in User : v # u => held'[v] = held[v]
  BY <1>1, <1>2
<1>6. LinksHaveEnds' /\ NamesAreUnique'
  <2>1. \A v \in User, i \in Role : held'[v][i] > 0 => v # u /\ held[v][i] > 0
    BY <1>5
  <2> QED
    BY <1>1, <2>1 DEF IInv, LinksHaveEnds, NamesAreUnique, Existing
<1>7. ASSUME NEW q \in Request, task'[q] # None
      PROVE  /\ Kind(task[q])' /\ Read(task[q])' /\ Possible(task[q])'
             /\ \A o \in Request \ {q} : task'[o] # None => Apart(task[q], task[o])'
  <2> DEFINE s == task[q]
             n == task'[q]
  <2>1. /\ s # None
        /\ n.at = s.at /\ n.op = s.op /\ n.user = s.user /\ n.role = s.role
        /\ n.key = s.key /\ n.seen = s.seen
        /\ n.view = "current" =>
             s.view = "current" /\ ~Overtakes([op |-> "cleanup", user |-> u], s)
        /\ Kind(n) /\ Kind(s) /\ Read(s) /\ Possible(s)
    BY <1>1, <1>7, OthersTask
  <2>2. s.at = "commit" /\ s.op \in {"assign", "revoke", "register"} => s.user # u
    BY <1>1, <2>1 DEF Wrote, At
  <2>3. n.view = "current" /\ n.op = "use" => n.user # u
    BY <2>1 DEF Overtakes
  <2> HIDE DEF s, n
  <2>4. n.op = "assign" /\ n.view = "current" => held'[n.user][n.role] = 0
    BY <1>5, <2>1 DEF Kind, Read
  <2>5. n.op = "use" /\ n.view = "current" =>
          CheckPermission(task[q].user, task[q].key)'
    <3> SUFFICES ASSUME n.op = "use", n.view = "current"
                 PROVE  CheckPermission(task[q].user, task[q].key)'
      OBVIOUS
    <3>1. n.user \in User /\ n.user # u /\ CheckPermission(n.user, n.key)
      BY <2>1, <2>3 DEF Kind, Read
    <3>2. held'[n.user] = held[n.user]
      BY <1>5, <3>1
    <3>3. /\ n.user \in users'
          /\ AppOf[n.key] # None => <<n.user, AppOf[n.key]>> \in members'
          /\ \E i \in Role : held'[n.user][i] > 0 /\ <<i, n.key>> \in perms'
      BY <1>1, <3>1, <3>2 DEF CheckPermission
    <3> QED
      BY <3>3 DEF CheckPermission, n
  <2>6. Read(task[q])'
    BY <2>4, <2>5 DEF Read, n
  <2>7. n.at = "commit" =>
          /\ n.op = "create" => \A j \in Role : roles'[j] # n.key
          /\ n.op \in {"grant", "assign"} => roles'[n.role] # None
          /\ n.op \in {"assign", "register"} => n.user \in users'
          /\ n.op = "revoke" => n.seen <= held'[n.user][n.role]
          /\ n.op = "revoke" /\ n.view = "current" => n.seen = held'[n.user][n.role]
    BY <1>1, <1>5, <2>1, <2>2 DEF Kind, Possible
  <2>8. Possible(task[q])'
    BY <2>7 DEF Possible, n
  <2> QED
    BY <1>1, <1>7, <2>1, <2>6, <2>8, OthersApart DEF n
<1> QED
  BY <1>4, <1>6, <1>7 DEF IInv, TasksInv

-----------------------------------------------------------------------------
LEMMA InitIInv == Init => IInv
<1> SUFFICES ASSUME Init PROVE IInv
  OBVIOUS
<1>1. TypeOK
  BY DEF Init, TypeOK
<1>2. LinksHaveEnds /\ NamesAreUnique /\ TasksInv
  BY DEF Init, LinksHaveEnds, NamesAreUnique, Existing, TasksInv
<1> QED
  BY <1>1, <1>2 DEF IInv

LEMMA NextIInv == IInv /\ [Next]_vars => IInv'
<1> SUFFICES ASSUME IInv, [Next]_vars PROVE IInv'
  OBVIOUS
<1>1. ASSUME NEW r \in Request, Act(r) \/ Raise(r) \/ Abort(r) PROVE IInv'
  BY <1>1, EndInv DEF Act, Raise, Abort
<1>2. CASE UNCHANGED vars
  <2>1. UNCHANGED data /\ task' = task
    BY <1>2 DEF vars, data
  <2>2. TypeOK'
    BY <2>1 DEF IInv, TypeOK, data
  <2>3. LinksHaveEnds' /\ NamesAreUnique'
    BY <2>1 DEF IInv, LinksHaveEnds, NamesAreUnique, Existing, data
  <2>4. TasksInv'
    BY <2>1, SameTables DEF IInv, TasksInv, TypeOK
  <2> QED
    BY <2>2, <2>3, <2>4 DEF IInv
<1> QED
  BY <1>1, <1>2, ReceiveInv, InsertInv, DeleteInv, CommitInv, DeleteUserInv
     DEF Next, Advance

THEOREM Invariance == Spec => []IInv
BY InitIInv, NextIInv, PTL DEF Spec

(* Every variable keeps its type: no count of links goes below zero.       *)
THEOREM TypeCorrect == Spec => []TypeOK
BY Invariance, PTL DEF IInv

(* Links, permissions and memberships join what exists.                    *)
THEOREM NoDanglingLinks == Spec => []LinksHaveEnds
BY Invariance, PTL DEF IInv

(* Two roles never share a name.                                           *)
THEOREM UniqueNames == Spec => []NamesAreUnique
BY Invariance, PTL DEF IInv

-----------------------------------------------------------------------------
(* A second link of a pair comes from an assignment that was overtaken.    *)
THEOREM SecondLinks == Spec => SecondLinkComesFromOverlap
<1>1. IInv /\ [Next]_vars =>
        [\A u \in User, i \in Role :
           0 < held[u][i] /\ held[u][i] < held'[u][i] =>
             \E r \in Request :
               At(r, {"commit"}) /\ Commit(r) /\ task[r].view = "overtaken"]_vars
  <2> SUFFICES ASSUME IInv, [Next]_vars, NEW u \in User, NEW i \in Role,
                      0 < held[u][i], held[u][i] < held'[u][i]
               PROVE  \E r \in Request :
                        At(r, {"commit"}) /\ Commit(r) /\ task[r].view = "overtaken"
    OBVIOUS
  <2>1. held \in [User -> [Role -> Nat]] /\ held[u][i] \in Nat
    BY DEF IInv, TypeOK
  <2>2. held' # held
    BY <2>1
  <2>3. ~ \E v \in User : DeleteUser(v)
    <3> SUFFICES ASSUME NEW v \in User, DeleteUser(v) PROVE FALSE
      OBVIOUS
    <3>1. held'[u][i] = IF u = v THEN 0 ELSE held[u][i]
      BY <2>1 DEF DeleteUser
    <3> QED
      BY <2>1, <3>1
  <2>4. PICK r \in Request : Commit(r)
    BY <2>2, <2>3 DEF Next, RoleRequest, UserRequest, Advance, vars, data, Begin,
       CreateRole, DeleteRole, AddPermission, RemovePermission, AssignRole, RevokeRole,
       RegisterToApp, UnregisterFromApp, Use, Insert, Delete, Act, Raise, Abort
  <2>5. /\ task[r] # None /\ task[r].at = "commit" /\ task[r] \in Task
        /\ Kind(task[r]) /\ Read(task[r]) /\ Possible(task[r])
    BY <2>4 DEF Commit, At, IInv, TypeOK, TasksInv
  <2>6. held' = HeldAfter(task[r])
    BY <2>4 DEF Commit
  <2>7. task[r].op = "assign" /\ task[r].user = u /\ task[r].role = i
    <3>1. task[r].op # "revoke" \/ task[r].user # u \/ task[r].role # i
      <4> SUFFICES ASSUME task[r].op = "revoke", task[r].user = u, task[r].role = i
                   PROVE  FALSE
        OBVIOUS
      <4>1. held'[u][i] = held[u][i] - task[r].seen /\ task[r].seen \in Nat
        BY <2>5, <2>6, HeldChanges DEF Task
      <4> QED
        BY <2>1, <4>1
    <3> QED
      BY <2>1, <2>5, <2>6, <3>1, HeldChanges
  <2>8. task[r].view # "current"
    BY <2>1, <2>5, <2>7 DEF Read
  <2> QED
    BY <2>4, <2>5, <2>8 DEF At, Task
<1> QED
  BY <1>1, Invariance, PTL DEF Spec, SecondLinkComesFromOverlap

(* A revocation that commits leaves no link, but for one it was overtaken  *)
(* by.                                                                     *)
THEOREM Revocations == Spec => RevocationIsComplete
<1>1. IInv =>
        [\A r \in Request :
           Wrote(r, {"revoke"}) /\ Commit(r) =>
             held'[task[r].user][task[r].role] = 0 \/ task[r].view = "overtaken"]_vars
  <2> SUFFICES ASSUME IInv, NEW r \in Request, Wrote(r, {"revoke"}), Commit(r),
                      task[r].view # "overtaken"
               PROVE  held'[task[r].user][task[r].role] = 0
    OBVIOUS
  <2>1. /\ task[r] # None /\ task[r].at = "commit" /\ task[r].op = "revoke"
        /\ task[r] \in Task /\ Kind(task[r]) /\ Possible(task[r])
    BY DEF Wrote, At, IInv, TypeOK, TasksInv
  <2>2. task[r].view = "current" /\ task[r].seen = held[task[r].user][task[r].role]
    BY <2>1 DEF Task, Possible
  <2>3. task[r].user \in User /\ task[r].role \in Role
    BY <2>1 DEF Kind
  <2>4. held[task[r].user][task[r].role] \in Nat
    BY <2>3 DEF IInv, TypeOK
  <2>5. held'[task[r].user][task[r].role] = held[task[r].user][task[r].role] - task[r].seen
    BY <2>1, HeldChanges DEF Commit
  <2> QED
    BY <2>2, <2>4, <2>5
<1> QED
  BY <1>1, Invariance, PTL DEF RevocationIsComplete

(* A checked operation is permitted when it is carried out, or overtaken.  *)
THEOREM UsesArePermitted == Spec => UseIsPermitted
<1>1. IInv =>
        [\A r \in Request :
           At(r, {"act"}) /\ Act(r) =>
             LET u == task[r].user
                 p == task[r].key
             IN \/ /\ u \in users
                   /\ AppOf[p] \in App => <<u, AppOf[p]>> \in members
                   /\ \E i \in Existing : held[u][i] > 0 /\ <<i, p>> \in perms
                \/ task[r].view = "overtaken"]_vars
  <2> SUFFICES ASSUME IInv, NEW r \in Request, At(r, {"act"}),
                      task[r].view # "overtaken"
               PROVE  /\ task[r].user \in users
                      /\ AppOf[task[r].key] \in App =>
                           <<task[r].user, AppOf[task[r].key]>> \in members
                      /\ \E i \in Existing :
                           held[task[r].user][i] > 0 /\ <<i, task[r].key>> \in perms
    OBVIOUS
  <2>1. /\ task[r] \in Task /\ task[r].at = "act"
        /\ Kind(task[r]) /\ Read(task[r])
    BY DEF At, IInv, TypeOK, TasksInv
  <2>2. CheckPermission(task[r].user, task[r].key) /\ task[r].user \in User
    BY <2>1 DEF Kind, Read, Task
  <2>3. \A i \in Role : held[task[r].user][i] > 0 => i \in Existing
    BY <2>2 DEF IInv, LinksHaveEnds
  <2> QED
    BY <2>2, <2>3, NoneIsApart DEF CheckPermission
<1> QED
  BY <1>1, Invariance, PTL DEF UseIsPermitted

-----------------------------------------------------------------------------
(* Rbac implements RoleBook: a commit is one operation on sets, a second   *)
(* link of a pair and a revocation that leaves one are none, and           *)
(* everything before a commit leaves the tables alone.                     *)

(* The id of a role is nobody else's while the role is being created.      *)
Unborn ==
    \A r \in Request : task[r] # None /\ task[r].op = "create" =>
      /\ roles[task[r].role] = None
      /\ \A o \in Request \ {r} : task[o] # None => task[o].role # task[r].role

LEMMA BeginUnborn ==
    ASSUME IInv, Unborn, NEW r \in Request, NEW place, NEW op, NEW u, NEW i, NEW key,
           Begin(r, place, op, u, i, key),
           i \in Existing \/ i = None \/
             /\ roles[i] = None
             /\ \A o \in Request : task[o] # None => task[o].role # i,
           op = "create" => i \in Role \ Existing
    PROVE  Unborn'
<1>1. /\ task'[r] = [at |-> place, op |-> op, user |-> u, role |-> i, key |-> key,
                     seen |-> 0, view |-> "current"]
      /\ \A o \in Request \ {r} : task'[o] = task[o]
      /\ roles' = roles
  BY DEF Begin, IInv, TypeOK, data
<1>2. task'[r].op = op /\ task'[r].role = i
  BY <1>1
<1>3. ASSUME NEW o \in Request \ {r}, task[o] # None, task[o].op = "create"
      PROVE  task[o].role # i
  <2>1. task[o].role \in Role /\ roles[task[o].role] = None
    BY <1>3 DEF Unborn, IInv, TasksInv, Kind
  <2> QED
    BY <1>3, <2>1, NoneIsApart DEF Existing
<1>4. op = "create" => roles[i] = None /\ \A o \in Request : task[o] # None => task[o].role # i
  BY NoneIsApart DEF Existing
<1> QED
  BY <1>1, <1>2, <1>3, <1>4 DEF Unborn

LEMMA NextUnborn == IInv /\ Unborn /\ [Next]_vars => Unborn'
<1> SUFFICES ASSUME IInv, Unborn, [Next]_vars PROVE Unborn'
  OBVIOUS
<1>1. ASSUME NEW r \in Request, RoleRequest(r) PROVE Unborn'
  <2>1. ASSUME NEW i \in Role, NEW n \in Name, CreateRole(r, i, n) PROVE Unborn'
    BY <2>1, BeginUnborn DEF CreateRole, Existing
  <2>2. ASSUME NEW i \in Role, NEW p \in Permission,
               AddPermission(r, i, p) \/ RemovePermission(r, i, p)
        PROVE  Unborn'
    BY <2>2, BeginUnborn DEF AddPermission, RemovePermission
  <2>3. ASSUME NEW i \in Role, DeleteRole(r, i) PROVE Unborn'
    BY <2>3, BeginUnborn DEF DeleteRole
  <2> QED
    BY <1>1, <2>1, <2>2, <2>3 DEF RoleRequest
<1>2. ASSUME NEW r \in Request, UserRequest(r) PROVE Unborn'
  <2>1. ASSUME NEW u \in User, NEW i \in Role, AssignRole(r, u, i) \/ RevokeRole(r, u, i)
        PROVE  Unborn'
    BY <2>1, BeginUnborn DEF AssignRole, RevokeRole
  <2>2. ASSUME NEW u \in User, NEW a \in App,
               RegisterToApp(r, u, a) \/ UnregisterFromApp(r, u, a)
        PROVE  Unborn'
    BY <2>2, BeginUnborn DEF RegisterToApp, UnregisterFromApp
  <2>3. ASSUME NEW u \in User, NEW p \in Permission, Use(r, u, p) PROVE Unborn'
    BY <2>3, BeginUnborn DEF Use
  <2> QED
    BY <1>2, <2>1, <2>2, <2>3 DEF UserRequest
<1>3. ASSUME NEW r \in Request, NEW place, NEW seen, task[r] # None, Goto(r, place, seen),
             roles' = roles
      PROVE  Unborn'
  <2>1. /\ task'[r] # None => task'[r].op = task[r].op /\ task'[r].role = task[r].role
        /\ \A o \in Request \ {r} : task'[o] = task[o]
    BY <1>3 DEF Goto, IInv, TypeOK
  <2> QED
    BY <1>3, <2>1 DEF Unborn
<1>4. ASSUME NEW r \in Request, End(r), roles' = roles PROVE Unborn'
  BY <1>4 DEF End, Unborn, IInv, TypeOK
<1>5. ASSUME NEW r, NEW o, task' = Others(r, o), NEW q \in Request, task'[q] # None
      PROVE  /\ q # r /\ task[q] # None
             /\ task'[q].op = task[q].op /\ task'[q].role = task[q].role
  BY <1>5, OthersTask
<1>6. ASSUME NEW r \in Request, Commit(r) PROVE Unborn'
  <2>1. /\ task[r] # None /\ task[r].at = "commit" /\ Kind(task[r])
        /\ roles \in [Role -> Name \cup {None}]
        /\ task' = Others(r, task[r])
        /\ roles' = IF task[r].op = "create"
                    THEN [roles EXCEPT ![task[r].role] = task[r].key]
                    ELSE IF task[r].op = "delete" THEN [roles EXCEPT ![task[r].role] = None]
                    ELSE roles
    BY <1>6 DEF Commit, At, IInv, TypeOK, TasksInv
  <2>2. ASSUME NEW q \in Request, task'[q] # None, task'[q].op = "create"
        PROVE  /\ roles'[task'[q].role] = None
               /\ \A o \in Request \ {q} : task'[o] # None => task'[o].role # task'[q].role
    <3>1. /\ q # r /\ task[q] # None /\ task[q].op = "create"
          /\ task'[q].role = task[q].role
      BY <1>5, <2>1, <2>2
    <3>2. /\ roles[task[q].role] = None /\ task[q].role # task[r].role
          /\ \A o \in Request \ {q} : task[o] # None => task[o].role # task[q].role
      BY <2>1, <3>1 DEF Unborn
    <3>3. roles'[task[q].role] = None
      <4>1. task[q].role \in Role
        BY <3>1 DEF IInv, TasksInv, Kind
      <4> QED
        BY <2>1, <3>2, <4>1
    <3> QED
      BY <1>5, <2>1, <3>1, <3>2, <3>3
  <2> QED
    BY <2>2 DEF Unborn
<1>7. ASSUME NEW u \in User, DeleteUser(u) PROVE Unborn'
  <2>1. task' = Others(None, [op |-> "cleanup", user |-> u]) /\ roles' = roles
    BY <1>7 DEF DeleteUser
  <2> QED
    BY <1>5, <2>1 DEF Unborn
<1>8. CASE UNCHANGED vars
  BY <1>8 DEF vars, Unborn
<1> QED
  BY <1>1, <1>2, <1>3, <1>4, <1>6, <1>7, <1>8
     DEF Next, Advance, Insert, Delete, Act, Raise, Abort, At, data

LEMMA UnbornInvariance == Spec => []Unborn
<1>1. Init => Unborn
  BY DEF Init, Unborn
<1> QED
  BY <1>1, NextUnborn, Invariance, PTL DEF Spec

(* The pairs held change with the links of one pair, or of one role.       *)
LEMMA HoldersChange ==
    ASSUME IInv, NEW r \in Request, task[r] # None, task[r].at = "commit",
           held' = HeldAfter(task[r])
    PROVE  LET t == task[r]
               q == <<t.user, t.role>>
           IN /\ t.op = "assign" => Holders' = Holders \cup {q}
              /\ t.op = "revoke" => Holders' \in {Holders, Holders \ {q}}
              /\ t.op = "delete" => Holders' = {h \in Holders : h[2] # t.role}
              /\ t.op \notin {"assign", "revoke", "delete"} => Holders' = Holders
<1> DEFINE t == task[r]
           q == <<t.user, t.role>>
<1>1. /\ held \in [User -> [Role -> Nat]] /\ t \in Task /\ Kind(t)
      /\ held' \in [User -> [Role -> Nat]]
  BY HeldChanges DEF IInv, TypeOK, TasksInv
<1>2. /\ Holders \subseteq User \X Role /\ Holders' \subseteq User \X Role
      /\ \A u \in User, i \in Role : /\ <<u, i>> \in Holders <=> held[u][i] > 0
                                     /\ <<u, i>> \in Holders' <=> held'[u][i] > 0
  BY DEF Holders
<1>3. t.op = "assign" => Holders' = Holders \cup {q}
  <2> SUFFICES ASSUME t.op = "assign" PROVE Holders' = Holders \cup {q}
    OBVIOUS
  <2>1. t.user \in User /\ t.role \in Role
    BY <1>1 DEF Kind
  <2>2. held'[t.user][t.role] > 0
    <3>1. held[t.user][t.role] \in Nat
      BY <1>1, <2>1
    <3> QED
      BY <3>1, HeldChanges
  <2>3. \A u \in User, i \in Role : <<u, i>> # q => held'[u][i] = held[u][i]
    BY HeldChanges
  <2>4. \A u \in User, i \in Role :
          <<u, i>> \in Holders' <=> <<u, i>> \in Holders \/ <<u, i>> = q
    <3> SUFFICES ASSUME NEW u \in User, NEW i \in Role
                 PROVE  <<u, i>> \in Holders' <=> <<u, i>> \in Holders \/ <<u, i>> = q
      OBVIOUS
    <3> QED
      BY <1>2, <2>1, <2>2, <2>3
  <2> QED
    BY <1>2, <2>1, <2>4
<1>4. t.op = "revoke" => Holders' \in {Holders, Holders \ {q}}
  <2> SUFFICES ASSUME t.op = "revoke" PROVE Holders' \in {Holders, Holders \ {q}}
    OBVIOUS
  <2>1. t.user \in User /\ t.role \in Role
    BY <1>1 DEF Kind
  <2>2. \A u \in User, i \in Role : <<u, i>> # q =>
          (<<u, i>> \in Holders' <=> <<u, i>> \in Holders)
    BY <1>2, HeldChanges
  <2>3. q \in Holders' => q \in Holders
    <3>1. /\ held[t.user][t.role] \in Nat /\ t.seen \in Nat
          /\ held'[t.user][t.role] = held[t.user][t.role] - t.seen
      BY <1>1, <2>1, HeldChanges DEF Task
    <3> QED
      BY <1>2, <2>1, <3>1
  <2>4. CASE q \in Holders'
    BY <1>2, <2>2, <2>3, <2>4
  <2>5. CASE q \notin Holders'
    BY <1>2, <2>2, <2>5
  <2> QED
    BY <2>4, <2>5
<1>5. t.op = "delete" => Holders' = {h \in Holders : h[2] # t.role}
  <2> SUFFICES ASSUME t.op = "delete" PROVE Holders' = {h \in Holders : h[2] # t.role}
    OBVIOUS
  <2>0. \A u \in User, i \in Role :
          held'[u][i] = IF i = t.role THEN 0 ELSE held[u][i]
    BY HeldChanges
  <2>1. \A u \in User, i \in Role :
          <<u, i>> \in Holders' <=> <<u, i>> \in Holders /\ i # t.role
    <3> SUFFICES ASSUME NEW u \in User, NEW i \in Role
                 PROVE  <<u, i>> \in Holders' <=> <<u, i>> \in Holders /\ i # t.role
      OBVIOUS
    <3>1. CASE i = t.role
      BY <1>2, <2>0, <3>1
    <3>2. CASE i # t.role
      BY <1>2, <2>0, <3>2
    <3> QED
      BY <3>1, <3>2
  <2> QED
    BY <1>2, <2>1
<1>6. t.op \notin {"assign", "revoke", "delete"} => Holders' = Holders
  BY HeldChanges DEF Holders
<1> QED
  BY <1>3, <1>4, <1>5, <1>6

LEMMA CommitIsOperation ==
    ASSUME IInv, Unborn, NEW r \in Request, Commit(r)
    PROVE  [Book!Next]_(Book!bookVars)
<1> DEFINE t == task[r]
<1>1. /\ t # None /\ t.at = "commit" /\ t \in Task /\ Kind(t) /\ Possible(t)
      /\ held' = HeldAfter(t)
  BY DEF Commit, At, IInv, TypeOK, TasksInv
<1>2. /\ roles' = IF t.op = "create" THEN [roles EXCEPT ![t.role] = t.key]
                  ELSE IF t.op = "delete" THEN [roles EXCEPT ![t.role] = None]
                  ELSE roles
      /\ perms' = IF t.op = "grant" THEN perms \cup {<<t.role, t.key>>}
                  ELSE IF t.op = "delete" THEN {q \in perms : q[1] # t.role}
                  ELSE perms
      /\ members' = IF t.op = "register" THEN members \cup {<<t.user, t.key>>}
                    ELSE members
      /\ users' = users
  BY DEF Commit
<1>3. /\ t.op = "assign" => Holders' = Holders \cup {<<t.user, t.role>>}
      /\ t.op = "revoke" => Holders' \in {Holders, Holders \ {<<t.user, t.role>>}}
      /\ t.op = "delete" => Holders' = {h \in Holders : h[2] # t.role}
      /\ t.op \notin {"assign", "revoke", "delete"} => Holders' = Holders
  BY <1>1, HoldersChange
<1>4. Book!Existing = Existing
  BY DEF Book!Existing, Existing
<1>5. t.op \in {"create", "delete", "grant", "assign", "revoke", "register"}
  BY <1>1 DEF Kind, Task, Operation
<1> HIDE DEF t
<1>6. CASE t.op = "create"
  <2>1. t.role \in Role /\ t.key \in Name /\ \A j \in Role : roles[j] # t.key
    BY <1>1, <1>6 DEF Kind, Possible
  <2>2. roles[t.role] = None
    BY <1>1, <1>6 DEF Unborn, t
  <2>3. Book!Create(t.role, t.key)
    BY <1>2, <1>3, <1>4, <1>6, <2>1, <2>2 DEF Book!Create, Existing
  <2> QED
    BY <2>1, <2>3 DEF Book!Next
<1>7. CASE t.op = "delete"
  <2>1. t.role \in Role
    BY <1>1, <1>7 DEF Kind
  <2>2. CASE t.role \in Existing
    <3>1. Book!Delete(t.role)
      BY <1>2, <1>3, <1>4, <1>7, <2>2 DEF Book!Delete
    <3> QED
      BY <2>1, <3>1 DEF Book!Next
  <2>3. CASE t.role \notin Existing
    <3>1. roles[t.role] = None /\ roles \in [Role -> Name \cup {None}]
      BY <2>1, <2>3 DEF Existing, IInv, TypeOK
    <3>2. /\ \A q \in perms : q[1] # t.role
          /\ \A h \in Holders : h[2] # t.role
      BY <2>3 DEF Holders, IInv, LinksHaveEnds
    <3>3. roles' = roles /\ perms' = perms /\ Holders' = Holders
      BY <1>2, <1>3, <1>7, <3>1, <3>2
    <3> QED
      BY <1>2, <1>7, <3>3 DEF Book!bookVars
  <2> QED
    BY <2>2, <2>3
<1>8. CASE t.op = "grant"
  <2>1. t.role \in Existing /\ t.key \in Permission
    BY <1>1, <1>8 DEF Kind, Possible, Existing
  <2>2. Book!Grant(t.role, t.key)
    BY <1>2, <1>3, <1>4, <1>8, <2>1 DEF Book!Grant
  <2> QED
    BY <2>1, <2>2 DEF Book!Next, Existing
<1>9. CASE t.op = "assign"
  <2>1. t.role \in Existing /\ t.user \in users /\ t.user \in User
    BY <1>1, <1>9 DEF Kind, Possible, Existing
  <2>2. Book!Assign(t.user, t.role)
    BY <1>2, <1>3, <1>4, <1>9, <2>1 DEF Book!Assign
  <2> QED
    BY <2>1, <2>2 DEF Book!Next, Existing
<1>10. CASE t.op = "revoke"
  <2>1. t.role \in Role /\ t.user \in User
    BY <1>1, <1>10 DEF Kind
  <2>2. CASE Holders' = Holders
    BY <1>2, <1>10, <2>2 DEF Book!bookVars
  <2>3. CASE Holders' = Holders \ {<<t.user, t.role>>}
    <3>1. Book!Revoke(t.user, t.role)
      BY <1>2, <1>10, <2>3 DEF Book!Revoke
    <3> QED
      BY <2>1, <3>1 DEF Book!Next
  <2> QED
    BY <1>3, <1>10, <2>2, <2>3
<1>11. CASE t.op = "register"
  <2>1. t.user \in users /\ t.user \in User /\ t.key \in App
    BY <1>1, <1>11 DEF Kind, Possible
  <2>2. Book!Register(t.user, t.key)
    BY <1>2, <1>3, <1>11, <2>1 DEF Book!Register
  <2> QED
    BY <2>1, <2>2 DEF Book!Next
<1> QED
  BY <1>5, <1>6, <1>7, <1>8, <1>9, <1>10, <1>11

LEMMA DeleteUserIsRemoval ==
    ASSUME IInv, NEW u \in User, DeleteUser(u)
    PROVE  Book!Next
<1>1. /\ held \in [User -> [Role -> Nat]]
      /\ held' = [held EXCEPT ![u] = [i \in Role |-> 0]]
  BY DEF IInv, TypeOK, DeleteUser
<1>2. \A v \in User, i \in Role :
        <<v, i>> \in Holders' <=> <<v, i>> \in Holders /\ v # u
  BY <1>1 DEF Holders
<1>3. Holders \subseteq User \X Role /\ Holders' \subseteq User \X Role
  BY DEF Holders
<1>4. Holders' = {q \in Holders : q[1] # u}
  BY <1>2, <1>3
<1>5. Book!RemoveUser(u)
  BY <1>4 DEF DeleteUser, Book!RemoveUser
<1> QED
  BY <1>5 DEF Book!Next

THEOREM RolesAreABook == Spec => ImplementsRoleBook
<1>1. Init => Book!Init
  BY DEF Init, Book!Init, Holders
<1>2. IInv /\ Unborn /\ [Next]_vars => [Book!Next]_(Book!bookVars)
  <2> SUFFICES ASSUME IInv, Unborn, [Next]_vars PROVE [Book!Next]_(Book!bookVars)
    OBVIOUS
  <2>1. UNCHANGED data => UNCHANGED Book!bookVars
    BY DEF data, Book!bookVars, Holders
  <2>2. \A r \in Request : RoleRequest(r) \/ UserRequest(r) => UNCHANGED data
    BY DEF RoleRequest, UserRequest, Begin, CreateRole, DeleteRole, AddPermission,
       RemovePermission, AssignRole, RevokeRole, RegisterToApp, UnregisterFromApp, Use
  <2>3. \A r \in Request : Advance(r) => UNCHANGED data \/ Commit(r)
    BY DEF Advance, Insert, Delete, Act, Raise, Abort
  <2>4. UNCHANGED vars => UNCHANGED data
    BY DEF vars, data
  <2> QED
    BY <2>1, <2>2, <2>3, <2>4, CommitIsOperation, DeleteUserIsRemoval DEF Next
<1> QED
  BY <1>1, <1>2, Invariance, UnbornInvariance, PTL DEF Spec, ImplementsRoleBook, Book!Spec
=============================================================================
