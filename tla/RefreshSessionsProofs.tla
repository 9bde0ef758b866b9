------------------------- MODULE RefreshSessionsProofs -------------------------
(***************************************************************************)
(* The safety properties of RefreshSessions hold for any number of users,  *)
(* tokens and concurrent requests, and it implements TokenChains.          *)
(***************************************************************************)
EXTENDS RefreshSessions, TLAPS

(* The rows of the table are drawn tokens, and the marks are on rows.      *)
TableInv ==
    /\ \A t \in stored : row[t] # NoRow
    /\ revoked \subseteq stored
    /\ replaced \subseteq stored

(* What a request holds at each of its statements.                         *)
RequestInv ==
    \A r \in Request :
      /\ pc[r] \in {"login", "rotate", "insert"} => new[r] \in Token
      /\ new[r] \in Token => pc[r] \in {"login", "rotate", "insert", "commit"}
      /\ pc[r] \in {"rotate", "insert"} => row[new[r]].parent \in Token
      /\ pc[r] = "commit" /\ new[r] \in Token => row[new[r]].owner \in users
      /\ marked[r] \subseteq stored

(* A token drawn and not committed belongs to one request only.            *)
PendingInv ==
    \A r \in Request : new[r] \in Token =>
      /\ row[new[r]] # NoRow
      /\ new[r] \notin stored
      /\ \A o \in Request \ {r} : new[o] # new[r]

(* The parent of a drawn token was committed, is of the same family and    *)
(* user, and is gone only if the user is.                                  *)
LineageInv ==
    \A t, p \in Token : row[t] # NoRow /\ row[t].parent = p =>
      /\ row[p] # NoRow
      /\ \A r \in Request : new[r] # p
      /\ row[p].family = row[t].family
      /\ row[p].owner = row[t].owner
      /\ p \in stored \/ row[p].owner \notin users

IInv ==
    /\ TypeOK
    /\ TableInv
    /\ RequestInv
    /\ PendingInv
    /\ LineageInv
    /\ RotationIsAtomic
    /\ SessionsHaveUsers

-----------------------------------------------------------------------------
(* Type correctness, by the shape of each action.                          *)

(* A row drawn for a user and a family is a row of the table.              *)
LEMMA DrawType ==
    ASSUME TypeOK, NEW r \in Request, NEW n \in Token, NEW columns \in Row,
           Draw(r, n, columns)
    PROVE  /\ row' \in [Token -> Row \cup {NoRow}]
           /\ new' \in [Request -> Token \cup {NoToken}]
BY DEF TypeOK, Draw

(* A committed token has columns.                                          *)
LEMMA StoredHasRow ==
    ASSUME TypeOK, TableInv, NEW t \in stored
    PROVE  /\ t \in Token
           /\ row[t] \in Row
           /\ row[t].owner \in User
           /\ row[t].family \in Token
BY DEF TypeOK, TableInv, Row

(* A request about to commit a rotation still finds the parent's row: its  *)
(* owner exists, so no cascade has taken it.                               *)
LEMMA CommitReplaces ==
    ASSUME IInv, NEW r \in Request, pc[r] \in {"commit", "commit_all"}
    PROVE  /\ Replaces(r) \subseteq stored
           /\ Inserts(r) \subseteq Token
<1>1. Inserts(r) \subseteq Token
  BY DEF Inserts, IInv, TypeOK
<1>2. CASE /\ pc[r] = "commit"
           /\ new[r] # NoToken
           /\ row[new[r]].parent # NoToken
  <2>1. new[r] \in Token /\ row[new[r]] \in Row
    BY <1>2 DEF IInv, TypeOK, PendingInv
  <2>2. row[new[r]].parent \in Token /\ row[new[r]].owner \in users
    BY <1>2, <2>1 DEF IInv, RequestInv, Row
  <2>3. row[new[r]].parent \in stored
    BY <2>1, <2>2, NullsAreDistinct DEF IInv, LineageInv
  <2> QED
    BY <1>1, <1>2, <2>3 DEF Replaces
<1>3. CASE ~(/\ pc[r] = "commit"
             /\ new[r] # NoToken
             /\ row[new[r]].parent # NoToken)
  BY <1>1, <1>3 DEF Replaces
<1> QED
  BY <1>2, <1>3

(* Rolling back leaves the types and the table alone.                      *)
LEMMA RollbackType ==
    ASSUME TypeOK, NEW r \in Request, NEW s \in Statement, Rollback(r, s)
    PROVE  TypeOK'
BY DEF TypeOK, Rollback, Close, Goto, table

LEMMA InitTypeOK == Init => TypeOK
BY DEF Init, TypeOK, Statement

LEMMA NextTypeOK ==
    ASSUME IInv, [Next]_vars
    PROVE  TypeOK'
<1> USE DEF Statement
<1>0. TypeOK /\ TableInv
  BY DEF IInv
<1> USE <1>0
<1>1. ASSUME NEW r \in Request, NEW u \in User, LoginRead(r, u)
      PROVE  TypeOK'
  <2>1. PICK n \in Token :
          Draw(r, n, [owner |-> u, family |-> n, parent |-> NoToken])
    BY <1>1 DEF LoginRead
  <2>2. [owner |-> u, family |-> n, parent |-> NoToken] \in Row
    BY DEF Row
  <2>3. /\ row' \in [Token -> Row \cup {NoRow}]
        /\ new' \in [Request -> Token \cup {NoToken}]
    BY <2>1, <2>2, DrawType
  <2> QED
    BY <1>1, <2>3 DEF TypeOK, LoginRead, Goto, table
<1>2. ASSUME NEW r \in Request, NEW t \in Token, RefreshRead(r, t)
      PROVE  TypeOK'
  <2>1. PICK n \in Token :
          Draw(r, n, [owner |-> row[t].owner, family |-> row[t].family,
                      parent |-> t])
    BY <1>2 DEF RefreshRead
  <2>2. [owner |-> row[t].owner, family |-> row[t].family, parent |-> t] \in Row
    BY <1>2, StoredHasRow DEF RefreshRead, Presentable, Row
  <2>3. /\ row' \in [Token -> Row \cup {NoRow}]
        /\ new' \in [Request -> Token \cup {NoToken}]
    BY <2>1, <2>2, DrawType
  <2> QED
    BY <1>2, <2>3 DEF TypeOK, RefreshRead, Goto, table
<1>3. ASSUME NEW r \in Request, NEW t \in Token,
             ReuseRead(r, t) \/ LogoutRead(r, t)
      PROVE  TypeOK'
  BY <1>3 DEF TypeOK, ReuseRead, LogoutRead, Goto, table
<1>4. ASSUME NEW r \in Request, NEW u \in User, LogoutAllSelect(r, u)
      PROVE  TypeOK'
  BY <1>4 DEF TypeOK, LogoutAllSelect, Owned, Goto, table
<1>5. ASSUME NEW r \in Request, InsertToken(r) \/ Rotate(r) \/ AnswerReuse(r)
      PROVE  TypeOK'
  BY <1>5 DEF TypeOK, InsertToken, Rotate, AnswerReuse, Goto, table
<1>6. ASSUME NEW r \in Request, ReuseSelect(r)
      PROVE  TypeOK'
  <2>1. PICK t \in targets[r] :
          targets' = [targets EXCEPT ![r] = Family(row[t].family) \ revoked]
    BY <1>6 DEF ReuseSelect
  <2>2. Family(row[t].family) \ revoked \in SUBSET Token
    BY DEF Family, TypeOK
  <2> QED
    BY <1>6, <2>1, <2>2 DEF TypeOK, ReuseSelect, Goto, table
<1>7. ASSUME NEW r \in Request, UpdateRevoked(r)
      PROVE  TypeOK'
  <2>1. Found(r) \in SUBSET Token
    BY DEF Found, TypeOK
  <2> QED
    BY <1>7, <2>1 DEF TypeOK, UpdateRevoked, AfterUpdate, Goto, table
<1>8. ASSUME NEW r \in Request,
             ForeignKeyError(r) \/ RaiseReuse(r) \/ Abort(r)
      PROVE  TypeOK'
  BY <1>8, RollbackType DEF ForeignKeyError, RaiseReuse, Abort
<1>9. ASSUME NEW r \in Request, Commit(r)
      PROVE  TypeOK'
  <2>1. Inserts(r) \subseteq Token
    BY DEF Inserts, TypeOK
  <2>2. Replaces(r) \subseteq Token
    BY <1>9, CommitReplaces DEF TypeOK, Commit
  <2> QED
    BY <1>9, <2>1, <2>2 DEF TypeOK, Commit, Close, Goto
<1>10. ASSUME NEW t \in Token, Expire(t)
       PROVE  TypeOK'
  BY <1>10 DEF TypeOK, Expire
<1>11. ASSUME NEW u \in User, HardDelete(u)
       PROVE  TypeOK'
  BY <1>11 DEF TypeOK, HardDelete
<1>12. CASE UNCHANGED vars
  BY <1>12 DEF TypeOK, vars
<1> QED
  BY <1>1, <1>2, <1>3, <1>4, <1>5, <1>6, <1>7, <1>8, <1>9, <1>10, <1>11, <1>12
     DEF Next, Receive, Advance, Environment

-----------------------------------------------------------------------------
(* Drawing a token: a login or a refresh that begins.                      *)

LEMMA DrawInv ==
    ASSUME IInv, TypeOK',
           NEW r \in Request, NEW n \in Token, NEW columns \in Row,
           NEW s \in {"login", "rotate"},
           pc[r] = "idle",
           Draw(r, n, columns), Goto(r, s), UNCHANGED <<table, targets, marked>>,
           s = "login" => columns.parent = NoToken,
           s = "rotate" => /\ columns.parent \in stored
                           /\ columns.family = row[columns.parent].family
                           /\ columns.owner = row[columns.parent].owner
    PROVE  IInv'
<1> USE DEF IInv
<1>1. new[r] = NoToken
  BY DEF TypeOK, RequestInv
<1>2. /\ row[n] = NoRow
      /\ row'[n] = columns
      /\ \A t \in Token \ {n} : row'[t] = row[t]
      /\ new'[r] = n
      /\ \A o \in Request \ {r} : new'[o] = new[o]
      /\ pc'[r] = s
      /\ \A o \in Request \ {r} : pc'[o] = pc[o]
  BY DEF Draw, Goto, TypeOK
<1>3. UNCHANGED <<users, stored, revoked, replaced, marked>>
  BY DEF table
<1>4. /\ n \notin stored
      /\ \A o \in Request : new[o] # n
      /\ \A t \in Token : row[t] # NoRow => row[t].parent # n
  BY <1>2 DEF TypeOK, TableInv, PendingInv, LineageInv
<1>5. columns # NoRow
  BY NullsAreDistinct
<1>6. TableInv'
  BY <1>2, <1>3, <1>5 DEF TableInv, TypeOK
<1>7. RequestInv'
  <2> SUFFICES ASSUME NEW o \in Request PROVE RequestInv!(o)'
    BY DEF RequestInv
  <2>1. CASE o = r
    BY <1>1, <1>2, <1>3, <2>1, NullsAreDistinct DEF RequestInv, TypeOK, Row
  <2>2. CASE o # r
    <3>1. new'[o] = new[o] /\ pc'[o] = pc[o]
      BY <1>2, <2>2
    <3>2. new[o] \in Token => row'[new[o]] = row[new[o]]
      BY <1>2, <1>4
    <3> QED
      BY <1>3, <3>1, <3>2 DEF RequestInv
  <2> QED
    BY <2>1, <2>2
<1>8. PendingInv'
  BY <1>1, <1>2, <1>3, <1>4, <1>5, NullsAreDistinct DEF PendingInv, TypeOK
<1>9. LineageInv'
  <2> SUFFICES ASSUME NEW t \in Token, NEW p \in Token,
                      row'[t] # NoRow, row'[t].parent = p
               PROVE  LineageInv!(t, p)!2'
    BY DEF LineageInv
  <2>1. CASE t = n
    <3>1. s = "rotate" /\ p \in stored /\ p # n
      BY <1>2, <1>4, <2>1, NullsAreDistinct
    <3> QED
      BY <1>2, <1>3, <2>1, <3>1 DEF TableInv, PendingInv, TypeOK
  <2>2. CASE t # n
    <3>1. row'[t] = row[t] /\ p # n /\ row'[p] = row[p]
      BY <1>2, <1>4, <2>2
    <3> QED
      BY <1>2, <1>3, <3>1 DEF LineageInv
  <2> QED
    BY <2>1, <2>2
<1>10. \A t \in stored : row'[t] = row[t]
  BY <1>2, <1>4 DEF TypeOK
<1>11. RotationIsAtomic'
  <2>1. \A t \in Token : Children(t)' = Children(t)
    BY <1>3, <1>10 DEF Children
  <2> QED
    BY <1>3, <1>10, <2>1 DEF RotationIsAtomic, TypeOK
<1>12. SessionsHaveUsers'
  BY <1>3, <1>10 DEF SessionsHaveUsers
<1> QED
  BY <1>6, <1>7, <1>8, <1>9, <1>11, <1>12

-----------------------------------------------------------------------------
(* Steps inside a transaction: only the requests' own state changes.       *)

LEMMA QuietInv ==
    ASSUME IInv, TypeOK', RequestInv',
           UNCHANGED <<users, stored, row, revoked, replaced, new>>
    PROVE  IInv'
BY DEF IInv, TableInv, PendingInv, LineageInv, RotationIsAtomic, Children,
       SessionsHaveUsers

LEMMA StatementInv ==
    ASSUME IInv, TypeOK', NEW r \in Request,
           \/ InsertToken(r) \/ Rotate(r) \/ AnswerReuse(r)
           \/ ReuseSelect(r) \/ UpdateRevoked(r)
           \/ \E u \in User : LogoutAllSelect(r, u)
           \/ \E t \in Token : ReuseRead(r, t) \/ LogoutRead(r, t)
    PROVE  IInv'
<1> USE DEF IInv
<1>1. UNCHANGED <<users, stored, row, revoked, replaced, new>>
  BY DEF InsertToken, Rotate, AnswerReuse, ReuseSelect, UpdateRevoked,
         LogoutAllSelect, ReuseRead, LogoutRead, table
<1>2. \A o \in Request \ {r} : pc'[o] = pc[o] /\ marked'[o] = marked[o]
  BY DEF InsertToken, Rotate, AnswerReuse, ReuseSelect, UpdateRevoked,
         LogoutAllSelect, ReuseRead, LogoutRead, Goto, TypeOK
<1>3. marked'[r] \subseteq stored
  <2>1. CASE UpdateRevoked(r)
    BY <2>1 DEF UpdateRevoked, Found, TypeOK
  <2>2. CASE ~UpdateRevoked(r)
    BY <2>2 DEF InsertToken, Rotate, AnswerReuse, ReuseSelect,
                LogoutAllSelect, ReuseRead, LogoutRead, RequestInv
  <2> QED
    BY <2>1, <2>2
<1>4. \/ /\ pc[r] \in {"login", "insert"} /\ pc'[r] = "commit"
         /\ row[new[r]].owner \in users
      \/ pc[r] = "rotate" /\ pc'[r] = "insert"
      \/ /\ pc[r] \notin {"login", "rotate", "insert", "commit"}
         /\ pc'[r] \notin {"login", "rotate", "insert"}
  BY DEF InsertToken, Rotate, AnswerReuse, ReuseSelect, UpdateRevoked,
         AfterUpdate, LogoutAllSelect, ReuseRead, LogoutRead, Goto, TypeOK,
         OwnerExists
<1>5. RequestInv'
  <2> SUFFICES ASSUME NEW o \in Request PROVE RequestInv!(o)'
    BY DEF RequestInv
  <2>1. CASE o = r
    BY <1>1, <1>3, <1>4, <2>1 DEF RequestInv
  <2>2. CASE o # r
    BY <1>1, <1>2, <2>2 DEF RequestInv
  <2> QED
    BY <2>1, <2>2
<1> QED
  BY <1>1, <1>5, QuietInv

-----------------------------------------------------------------------------
(* The end of a transaction: rollback.                                     *)

LEMMA RollbackInv ==
    ASSUME IInv, TypeOK', NEW r \in Request,
           NEW s \in {"idle", "reuse_reported"}, Rollback(r, s)
    PROVE  IInv'
<1> USE DEF IInv
<1>1. UNCHANGED <<users, stored, revoked, replaced>>
  BY DEF Rollback, table
<1>2. /\ pc'[r] = s /\ new'[r] = NoToken /\ marked'[r] = {}
      /\ \A o \in Request \ {r} : /\ pc'[o] = pc[o]
                                  /\ new'[o] = new[o]
                                  /\ marked'[o] = marked[o]
  BY DEF Rollback, Close, Goto, TypeOK
<1>3. \A t \in Token : row'[t] = IF t = new[r] THEN NoRow ELSE row[t]
  BY DEF Rollback
<1>4. \A t \in stored : row'[t] = row[t]
  BY <1>3 DEF PendingInv, TypeOK
<1>5. \A o \in Request \ {r} : new[o] \in Token => row'[new[o]] = row[new[o]]
  BY <1>3 DEF PendingInv
<1>6. TableInv'
  BY <1>1, <1>4 DEF TableInv
<1>7. RequestInv'
  <2> SUFFICES ASSUME NEW o \in Request PROVE RequestInv!(o)'
    BY DEF RequestInv
  <2>1. CASE o = r
    BY <1>1, <1>2, <2>1, NullsAreDistinct
  <2>2. CASE o # r
    BY <1>1, <1>2, <1>5, <2>2 DEF RequestInv
  <2> QED
    BY <2>1, <2>2
<1>8. PendingInv'
  BY <1>1, <1>2, <1>5, NullsAreDistinct DEF PendingInv, TypeOK
<1>9. LineageInv'
  BY <1>1, <1>2, <1>3, NullsAreDistinct DEF LineageInv, TypeOK
<1>10. RotationIsAtomic'
  <2>1. \A t \in Token : Children(t)' = Children(t)
    BY <1>1, <1>4 DEF Children
  <2> QED
    BY <1>1, <1>4, <2>1 DEF RotationIsAtomic, TypeOK
<1>11. SessionsHaveUsers'
  BY <1>1, <1>4 DEF SessionsHaveUsers
<1> QED
  BY <1>6, <1>7, <1>8, <1>9, <1>10, <1>11

-----------------------------------------------------------------------------
(* The end of a transaction: commit.                                       *)

LEMMA CommitInv ==
    ASSUME IInv, TypeOK', NEW r \in Request, Commit(r)
    PROVE  IInv'
<1> USE DEF IInv
<1>1. UNCHANGED <<users, row>>
  BY DEF Commit
<1>2. /\ pc'[r] = "idle" /\ new'[r] = NoToken /\ marked'[r] = {}
      /\ \A o \in Request \ {r} : /\ pc'[o] = pc[o]
                                  /\ new'[o] = new[o]
                                  /\ marked'[o] = marked[o]
  BY DEF Commit, Close, Goto, TypeOK
<1>3. /\ stored' = stored \cup Inserts(r)
      /\ replaced' = replaced \cup Replaces(r)
      /\ revoked' = revoked \cup marked[r]
  BY DEF Commit
<1>4. Replaces(r) \subseteq stored /\ marked[r] \subseteq stored
  BY CommitReplaces DEF Commit, RequestInv
<1>5. \A c \in Inserts(r) :
        /\ c = new[r] /\ c \in Token /\ row[c] # NoRow
        /\ row[c].owner \in users
  BY DEF Inserts, PendingInv, RequestInv, TypeOK
<1>6. TableInv'
  BY <1>1, <1>3, <1>4, <1>5 DEF TableInv
<1>7. RequestInv'
  <2> SUFFICES ASSUME NEW o \in Request PROVE RequestInv!(o)'
    BY DEF RequestInv
  <2>1. CASE o = r
    BY <1>1, <1>2, <2>1, NullsAreDistinct
  <2>2. CASE o # r
    BY <1>1, <1>2, <1>3, <2>2 DEF RequestInv
  <2> QED
    BY <2>1, <2>2
<1>8. PendingInv'
  BY <1>1, <1>2, <1>3, <1>5, NullsAreDistinct DEF PendingInv, TypeOK
<1>9. LineageInv'
  BY <1>1, <1>2, <1>3, NullsAreDistinct DEF LineageInv, TypeOK
<1>10. RotationIsAtomic'
  <2>1. ASSUME NEW t \in stored', NEW p \in Token, row'[t].parent = p
        PROVE  /\ p \in stored' \cap replaced'
               /\ row'[p].family = row'[t].family
               /\ row'[p].owner = row'[t].owner
    <3>1. CASE t \in stored
      BY <1>1, <1>3, <2>1, <3>1 DEF RotationIsAtomic
    <3>2. CASE t \in Inserts(r)
      <4>1. Replaces(r) = {p}
        BY <1>1, <2>1, <3>2, NullsAreDistinct DEF Inserts, Replaces
      <4> QED
        BY <1>1, <1>3, <1>4, <1>5, <2>1, <3>2, <4>1 DEF LineageInv
    <3> QED
      BY <1>3, <3>1, <3>2
  <2>2. ASSUME NEW t \in stored' \cap replaced'
        PROVE  Children(t)' # {}
    <3>1. CASE t \in Replaces(r)
      <4>1. pc[r] = "commit" /\ new[r] # NoToken /\ row[new[r]].parent = t
        BY <3>1 DEF Replaces, Commit
      <4>2. new[r] \in Children(t)'
        BY <1>1, <1>3, <4>1 DEF Children, Inserts
      <4> QED
        BY <4>2
    <3>2. CASE t \notin Replaces(r)
      <4>1. t \in stored \cap replaced
        BY <1>3, <2>2, <3>2 DEF TableInv
      <4>2. Children(t) # {} /\ Children(t) \subseteq Children(t)'
        BY <1>1, <1>3, <4>1 DEF RotationIsAtomic, Children
      <4> QED
        BY <4>2
    <3> QED
      BY <3>1, <3>2
  <2> QED
    BY <2>1, <2>2 DEF RotationIsAtomic
<1>11. SessionsHaveUsers'
  BY <1>1, <1>3, <1>5 DEF SessionsHaveUsers
<1> QED
  BY <1>6, <1>7, <1>8, <1>9, <1>10, <1>11

-----------------------------------------------------------------------------
(* The cleanup loop deletes a user.                                        *)

LEMMA HardDeleteInv ==
    ASSUME IInv, TypeOK', NEW u \in User, HardDelete(u)
    PROVE  IInv'
<1> USE DEF IInv
<1>1. UNCHANGED <<row, pc, new, marked>>
  BY DEF HardDelete
<1>2. /\ users' = users \ {u}
      /\ stored' = {t \in stored : row[t].owner # u}
      /\ revoked' = {t \in revoked : row[t].owner # u}
      /\ replaced' = {t \in replaced : row[t].owner # u}
  BY DEF HardDelete, Owned, TableInv
<1>3. TableInv'
  BY <1>1, <1>2 DEF TableInv
<1>4. RequestInv'
  <2> SUFFICES ASSUME NEW o \in Request PROVE RequestInv!(o)'
    BY DEF RequestInv
  <2>1. \A t \in marked[o] \cup Inserts(o) : row[t].owner # u
    BY DEF HardDelete, Locks
  <2>2. marked[o] \subseteq stored'
    BY <1>2, <2>1 DEF RequestInv
  <2>3. pc[o] = "commit" /\ new[o] \in Token => row[new[o]].owner \in users'
    BY <1>2, <2>1, NullsAreDistinct DEF Inserts, RequestInv
  <2> QED
    BY <1>1, <2>2, <2>3 DEF RequestInv
<1>5. PendingInv'
  BY <1>1, <1>2 DEF PendingInv
<1>6. LineageInv'
  BY <1>1, <1>2 DEF LineageInv
<1>7. RotationIsAtomic'
  BY <1>1, <1>2 DEF RotationIsAtomic, Children, TableInv, TypeOK
<1>8. SessionsHaveUsers'
  BY <1>1, <1>2 DEF SessionsHaveUsers
<1> QED
  BY <1>3, <1>4, <1>5, <1>6, <1>7, <1>8

-----------------------------------------------------------------------------
LEMMA InitIInv == Init => IInv
BY InitTypeOK, NullsAreDistinct
   DEF Init, IInv, TableInv, RequestInv, PendingInv, LineageInv,
       RotationIsAtomic, SessionsHaveUsers

LEMMA NextIInv == IInv /\ [Next]_vars => IInv'
<1> SUFFICES ASSUME IInv, [Next]_vars PROVE IInv'
  OBVIOUS
<1>0. TypeOK'
  BY NextTypeOK
<1> USE <1>0
<1>1. ASSUME NEW r \in Request, NEW u \in User, LoginRead(r, u)
      PROVE  IInv'
  <2>1. PICK n \in Token :
          Draw(r, n, [owner |-> u, family |-> n, parent |-> NoToken])
    BY <1>1 DEF LoginRead
  <2>2. [owner |-> u, family |-> n, parent |-> NoToken] \in Row
    BY DEF Row
  <2> QED
    BY <1>1, <2>1, <2>2, DrawInv DEF LoginRead
<1>2. ASSUME NEW r \in Request, NEW t \in Token, RefreshRead(r, t)
      PROVE  IInv'
  <2>1. PICK n \in Token :
          Draw(r, n, [owner |-> row[t].owner, family |-> row[t].family,
                      parent |-> t])
    BY <1>2 DEF RefreshRead
  <2>2. t \in stored
    BY <1>2 DEF RefreshRead, Presentable
  <2>3. [owner |-> row[t].owner, family |-> row[t].family, parent |-> t] \in Row
    BY <2>2, StoredHasRow DEF Row, IInv
  <2> QED
    BY <1>2, <2>1, <2>2, <2>3, DrawInv DEF RefreshRead
<1>3. ASSUME NEW r \in Request,
             \/ InsertToken(r) \/ Rotate(r) \/ AnswerReuse(r)
             \/ ReuseSelect(r) \/ UpdateRevoked(r)
             \/ \E u \in User : LogoutAllSelect(r, u)
             \/ \E t \in Token : ReuseRead(r, t) \/ LogoutRead(r, t)
      PROVE  IInv'
  BY <1>3, StatementInv
<1>4. ASSUME NEW r \in Request,
             ForeignKeyError(r) \/ RaiseReuse(r) \/ Abort(r)
      PROVE  IInv'
  BY <1>4, RollbackInv DEF ForeignKeyError, RaiseReuse, Abort
<1>5. ASSUME NEW r \in Request, Commit(r)
      PROVE  IInv'
  BY <1>5, CommitInv
<1>6. ASSUME NEW t \in Token, Expire(t)
      PROVE  IInv'
  <2>1. UNCHANGED <<users, stored, row, revoked, replaced, pc, new, marked>>
    BY <1>6 DEF Expire
  <2>2. RequestInv'
    BY <2>1 DEF RequestInv, IInv
  <2> QED
    BY <2>1, <2>2, QuietInv
<1>7. ASSUME NEW u \in User, HardDelete(u)
      PROVE  IInv'
  BY <1>7, HardDeleteInv
<1>8. CASE UNCHANGED vars
  <2>1. RequestInv'
    BY <1>8 DEF RequestInv, IInv, vars
  <2> QED
    BY <1>8, <2>1, QuietInv DEF vars
<1> QED
  BY <1>1, <1>2, <1>3, <1>4, <1>5, <1>6, <1>7, <1>8
     DEF Next, Receive, Advance, Environment

(* The inductive invariant holds in every state of every behaviour.        *)
THEOREM Invariance == Spec => []IInv
BY InitIInv, NextIInv, PTL DEF Spec

(* Every variable keeps its type, for any users, tokens and requests.      *)
THEOREM TypeCorrect == Spec => []TypeOK
BY Invariance, PTL DEF IInv

(* Rotation is all or nothing whatever requests overlap, abort or crash.   *)
THEOREM AtomicRotation == Spec => []RotationIsAtomic
BY Invariance, PTL DEF IInv

(* No committed token is ever without its user.                            *)
THEOREM NoOrphanSessions == Spec => []SessionsHaveUsers
BY Invariance, PTL DEF IInv

-----------------------------------------------------------------------------
(* Action properties.  What one step does to the committed tokens, the     *)
(* drawn tokens and the rows, in the four ways a step can do it.           *)

Same(t) == row'[t] = row[t]

Draws(r, n) ==
    /\ row[n] = NoRow /\ row'[n] # NoRow
    /\ new[r] = NoToken /\ new'[r] = n
    /\ \A t \in Token \ {n} : Same(t)
    /\ \A o \in Request \ {r} : new'[o] = new[o]
    /\ \A t \in stored : Same(t)
    /\ UNCHANGED table

Closes(r) ==
    /\ new'[r] = NoToken
    /\ \A o \in Request \ {r} : new'[o] = new[o]
    /\ \A t \in Token : t # new[r] => Same(t)
    /\ \A t \in stored : Same(t)
    /\ UNCHANGED <<users, expired>>

LEMMA LoginStep ==
    ASSUME IInv, NEW r \in Request, NEW u \in User, LoginRead(r, u)
    PROVE  \E n \in Token : /\ Draws(r, n)
                            /\ row'[n].family = n
                            /\ row'[n].parent = NoToken
<1> USE DEF IInv
<1>1. PICK n \in Token :
        Draw(r, n, [owner |-> u, family |-> n, parent |-> NoToken])
  BY DEF LoginRead
<1>2. [owner |-> u, family |-> n, parent |-> NoToken] # NoRow
  BY NullsAreDistinct DEF Row
<1>3. new[r] = NoToken
  BY DEF LoginRead, TypeOK, RequestInv
<1>4. Draws(r, n)
  BY <1>1, <1>2, <1>3 DEF Draws, Same, Draw, LoginRead, TypeOK, TableInv
<1> QED
  BY <1>1, <1>4 DEF Draw, TypeOK

LEMMA RefreshStep ==
    ASSUME IInv, NEW r \in Request, NEW p \in Token, RefreshRead(r, p)
    PROVE  \E n \in Token : /\ Draws(r, n)
                            /\ row'[n].family = row[p].family
                            /\ row'[n].owner = row[p].owner
                            /\ row'[n].parent = p
<1> USE DEF IInv
<1>1. PICK n \in Token :
        Draw(r, n, [owner |-> row[p].owner, family |-> row[p].family,
                    parent |-> p])
  BY DEF RefreshRead
<1>2. [owner |-> row[p].owner, family |-> row[p].family, parent |-> p] # NoRow
  BY StoredHasRow, NullsAreDistinct DEF Row, RefreshRead, Presentable
<1>3. new[r] = NoToken
  BY DEF RefreshRead, TypeOK, RequestInv
<1>4. Draws(r, n)
  BY <1>1, <1>2, <1>3 DEF Draws, Same, Draw, RefreshRead, TypeOK, TableInv
<1> QED
  BY <1>1, <1>4 DEF Draw, TypeOK

LEMMA RollbackStep ==
    ASSUME IInv, NEW r \in Request,
           ForeignKeyError(r) \/ RaiseReuse(r) \/ Abort(r)
    PROVE  Closes(r) /\ UNCHANGED table
BY DEF ForeignKeyError, RaiseReuse, Abort, Rollback, Close, Closes, Same, table,
       IInv, TypeOK, PendingInv

LEMMA CommitStep ==
    ASSUME IInv, NEW r \in Request, Commit(r)
    PROVE  /\ Closes(r)
           /\ UNCHANGED row
           /\ stored' = stored \cup Inserts(r)
           /\ Inserts(r) \subseteq {new[r]} \cap Token
           /\ revoked \subseteq revoked' /\ replaced \subseteq replaced'
BY DEF Commit, Close, Closes, Same, IInv, TypeOK, Inserts

(* A step either draws a token, ends a transaction, deletes a user, or     *)
(* leaves the rows, the drawn tokens and all but the clock alone.          *)
LEMMA StepKinds ==
    ASSUME IInv, [Next]_vars
    PROVE  \/ \E r \in Request, u \in User : LoginRead(r, u)
           \/ \E r \in Request, t \in Token : RefreshRead(r, t)
           \/ \E r \in Request :
                ForeignKeyError(r) \/ RaiseReuse(r) \/ Abort(r) \/ Commit(r)
           \/ \E u \in User : HardDelete(u)
           \/ /\ UNCHANGED <<users, stored, row, new, revoked, replaced>>
              /\ expired \subseteq expired'
<1>1. CASE UNCHANGED vars
  BY <1>1 DEF vars
<1>2. ASSUME NEW t \in Token, Expire(t)
      PROVE  /\ UNCHANGED <<users, stored, row, new, revoked, replaced>>
             /\ expired \subseteq expired'
  BY <1>2 DEF Expire
<1>3. ASSUME NEW r \in Request,
             \/ InsertToken(r) \/ Rotate(r) \/ AnswerReuse(r)
             \/ ReuseSelect(r) \/ UpdateRevoked(r)
             \/ \E u \in User : LogoutAllSelect(r, u)
             \/ \E t \in Token : ReuseRead(r, t) \/ LogoutRead(r, t)
      PROVE  /\ UNCHANGED <<users, stored, row, new, revoked, replaced>>
             /\ expired \subseteq expired'
  BY <1>3 DEF InsertToken, Rotate, AnswerReuse, ReuseSelect, UpdateRevoked,
              LogoutAllSelect, ReuseRead, LogoutRead, table
<1> QED
  BY <1>1, <1>2, <1>3 DEF Next, Receive, Advance, Environment

-----------------------------------------------------------------------------
LEMMA DeadFamilyStep ==
    ASSUME IInv, [Next]_vars, NEW f \in Token, DeadFamily(f)
    PROVE  DeadFamily(f)'
<1> USE DEF DeadFamily, Growing
<1>0. /\ row[f] # NoRow /\ row[f].family = f
      /\ \A r \in Request : new[r] # NoToken => new[r] # f /\ row[new[r]].family # f
      /\ \A t \in stored : row[t].family = f => t \in revoked
      /\ stored \subseteq Token /\ new \in [Request -> Token \cup {NoToken}]
      /\ \A r \in Request : new[r] \in Token => row[new[r]] # NoRow
  BY DEF Family, IInv, TypeOK, PendingInv
<1> SUFFICES /\ Same(f)
             /\ \A r \in Request : new'[r] # NoToken => row'[new'[r]].family # f
             /\ \A t \in stored' : row'[t].family = f => t \in revoked'
  BY <1>0 DEF Family, Same
<1>1. ASSUME NEW r \in Request, NEW n \in Token, Draws(r, n), row'[n].family # f
      PROVE  /\ Same(f)
             /\ \A o \in Request : new'[o] # NoToken => row'[new'[o]].family # f
             /\ \A t \in stored' : row'[t].family = f => t \in revoked'
  BY <1>0, <1>1 DEF Draws, Same, table
<1>2. CASE \E r \in Request, u \in User : LoginRead(r, u)
  <2>1. PICK r \in Request, n \in Token : Draws(r, n) /\ row'[n].family = n
    BY <1>2, LoginStep
  <2>2. n # f
    BY <1>0, <2>1 DEF Draws
  <2> QED
    BY <1>1, <2>1, <2>2
<1>3. CASE \E r \in Request, t \in Token : RefreshRead(r, t)
  <2>1. PICK r \in Request, p \in Token : RefreshRead(r, p)
    BY <1>3
  <2>2. PICK n \in Token : Draws(r, n) /\ row'[n].family = row[p].family
    BY <2>1, RefreshStep
  <2>3. row[p].family # f
    BY <1>0, <2>1 DEF RefreshRead, Presentable
  <2> QED
    BY <1>1, <2>2, <2>3
<1>4. ASSUME NEW r \in Request,
             ForeignKeyError(r) \/ RaiseReuse(r) \/ Abort(r)
      PROVE  /\ Same(f)
             /\ \A o \in Request : new'[o] # NoToken => row'[new'[o]].family # f
             /\ \A t \in stored' : row'[t].family = f => t \in revoked'
  <2>1. Closes(r) /\ UNCHANGED <<stored, revoked>>
    BY <1>4, RollbackStep DEF table
  <2>2. \A o \in Request \ {r} : new[o] \in Token => Same(new[o])
    BY <2>1 DEF Closes, IInv, PendingInv
  <2> QED
    BY <1>0, <2>1, <2>2, NullsAreDistinct DEF Closes, Same
<1>5. ASSUME NEW r \in Request, Commit(r)
      PROVE  /\ Same(f)
             /\ \A o \in Request : new'[o] # NoToken => row'[new'[o]].family # f
             /\ \A t \in stored' : row'[t].family = f => t \in revoked'
  BY <1>0, <1>5, CommitStep, NullsAreDistinct DEF Closes, Same
<1>6. ASSUME NEW u \in User, HardDelete(u)
      PROVE  /\ Same(f)
             /\ \A o \in Request : new'[o] # NoToken => row'[new'[o]].family # f
             /\ \A t \in stored' : row'[t].family = f => t \in revoked'
  BY <1>0, <1>6 DEF HardDelete, Same
<1>7. CASE UNCHANGED <<stored, row, new, revoked>>
  BY <1>0, <1>7 DEF Same
<1> QED
  BY <1>2, <1>3, <1>4, <1>5, <1>6, <1>7, StepKinds

(* A revoked family gets no working token again, for any number of         *)
(* concurrent requests.                                                    *)
THEOREM DeadFamiliesStayDead == Spec => DeadFamilyStaysDead
<1>1. IInv /\ [Next]_vars =>
        [\A f \in Token : DeadFamily(f) => DeadFamily(f)']_vars
  BY DeadFamilyStep
<1> QED
  BY <1>1, Invariance, PTL DEF Spec, DeadFamilyStaysDead

-----------------------------------------------------------------------------
LEMMA SpentStep ==
    ASSUME IInv, [Next]_vars, NEW t \in Token, Spent(t)
    PROVE  Spent(t)' /\ Children(t)' \subseteq Children(t)
<1> USE DEF Spent, Rotating
<1>0. /\ row[t] # NoRow
      /\ t \in stored => t \in replaced \cup revoked \cup expired
      /\ \A r \in Request : new[r] # t
      /\ \A r \in Request : new[r] # NoToken => row[new[r]].parent # t
      /\ stored \subseteq Token /\ new \in [Request -> Token \cup {NoToken}]
      /\ \A r \in Request : new[r] \in Token => row[new[r]] # NoRow
  BY DEF IInv, TypeOK, PendingInv
<1> DEFINE Goal ==
      /\ Same(t)
      /\ t \in stored' => t \in replaced' \cup revoked' \cup expired'
      /\ \A r \in Request : new'[r] # t
      /\ \A r \in Request : new'[r] # NoToken => row'[new'[r]].parent # t
      /\ Children(t)' \subseteq Children(t)
<1> SUFFICES Goal
  BY <1>0 DEF Same
<1>1. ASSUME NEW r \in Request, NEW n \in Token, Draws(r, n), row'[n].parent # t
      PROVE  Goal
  <2>1. n # t
    BY <1>0, <1>1 DEF Draws
  <2>2. Children(t)' \subseteq Children(t)
    BY <1>1 DEF Draws, Same, table, Children
  <2> QED
    BY <1>0, <1>1, <2>1, <2>2 DEF Draws, Same, table
<1>2. CASE \E r \in Request, u \in User : LoginRead(r, u)
  <2>1. PICK r \in Request, n \in Token : Draws(r, n) /\ row'[n].parent = NoToken
    BY <1>2, LoginStep
  <2> QED
    BY <1>1, <2>1, NullsAreDistinct
<1>3. CASE \E r \in Request, p \in Token : RefreshRead(r, p)
  <2>1. PICK r \in Request, p \in Token : RefreshRead(r, p)
    BY <1>3
  <2>2. PICK n \in Token : Draws(r, n) /\ row'[n].parent = p
    BY <2>1, RefreshStep
  <2>3. p # t
    BY <1>0, <2>1 DEF RefreshRead, Presentable
  <2> QED
    BY <1>1, <2>2, <2>3
<1>4. ASSUME NEW r \in Request,
             ForeignKeyError(r) \/ RaiseReuse(r) \/ Abort(r)
      PROVE  Goal
  <2>1. Closes(r) /\ UNCHANGED table
    BY <1>4, RollbackStep
  <2>2. \A o \in Request \ {r} : new[o] \in Token => Same(new[o])
    BY <2>1 DEF Closes, IInv, PendingInv
  <2>3. Children(t)' = Children(t)
    BY <2>1 DEF Closes, Same, table, Children
  <2> QED
    BY <1>0, <2>1, <2>2, <2>3, NullsAreDistinct DEF Closes, Same, table
<1>5. ASSUME NEW r \in Request, Commit(r)
      PROVE  Goal
  <2>1. Children(t)' \subseteq Children(t)
    BY <1>0, <1>5, CommitStep, NullsAreDistinct DEF Children
  <2> QED
    BY <1>0, <1>5, <2>1, CommitStep, NullsAreDistinct DEF Closes, Same
<1>6. ASSUME NEW u \in User, HardDelete(u)
      PROVE  Goal
  BY <1>0, <1>6 DEF HardDelete, Owned, Same, Children
<1>7. CASE /\ UNCHANGED <<stored, row, new, revoked, replaced>>
           /\ expired \subseteq expired'
  BY <1>0, <1>7 DEF Same, Children
<1> QED
  BY <1>2, <1>3, <1>4, <1>5, <1>6, <1>7, StepKinds

(* A spent token is never rotated again, however its holders retry.        *)
THEOREM SpentTokensStaySpent == Spec => SpentTokenStaysSpent
<1>1. IInv /\ [Next]_vars =>
        [\A t \in Token :
           Spent(t) => Spent(t)' /\ Children(t)' \subseteq Children(t)]_vars
  BY SpentStep
<1> QED
  BY <1>1, Invariance, PTL DEF Spec, SpentTokenStaysSpent

-----------------------------------------------------------------------------
(* A family is named by its first token, which is drawn before the others, *)
(* and is one user's.                                                      *)
Founded(t, f) ==
    /\ row[f] # NoRow
    /\ row[f].owner = row[t].owner
    /\ f = t <=> row[t].parent = NoToken
    /\ f # t => \A r \in Request : new[r] # f

FamilyInv == \A t \in Token : row[t] # NoRow => Founded(t, row[t].family)

LEMMA FamilyOf ==
    ASSUME IInv, NEW t \in Token, row[t] # NoRow
    PROVE  row[t].family \in Token /\ row[t].parent \in Token \cup {NoToken}
BY DEF IInv, TypeOK, Row

LEMMA FamilyStep ==
    ASSUME IInv, FamilyInv, [Next]_vars
    PROVE  FamilyInv'
<1> SUFFICES ASSUME NEW t \in Token, row'[t] # NoRow
             PROVE  Founded(t, row[t].family)'
  BY DEF FamilyInv
<1> DEFINE f == row'[t].family
<1>1. CASE \E r \in Request, u \in User : LoginRead(r, u)
  <2>1. PICK r \in Request, n \in Token :
          Draws(r, n) /\ row'[n].family = n /\ row'[n].parent = NoToken
    BY <1>1, LoginStep
  <2>2. CASE t = n
    BY <2>1, <2>2 DEF Founded, Draws
  <2>3. CASE t # n
    <3>1. Same(t) /\ Founded(t, row[t].family) /\ row[t].family \in Token
      BY <2>1, <2>3, FamilyOf DEF Draws, Same, FamilyInv
    <3>2. f # n /\ Same(f)
      BY <2>1, <3>1 DEF Draws, Same, Founded
    <3> QED
      BY <2>1, <3>1, <3>2 DEF Draws, Same, Founded
  <2> QED
    BY <2>2, <2>3
<1>2. CASE \E r \in Request, p \in Token : RefreshRead(r, p)
  <2>1. PICK r \in Request, p \in Token : RefreshRead(r, p)
    BY <1>2
  <2>2. PICK n \in Token :
          /\ Draws(r, n) /\ row'[n].family = row[p].family
          /\ row'[n].owner = row[p].owner /\ row'[n].parent = p
    BY <2>1, RefreshStep
  <2>3. /\ p \in stored /\ row[p] # NoRow /\ p # NoToken
        /\ \A o \in Request : new[o] # p
    BY <2>1, NullsAreDistinct DEF RefreshRead, Presentable, IInv, TableInv, PendingInv
  <2>4. Founded(p, row[p].family) /\ row[p].family \in Token
    BY <2>3, FamilyOf DEF FamilyInv
  <2>5. row[p].family # n /\ \A o \in Request : new[o] # row[p].family
    BY <2>2, <2>3, <2>4 DEF Draws, Founded
  <2>6. CASE t = n
    BY <2>2, <2>3, <2>4, <2>5, <2>6 DEF Founded, Draws, Same
  <2>7. CASE t # n
    <3>1. Same(t) /\ Founded(t, row[t].family) /\ row[t].family \in Token
      BY <2>2, <2>7, FamilyOf DEF Draws, Same, FamilyInv
    <3>2. f # n /\ Same(f)
      BY <2>2, <3>1 DEF Draws, Same, Founded
    <3> QED
      BY <2>2, <3>1, <3>2 DEF Draws, Same, Founded
  <2> QED
    BY <2>6, <2>7
<1>3. ASSUME NEW r \in Request, Closes(r),
             UNCHANGED row \/ row'[new[r]] = NoRow
      PROVE  Founded(t, row[t].family)'
  <2>1. Same(t)
    BY <1>3 DEF Closes, Same
  <2>2. Founded(t, row[t].family) /\ row[t].family \in Token
    BY <2>1, FamilyOf DEF Same, FamilyInv
  <2>3. Same(f)
    BY <1>3, <2>1, <2>2 DEF Closes, Same, Founded
  <2>4. \A o \in Request : new'[o] \in {new[o], NoToken}
    BY <1>3 DEF Closes
  <2> QED
    BY <2>1, <2>2, <2>3, <2>4, NullsAreDistinct DEF Founded, Same
<1>4. ASSUME NEW r \in Request, ForeignKeyError(r) \/ RaiseReuse(r) \/ Abort(r)
      PROVE  Founded(t, row[t].family)'
  <2>1. new[r] \in Token => row'[new[r]] = NoRow
    BY <1>4 DEF ForeignKeyError, RaiseReuse, Abort, Rollback
  <2>2. new[r] \notin Token => UNCHANGED row
    BY <1>4 DEF ForeignKeyError, RaiseReuse, Abort, Rollback, IInv, TypeOK
  <2> QED
    BY <1>3, <1>4, <2>1, <2>2, RollbackStep
<1>5. ASSUME NEW r \in Request, Commit(r)
      PROVE  Founded(t, row[t].family)'
  BY <1>3, <1>5, CommitStep
<1>6. ASSUME UNCHANGED <<row, new>>
      PROVE  Founded(t, row[t].family)'
  BY <1>6 DEF FamilyInv, Founded
<1>7. \A u \in User : HardDelete(u) => UNCHANGED <<row, new>>
  BY DEF HardDelete
<1> QED
  BY <1>1, <1>2, <1>4, <1>5, <1>6, <1>7, StepKinds

(* The table of a family that no step has touched.                         *)
LEMMA LeavesKept ==
    ASSUME NEW f, \A t \in stored' : Same(t),
           {t \in stored' : row[t].family = f} = Family(f),
           Family(f) \ replaced' = Leaves(f),
           ~Forked(f) => \A a, b \in Leaves(f) : a = b,
           ~Forked(f)',
           \A t \in Family(f) : Children(t) \subseteq Children(t)'
    PROVE  \A a, b \in Leaves(f)' : a = b
<1>1. Family(f)' = Family(f)
  BY DEF Family, Same
<1>2. Leaves(f)' = Leaves(f)
  BY <1>1 DEF Leaves
<1>3. ~Forked(f)
  BY <1>1 DEF Forked
<1> QED
  BY <1>2, <1>3

(* A login settles a family's first token; a refresh puts a token in the   *)
(* place of its parent, which had no child yet unless the family forks.    *)
LEMMA LeafCommit ==
    ASSUME IInv, FamilyInv, OneLeafUnlessForked, NEW r \in Request, Commit(r)
    PROVE  OneLeafUnlessForked'
<1> SUFFICES ASSUME NEW f \in Token, ~Forked(f)'
             PROVE  \A a, b \in Leaves(f)' : a = b
  BY DEF OneLeafUnlessForked
<1>1. /\ UNCHANGED row
      /\ stored' = stored \cup Inserts(r) /\ Inserts(r) \subseteq {new[r]} \cap Token
      /\ replaced' = replaced \cup Replaces(r)
      /\ pc[r] \in {"commit", "commit_all"}
  BY CommitStep DEF Commit
<1>2. ~Forked(f) => \A a, b \in Leaves(f) : a = b
  BY DEF OneLeafUnlessForked
<1>3. \A t : Children(t) \subseteq Children(t)'
  BY <1>1 DEF Children
<1>4. CASE Inserts(r) = {}
  <2>1. Replaces(r) = {}
    BY <1>1, <1>4 DEF Inserts, Replaces
  <2> QED
    BY <1>1, <1>2, <1>3, <1>4, <2>1, LeavesKept DEF Same, Family, Leaves
<1>5. CASE Inserts(r) # {}
  <2>0. PICK n, p, g : n = new[r] /\ p = row[n].parent /\ g = row[n].family
    OBVIOUS
  <2>1. /\ n \in Token /\ Inserts(r) = {n} /\ n \notin stored /\ row[n] # NoRow
        /\ pc[r] = "commit" /\ n # NoToken
    BY <1>1, <1>5, <2>0 DEF Inserts, IInv, PendingInv
  <2>2. Founded(n, g) /\ g \in Token /\ p \in Token \cup {NoToken}
    BY <2>0, <2>1, FamilyOf DEF FamilyInv
  <2>3. Replaces(r) = IF p # NoToken THEN {p} ELSE {}
    BY <2>0, <2>1 DEF Replaces
  <2>4. p # NoToken => p \in stored /\ row[p].family = g
    <3> SUFFICES ASSUME p # NoToken
                 PROVE  p \in stored /\ row[p].family = g
      OBVIOUS
    <3>1. p \in stored
      BY <1>1, <2>3, CommitReplaces
    <3> QED
      BY <2>0, <2>1, <2>2, <3>1 DEF IInv, LineageInv
  <2>5. CASE f # g
    <3>1. {t \in stored' : row[t].family = f} = Family(f)
      BY <1>1, <2>0, <2>1, <2>5 DEF Family
    <3>2. Family(f) \ replaced' = Leaves(f)
      BY <1>1, <2>3, <2>4, <2>5 DEF Family, Leaves
    <3> QED
      BY <1>1, <1>2, <1>3, <3>1, <3>2, LeavesKept DEF Same
  <2>6. CASE f = g /\ p = NoToken
    <3>1. g = n
      BY <2>0, <2>2, <2>6 DEF Founded
    <3>2. Family(f) = {}
      <4> SUFFICES ASSUME NEW t \in stored, row[t].family = f
                   PROVE  FALSE
        BY DEF Family
      <4>1. t \in Token /\ row[t] # NoRow /\ t # n /\ new[r] = n
        BY <2>0, <2>1, StoredHasRow DEF IInv, TableInv
      <4> QED
        BY <2>6, <3>1, <4>1 DEF FamilyInv, Founded
    <3>3. Family(f)' = {n}
      BY <1>1, <2>0, <2>1, <2>6, <3>2 DEF Family
    <3> QED
      BY <3>3 DEF Leaves
  <2>7. CASE f = g /\ p # NoToken
    <3>1. p \in stored /\ p \in Family(f) /\ p \in Family(f)'
      BY <1>1, <2>4, <2>7 DEF Family
    <3>2. n \in Children(p)'
      BY <1>1, <2>0, <2>1 DEF Children
    <3>3. Children(p) = {}
      BY <1>1, <1>3, <2>1, <3>1, <3>2 DEF Forked, Children
    <3>4. p \in Leaves(f)
      BY <3>1, <3>3 DEF Leaves, IInv, RotationIsAtomic
    <3>5. ~Forked(f)
      BY <1>1, <1>3 DEF Forked, Family
    <3>6. Leaves(f) = {p}
      BY <1>2, <3>4, <3>5
    <3>7. Family(f)' = Family(f) \cup {n}
      BY <1>1, <2>0, <2>1, <2>7 DEF Family
    <3>8. Leaves(f)' \subseteq {n}
      BY <1>1, <2>3, <2>7, <3>6, <3>7 DEF Leaves
    <3> QED
      BY <3>8
  <2> QED
    BY <2>5, <2>6, <2>7
<1> QED
  BY <1>4, <1>5

LEMMA LeafHardDelete ==
    ASSUME IInv, FamilyInv, OneLeafUnlessForked, NEW u \in User, HardDelete(u)
    PROVE  OneLeafUnlessForked'
<1> SUFFICES ASSUME NEW f \in Token, ~Forked(f)'
             PROVE  \A a, b \in Leaves(f)' : a = b
  BY DEF OneLeafUnlessForked
<1>1. /\ UNCHANGED row /\ stored' = stored \ Owned(u)
      /\ replaced' = replaced \ Owned(u)
  BY DEF HardDelete
<1>2. \A t \in Family(f) : row[t].owner = row[f].owner
  BY StoredHasRow DEF Family, FamilyInv, Founded, IInv, TableInv
<1>3. CASE row[f].owner = u
  BY <1>1, <1>2, <1>3 DEF Leaves, Family, Owned
<1>4. CASE row[f].owner # u
  <2>1. Family(f) \cap Owned(u) = {}
    BY <1>2, <1>4 DEF Owned, Family
  <2>2. {t \in stored' : row[t].family = f} = Family(f) /\ Family(f) \ replaced' = Leaves(f)
    BY <1>1, <2>1 DEF Family, Leaves
  <2>3. ASSUME NEW t \in Family(f), NEW c \in Children(t)
        PROVE  c \in Children(t)'
    <3>1. c \in stored /\ row[c].parent = t /\ t \in stored
      BY DEF Children, Family
    <3>2. row[c].owner = row[t].owner
      BY <3>1, StoredHasRow DEF IInv, LineageInv, TableInv
    <3> QED
      BY <1>1, <2>1, <3>1, <3>2 DEF Children, Owned
  <2> QED
    BY <1>1, <2>2, <2>3, LeavesKept DEF Same, OneLeafUnlessForked
<1> QED
  BY <1>3, <1>4

LEMMA LeafStep ==
    ASSUME IInv, FamilyInv, OneLeafUnlessForked, [Next]_vars
    PROVE  OneLeafUnlessForked'
<1>1. ASSUME UNCHANGED <<stored, replaced>>, \A t \in stored : Same(t)
      PROVE  OneLeafUnlessForked'
  <2>1. \A f : Family(f)' = Family(f) /\ Children(f)' = Children(f)
    BY <1>1 DEF Family, Children, Same
  <2> QED
    BY <1>1, <2>1 DEF OneLeafUnlessForked, Leaves, Forked
<1>2. ASSUME NEW r \in Request, NEW u \in User, LoginRead(r, u)
      PROVE  OneLeafUnlessForked'
  BY <1>1, <1>2, LoginStep DEF Draws, table
<1>3. ASSUME NEW r \in Request, NEW t \in Token, RefreshRead(r, t)
      PROVE  OneLeafUnlessForked'
  BY <1>1, <1>3, RefreshStep DEF Draws, table
<1>4. ASSUME NEW r \in Request, ForeignKeyError(r) \/ RaiseReuse(r) \/ Abort(r)
      PROVE  OneLeafUnlessForked'
  BY <1>1, <1>4, RollbackStep DEF Closes, table
<1>5. CASE UNCHANGED <<users, stored, row, new, revoked, replaced>>
  BY <1>1, <1>5 DEF Same
<1> QED
  BY <1>2, <1>3, <1>4, <1>5, LeafCommit, LeafHardDelete, StepKinds

(* In a family where no two refreshes of one token have both committed, at *)
(* most one token is not spent, whatever else overlapped or failed: what a *)
(* replaced token presented again says of its family.                      *)
THEOREM FamiliesHaveOneLeaf == Spec => []OneLeafUnlessForked
<1>1. Init => FamilyInv /\ OneLeafUnlessForked
  BY DEF Init, FamilyInv, OneLeafUnlessForked, Leaves, Family
<1>2. IInv /\ FamilyInv /\ OneLeafUnlessForked /\ [Next]_vars =>
        FamilyInv' /\ OneLeafUnlessForked'
  BY FamilyStep, LeafStep
<1> QED
  BY <1>1, <1>2, Invariance, PTL DEF Spec

-----------------------------------------------------------------------------
(* What an UPDATE of revoked_at selected were committed rows, and once it  *)
(* is done each of them is revoked, marked or gone.                        *)
TargetInv ==
    \A r \in Request :
      /\ pc[r] \in {"idle", "reuse_reported"} \/ new[r] \in Token =>
           targets[r] = {}
      /\ \A t \in targets[r] : row[t] # NoRow /\ \A o \in Request : new[o] # t
      /\ pc[r] \in {"commit", "commit_all"} =>
           targets[r] \cap stored \subseteq revoked \cup marked[r]

LEMMA TargetStep ==
    ASSUME IInv, TargetInv, [Next]_vars
    PROVE  TargetInv'
<1> USE DEF TargetInv
<1>0. /\ stored \subseteq Token
      /\ pc \in [Request -> Statement]
      /\ new \in [Request -> Token \cup {NoToken}]
      /\ targets \in [Request -> SUBSET Token]
      /\ marked \in [Request -> SUBSET Token]
      /\ \A t \in stored : row[t] # NoRow /\ \A o \in Request : new[o] # t
      /\ \A r \in Request : new[r] \in Token =>
           /\ row[new[r]] # NoRow
           /\ pc[r] \in {"login", "rotate", "insert", "commit"}
  BY DEF IInv, TypeOK, TableInv, PendingInv, RequestInv
<1>1. ASSUME NEW r \in Request, NEW n \in Token, Draws(r, n), pc[r] = "idle",
             NEW s \in {"login", "rotate"}, Goto(r, s),
             UNCHANGED <<table, targets, marked>>
      PROVE  TargetInv'
  <2> SUFFICES ASSUME NEW o \in Request PROVE TargetInv!(o)'
    OBVIOUS
  <2>1. \A t \in targets[o] : t # n /\ row'[t] = row[t]
    BY <1>0, <1>1 DEF Draws, Same
  <2>2. CASE o = r
    BY <1>0, <1>1, <2>1, <2>2 DEF Draws, Goto, table
  <2>3. CASE o # r
    <3>1. pc'[o] = pc[o] /\ new'[o] = new[o]
      BY <1>0, <1>1, <2>3 DEF Draws, Goto
    <3> QED
      BY <1>0, <1>1, <2>1, <3>1 DEF Draws, table
  <2> QED
    BY <2>2, <2>3
<1>2. ASSUME NEW r \in Request, NEW u \in User, LoginRead(r, u)
      PROVE  TargetInv'
  BY <1>1, <1>2, LoginStep DEF LoginRead
<1>3. ASSUME NEW r \in Request, NEW p \in Token, RefreshRead(r, p)
      PROVE  TargetInv'
  BY <1>1, <1>3, RefreshStep DEF RefreshRead
<1>4. ASSUME NEW r \in Request, NEW s \in {"idle", "reuse_reported"},
             Closes(r), Close(r, s),
             \/ UNCHANGED table
             \/ /\ UNCHANGED row
                /\ stored' \subseteq stored \cup {new[r]}
                /\ revoked \subseteq revoked'
      PROVE  TargetInv'
  <2> SUFFICES ASSUME NEW o \in Request PROVE TargetInv!(o)'
    OBVIOUS
  <2>1. \A t \in targets[o] : t # new[r] /\ row'[t] = row[t]
    BY <1>0, <1>4 DEF Closes, Same
  <2>2. CASE o = r
    BY <1>0, <1>4, <2>2, NullsAreDistinct DEF Closes, Close, Goto
  <2>3. CASE o # r
    <3>1. /\ pc'[o] = pc[o] /\ new'[o] = new[o]
          /\ targets'[o] = targets[o] /\ marked'[o] = marked[o]
      BY <1>0, <1>4, <2>3 DEF Closes, Close, Goto
    <3>2. \A t \in targets[o], q \in Request : new'[q] # t
      BY <1>0, <1>4, NullsAreDistinct DEF Closes
    <3> QED
      BY <1>0, <1>4, <2>1, <3>1, <3>2 DEF table
  <2> QED
    BY <2>2, <2>3
<1>5. ASSUME NEW r \in Request,
             ForeignKeyError(r) \/ RaiseReuse(r) \/ Abort(r)
      PROVE  TargetInv'
  <2>1. PICK s \in {"idle", "reuse_reported"} : Close(r, s)
    BY <1>5 DEF ForeignKeyError, RaiseReuse, Abort, Rollback
  <2> QED
    BY <1>4, <1>5, <2>1, RollbackStep
<1>6. ASSUME NEW r \in Request, Commit(r)
      PROVE  TargetInv'
  <2>1. stored' \subseteq stored \cup {new[r]} /\ Close(r, "idle")
    BY <1>6, CommitStep DEF Commit
  <2> QED
    BY <1>4, <1>6, <2>1, CommitStep
<1>7. ASSUME NEW r \in Request, UNCHANGED <<table, row, new>>,
             \A o \in Request \ {r} : /\ pc'[o] = pc[o]
                                      /\ targets'[o] = targets[o]
                                      /\ marked'[o] = marked[o],
             TargetInv!(r)'
      PROVE  TargetInv'
  BY <1>7 DEF table
<1>8. ASSUME NEW r \in Request,
             InsertToken(r) \/ Rotate(r) \/ AnswerReuse(r)
      PROVE  TargetInv'
  <2>1. /\ UNCHANGED <<table, row, new, targets, marked>>
        /\ \A o \in Request \ {r} : pc'[o] = pc[o]
    BY <1>0, <1>8 DEF InsertToken, Rotate, AnswerReuse, Goto
  <2>2. targets[r] = {}
    BY <1>8 DEF InsertToken, Rotate, AnswerReuse, IInv, RequestInv
  <2> QED
    BY <1>7, <2>1, <2>2
<1>9. ASSUME NEW r \in Request,
             \/ ReuseSelect(r)
             \/ \E u \in User : LogoutAllSelect(r, u)
             \/ \E t \in Token : ReuseRead(r, t) \/ LogoutRead(r, t)
      PROVE  TargetInv'
  <2>1. /\ UNCHANGED <<table, row, new, marked>>
        /\ \A o \in Request \ {r} : pc'[o] = pc[o] /\ targets'[o] = targets[o]
    BY <1>0, <1>9 DEF ReuseSelect, LogoutAllSelect, ReuseRead, LogoutRead, Goto
  <2>2. pc'[r] \in {"reuse", "revoke_family", "mark", "sweep"}
    BY <1>0, <1>9 DEF ReuseSelect, LogoutAllSelect, ReuseRead, LogoutRead, Goto
  <2>3. new[r] \notin Token
    BY <1>9 DEF ReuseSelect, LogoutAllSelect, ReuseRead, LogoutRead, IInv,
                RequestInv
  <2>4. targets'[r] \subseteq stored
    BY <1>0, <1>9 DEF ReuseSelect, LogoutAllSelect, ReuseRead, LogoutRead,
                      Presentable, Family, Owned
  <2> QED
    BY <1>0, <1>7, <2>1, <2>2, <2>3, <2>4
<1>10. ASSUME NEW r \in Request, UpdateRevoked(r)
       PROVE  TargetInv'
  <2>1. /\ UNCHANGED <<table, row, new, targets>>
        /\ \A o \in Request \ {r} : pc'[o] = pc[o] /\ marked'[o] = marked[o]
    BY <1>0, <1>10 DEF UpdateRevoked, Goto
  <2>2. /\ pc'[r] \in {"commit", "commit_all", "raise"}
        /\ new[r] \notin Token
    BY <1>0, <1>10 DEF UpdateRevoked, Goto, AfterUpdate, IInv, RequestInv
  <2>3. targets[r] \cap stored \subseteq revoked \cup marked'[r]
    BY <1>0, <1>10 DEF UpdateRevoked, Found
  <2> QED
    BY <1>7, <2>1, <2>2, <2>3 DEF table
<1>11. ASSUME NEW u \in User, HardDelete(u)
       PROVE  TargetInv'
  BY <1>11 DEF HardDelete, Owned
<1>12. ASSUME NEW t \in Token, Expire(t)
       PROVE  TargetInv'
  BY <1>12 DEF Expire
<1>13. CASE UNCHANGED vars
  BY <1>13 DEF vars
<1> QED
  BY <1>2, <1>3, <1>5, <1>6, <1>8, <1>9, <1>10, <1>11, <1>12, <1>13
     DEF Next, Receive, Advance, Environment

(* A logout that answers has revoked all that it found, whatever rows were *)
(* locked, rotated or deleted while it waited.                             *)
THEOREM LogoutsRevoke == Spec => LogoutRevokesWhatItFound
<1>1. Init => TargetInv
  BY NullsAreDistinct DEF Init, TargetInv
<1>2. IInv /\ TargetInv =>
        [\A r \in Request :
           Commit(r) => targets[r] \cap stored' \subseteq revoked']_vars
  <2> SUFFICES ASSUME IInv, TargetInv, NEW r \in Request, Commit(r)
               PROVE  targets[r] \cap stored' \subseteq revoked'
    OBVIOUS
  <2>1. targets[r] \cap stored \subseteq revoked \cup marked[r]
    BY DEF Commit, TargetInv
  <2>2. stored' \subseteq stored \cup {new[r]}
    BY CommitStep
  <2>3. new[r] \notin targets[r]
    BY DEF TargetInv
  <2> QED
    BY <2>1, <2>2, <2>3 DEF Commit
<1> QED
  BY <1>1, <1>2, TargetStep, Invariance, PTL DEF Spec, LogoutRevokesWhatItFound

-----------------------------------------------------------------------------
(* RefreshSessions implements TokenChains: a drawn token is an offer, a    *)
(* commit settles it or revokes, every other end of a transaction          *)
(* withdraws, and each statement in between is a stutter.                  *)

(* What a logout selects and marks belongs to one user, and a logout marks *)
(* one token.                                                              *)
OwnerOf(r) ==
    /\ marked[r] \subseteq targets[r]
    /\ pc[r] \in {"idle", "reuse", "mark", "sweep"} => marked[r] = {}
    /\ pc[r] \in {"mark", "commit"} => \A s, t \in targets[r] : s = t
    /\ pc[r] \in {"mark", "sweep", "commit", "commit_all"} =>
         \E u \in User : \A t \in targets[r] : row[t].owner = u

OwnerInv == \A r \in Request : OwnerOf(r)

LEMMA OwnerStep ==
    ASSUME IInv, TargetInv, OwnerInv, [Next]_vars
    PROVE  OwnerInv'
<1> USE DEF OwnerInv, OwnerOf
<1>0. /\ stored \subseteq Token
      /\ row \in [Token -> Row \cup {NoRow}]
      /\ pc \in [Request -> Statement]
      /\ new \in [Request -> Token \cup {NoToken}]
      /\ targets \in [Request -> SUBSET Token]
      /\ marked \in [Request -> SUBSET Token]
      /\ \A r \in Request : \A t \in targets[r] :
           row[t] # NoRow /\ \A o \in Request : new[o] # t
  BY DEF IInv, TypeOK, TargetInv
<1>1. ASSUME NEW r \in Request,
             \A o \in Request \ {r} : /\ pc'[o] = pc[o]
                                      /\ targets'[o] = targets[o]
                                      /\ marked'[o] = marked[o],
             \A o \in Request : \A t \in targets[o] : row'[t] = row[t],
             OwnerOf(r)'
      PROVE  OwnerInv'
  BY <1>1
<1>2. ASSUME NEW r \in Request, NEW n \in Token, Draws(r, n),
             pc' = [pc EXCEPT ![r] = pc'[r]], pc'[r] \in {"login", "rotate"},
             UNCHANGED <<targets, marked>>
      PROVE  OwnerInv'
  <2>1. \A o \in Request : \A t \in targets[o] : row'[t] = row[t]
    BY <1>0, <1>2 DEF Draws, Same
  <2>2. OwnerOf(r)'
    BY <1>0, <1>2
  <2> QED
    BY <1>0, <1>1, <1>2, <2>1, <2>2
<1>3. ASSUME NEW r \in Request, NEW u \in User, LoginRead(r, u)
      PROVE  OwnerInv'
  <2>1. PICK n \in Token : Draws(r, n)
    BY <1>3, LoginStep
  <2>2. pc' = [pc EXCEPT ![r] = pc'[r]] /\ pc'[r] = "login" /\ UNCHANGED <<targets, marked>>
    BY <1>0, <1>3 DEF LoginRead, Goto
  <2> HIDE DEF OwnerInv, OwnerOf
  <2> QED
    BY <1>2, <2>1, <2>2
<1>4. ASSUME NEW r \in Request, NEW p \in Token, RefreshRead(r, p)
      PROVE  OwnerInv'
  <2>1. PICK n \in Token : Draws(r, n)
    BY <1>4, RefreshStep
  <2>2. pc' = [pc EXCEPT ![r] = pc'[r]] /\ pc'[r] = "rotate" /\ UNCHANGED <<targets, marked>>
    BY <1>0, <1>4 DEF RefreshRead, Goto
  <2> HIDE DEF OwnerInv, OwnerOf
  <2> QED
    BY <1>2, <2>1, <2>2
<1>5. ASSUME NEW r \in Request, NEW s \in {"idle", "reuse_reported"}, Closes(r), Close(r, s)
      PROVE  OwnerInv'
  <2>1. \A o \in Request : \A t \in targets[o] : row'[t] = row[t]
    BY <1>0, <1>5 DEF Closes, Same
  <2>2. OwnerOf(r)'
    BY <1>0, <1>5 DEF Close, Goto
  <2> QED
    BY <1>0, <1>1, <1>5, <2>1, <2>2 DEF Close, Goto
<1>6. ASSUME NEW r \in Request, ForeignKeyError(r) \/ RaiseReuse(r) \/ Abort(r)
      PROVE  OwnerInv'
  <2>1. PICK s \in {"idle", "reuse_reported"} : Close(r, s)
    BY <1>6 DEF ForeignKeyError, RaiseReuse, Abort, Rollback
  <2> QED
    BY <1>5, <1>6, <2>1, RollbackStep
<1>7. ASSUME NEW r \in Request, Commit(r)
      PROVE  OwnerInv'
  BY <1>5, <1>7, CommitStep DEF Commit
<1>8. ASSUME NEW r \in Request, UNCHANGED row,
             \A o \in Request \ {r} : /\ pc'[o] = pc[o]
                                      /\ targets'[o] = targets[o]
                                      /\ marked'[o] = marked[o],
             OwnerOf(r)'
      PROVE  OwnerInv'
  BY <1>1, <1>8
<1>9. ASSUME NEW r \in Request, InsertToken(r)
      PROVE  OwnerInv'
  <2>1. targets[r] = {} /\ row[new[r]].owner \in User
    BY <1>9 DEF InsertToken, OwnerExists, IInv, TypeOK, RequestInv, TargetInv
  <2> QED
    BY <1>0, <1>8, <1>9, <2>1 DEF InsertToken, Goto
<1>10. ASSUME NEW r \in Request, Rotate(r) \/ AnswerReuse(r)
       PROVE  OwnerInv'
  <2>1. pc[r] = "reuse_reported" => targets[r] = {}
    BY DEF TargetInv
  <2> QED
    BY <1>0, <1>8, <1>10, <2>1 DEF Rotate, AnswerReuse, Goto
<1>11. ASSUME NEW r \in Request, ReuseSelect(r) \/ \E t \in Token : ReuseRead(r, t)
       PROVE  OwnerInv'
  <2>1. marked[r] = {}
    BY <1>11 DEF ReuseSelect, ReuseRead
  <2> QED
    BY <1>0, <1>8, <1>11, <2>1 DEF ReuseSelect, ReuseRead, Goto
<1>12. ASSUME NEW r \in Request, NEW t \in Token, LogoutRead(r, t)
       PROVE  OwnerInv'
  <2>1. targets[r] = {} /\ row[t].owner \in User
    BY <1>12, StoredHasRow DEF LogoutRead, IInv, TargetInv
  <2> QED
    BY <1>0, <1>8, <1>12, <2>1 DEF LogoutRead, Goto
<1>13. ASSUME NEW r \in Request, NEW u \in User, LogoutAllSelect(r, u)
       PROVE  OwnerInv'
  <2>1. targets[r] = {}
    BY <1>13 DEF LogoutAllSelect, TargetInv
  <2>2. Owned(u) \ revoked \subseteq Token
    BY <1>0 DEF Owned
  <2> QED
    BY <1>0, <1>8, <1>13, <2>1, <2>2 DEF LogoutAllSelect, Owned, Goto
<1>14. ASSUME NEW r \in Request, UpdateRevoked(r)
       PROVE  OwnerInv'
  <2>1. Found(r) \subseteq targets[r]
    BY DEF Found
  <2> QED
    BY <1>0, <1>8, <1>14, <2>1 DEF UpdateRevoked, AfterUpdate, Goto
<1>15. CASE \/ \E u \in User : HardDelete(u)
            \/ \E t \in Token : Expire(t)
            \/ UNCHANGED vars
  BY <1>15 DEF HardDelete, Expire, vars
<1> QED
  BY <1>3, <1>4, <1>6, <1>7, <1>9, <1>10, <1>11, <1>12, <1>13, <1>14, <1>15
     DEF Next, Receive, Advance, Environment

(* What a replay does to the sessions of its family: nothing.  They end by *)
(* what is done with themselves or with all of their owner's.              *)
THEOREM ReplayEndsNothing == Spec => SessionsEndByTheirOwners
<1>1. Init => TargetInv /\ OwnerInv
  BY NullsAreDistinct DEF Init, TargetInv, OwnerInv, OwnerOf
<1>2. IInv /\ OwnerInv /\ [Next]_vars =>
        [\A t \in Token : Live(t) /\ ~Live(t)' =>
           \/ t \in expired' \/ row[t].owner \notin users'
           \/ \E r \in Request : Ends(r, t) /\ Commit(r)]_vars
  <2> SUFFICES ASSUME IInv, OwnerInv, [Next]_vars, NEW t \in Token,
                      Live(t), ~Live(t)', t \notin expired', row[t].owner \in users'
               PROVE  \E r \in Request : Ends(r, t) /\ Commit(r)
    OBVIOUS
  <2>1. ~ \E r \in Request, u \in User : LoginRead(r, u)
    BY DEF LoginRead, Live, table
  <2>2. ~ \E r \in Request, p \in Token : RefreshRead(r, p)
    BY DEF RefreshRead, Live, table
  <2>3. ~ \E r \in Request : ForeignKeyError(r) \/ RaiseReuse(r) \/ Abort(r)
    BY RollbackStep DEF Live, table
  <2>4. ~ \E u \in User : HardDelete(u)
    BY DEF HardDelete, Owned, Live
  <2>5. PICK r \in Request : Commit(r)
    BY <2>1, <2>2, <2>3, <2>4, StepKinds DEF Live
  <2>6. t \in Replaces(r) \cup marked[r]
    BY <2>5 DEF Commit, Live
  <2>7. CASE t \in Replaces(r)
    BY <2>5, <2>7 DEF Ends, Replaces
  <2>8. CASE t \in marked[r]
    <3>1. t \in targets[r] /\ pc[r] \in {"commit", "commit_all"}
      BY <2>5, <2>8 DEF OwnerInv, OwnerOf, Commit
    <3>2. pc[r] = "commit" => targets[r] = {t}
      BY <3>1 DEF OwnerInv, OwnerOf
    <3> QED
      BY <2>5, <3>1, <3>2 DEF Ends
  <2> QED
    BY <2>6, <2>7, <2>8
<1> QED
  BY <1>1, <1>2, TargetStep, OwnerStep, Invariance, PTL
     DEF Spec, SessionsEndByTheirOwners

-----------------------------------------------------------------------------
(* The mapping: a stored token is settled, a drawn one is offered.         *)
LEMMA Mapping ==
    ASSUME IInv
    PROVE  /\ Chains!Settled = stored
           /\ \A u \in User : Chains!OwnedBy(u) = Owned(u)
           /\ \A t \in stored : t \in Token /\ Chain[t] = row[t]
           /\ \A r \in Request : new[r] \in Token =>
                /\ Chain[new[r]] = NoRow
                /\ Offered[new[r]] = row[new[r]]
                /\ row[new[r]] # NoRow
<1>1. /\ stored \subseteq Token
      /\ \A t \in stored : row[t] # NoRow
  BY DEF IInv, TypeOK, TableInv
<1>2. Chains!Settled = stored
  BY <1>1 DEF Chains!Settled, Chain
<1>3. \A u \in User : Chains!OwnedBy(u) = Owned(u)
  BY <1>1, <1>2 DEF Chains!OwnedBy, Owned, Chain
<1>4. \A r \in Request : new[r] \in Token =>
        new[r] \notin stored /\ row[new[r]] # NoRow
  BY DEF IInv, PendingInv
<1> QED
  BY <1>1, <1>2, <1>3, <1>4 DEF Chain, Offered

(* Offered is a function of the tokens, before and after a step.           *)
LEMMA OfferedByToken ==
    /\ Offered = [t \in Token |-> Offered[t]]
    /\ Offered' = [t \in Token |-> Offered'[t]]
BY DEF Offered

(* A request that draws a token offers it.                                 *)
LEMMA DrawOffers ==
    ASSUME IInv, NEW r \in Request, NEW n \in Token, NEW columns \in Row,
           pc[r] = "idle", Draw(r, n, columns), UNCHANGED table
    PROVE  Chains!OfferRow(n, columns)
<1>0. /\ row \in [Token -> Row \cup {NoRow}]
      /\ new \in [Request -> Token \cup {NoToken}]
      /\ \A t \in stored : row[t] # NoRow
      /\ new[r] = NoToken
  BY DEF IInv, TypeOK, TableInv, RequestInv
<1>1. /\ row[n] = NoRow /\ row'[n] = columns
      /\ \A t \in Token \ {n} : row'[t] = row[t]
      /\ new'[r] = n
      /\ \A o \in Request \ {r} : new'[o] = new[o]
  BY <1>0 DEF Draw
<1>2. n \notin stored /\ stored' = stored
  BY <1>0, <1>1 DEF table
<1>3. Chain' = Chain /\ Chain[n] = NoRow
  BY <1>1, <1>2 DEF Chain
<1>4. Offered[n] = NoRow
  BY <1>1 DEF Offered
<1>5. Offered' = [Offered EXCEPT ![n] = columns]
  <2>1. Offered'[n] = columns
    BY <1>1 DEF Offered
  <2>2. ASSUME NEW t \in Token \ {n} PROVE Offered'[t] = Offered[t]
    <3>1. (\E o \in Request : new'[o] = t) <=> (\E o \in Request : new[o] = t)
      BY <1>0, <1>1, NullsAreDistinct
    <3> QED
      BY <1>1, <3>1 DEF Offered
  <2> QED
    BY <2>1, <2>2, OfferedByToken
<1> QED
  BY <1>3, <1>4, <1>5 DEF Chains!OfferRow, table

(* However a transaction ends, its token is no longer an offer and all     *)
(* other tokens are what they were.                                        *)
LEMMA EndsWithdraws ==
    ASSUME IInv, NEW r \in Request, Closes(r)
    PROVE  /\ new[r] \in Token => Offered' = [Offered EXCEPT ![new[r]] = NoRow]
           /\ new[r] \notin Token => Offered' = Offered
<1>0. /\ new \in [Request -> Token \cup {NoToken}]
      /\ new'[r] = NoToken
      /\ \A o \in Request \ {r} : new'[o] = new[o]
      /\ \A t \in Token : t # new[r] => row'[t] = row[t]
      /\ new[r] \in Token => \A o \in Request \ {r} : new[o] # new[r]
  BY DEF IInv, TypeOK, Closes, Same, PendingInv
<1>1. ASSUME NEW t \in Token, t # new[r] PROVE Offered'[t] = Offered[t]
  <2>1. (\E o \in Request : new'[o] = t) <=> (\E o \in Request : new[o] = t)
    BY <1>0, <1>1, NullsAreDistinct
  <2> QED
    BY <1>0, <1>1, <2>1 DEF Offered
<1>2. ASSUME new[r] \in Token PROVE Offered'[new[r]] = NoRow
  <2>1. ~ \E o \in Request : new'[o] = new[r]
    BY <1>0, <1>2, NullsAreDistinct
  <2> QED
    BY <1>2, <2>1 DEF Offered
<1> QED
  BY <1>1, <1>2, OfferedByToken

-----------------------------------------------------------------------------
(* One step of a request, or of the world, is one step of the chains.      *)
LEMMA LoginOffers ==
    ASSUME IInv, NEW r \in Request, NEW u \in User, LoginRead(r, u)
    PROVE  Chains!Next
<1>1. PICK n \in Token :
        Draw(r, n, [owner |-> u, family |-> n, parent |-> NoToken])
  BY DEF LoginRead
<1>2. [owner |-> u, family |-> n, parent |-> NoToken] \in Row
  BY DEF Row
<1>3. Chains!OfferRow(n, [owner |-> u, family |-> n, parent |-> NoToken])
  BY <1>1, <1>2, DrawOffers DEF LoginRead
<1> QED
  BY <1>3 DEF LoginRead, Chains!OfferFirst, Chains!Next

LEMMA RefreshOffers ==
    ASSUME IInv, NEW r \in Request, NEW p \in Token, RefreshRead(r, p)
    PROVE  Chains!Next
<1>1. PICK n \in Token :
        Draw(r, n, [owner |-> row[p].owner, family |-> row[p].family,
                    parent |-> p])
  BY DEF RefreshRead
<1>2. p \in stored \ (replaced \cup revoked \cup expired)
  BY DEF RefreshRead, Presentable
<1>3. [owner |-> row[p].owner, family |-> row[p].family, parent |-> p] \in Row
  BY <1>2, StoredHasRow DEF IInv, Row
<1>4. Chains!OfferRow(n, [owner |-> Chain[p].owner, family |-> Chain[p].family,
                          parent |-> p])
  BY <1>1, <1>2, <1>3, DrawOffers DEF RefreshRead, Chain
<1> QED
  BY <1>2, <1>4, Mapping DEF Chains!OfferNext, Chains!Next

LEMMA RollbackWithdraws ==
    ASSUME IInv, NEW r \in Request,
           ForeignKeyError(r) \/ RaiseReuse(r) \/ Abort(r)
    PROVE  [Chains!Next]_(Chains!chainVars)
<1>1. Closes(r) /\ UNCHANGED table
  BY RollbackStep
<1>2. Chain' = Chain
  BY <1>1 DEF Chain, Closes, Same, table, IInv, TypeOK
<1>3. CASE new[r] \in Token
  <2>1. Chains!Withdraw(new[r])
    BY <1>1, <1>2, <1>3, EndsWithdraws, Mapping DEF Chains!Withdraw, table
  <2> QED
    BY <1>3, <2>1 DEF Chains!Next
<1>4. CASE new[r] \notin Token
  BY <1>1, <1>2, <1>4, EndsWithdraws DEF Chains!chainVars, table
<1> QED
  BY <1>3, <1>4

(* A commit settles the token it inserts and spends its parent, or revokes *)
(* what a logout has marked; never both.                                   *)
LEMMA CommitCloses ==
    ASSUME IInv, TargetInv, OwnerInv, NEW r \in Request, Commit(r)
    PROVE  Chains!Next
<1>0. /\ Closes(r) /\ UNCHANGED <<row, users, expired>>
      /\ stored' = stored \cup Inserts(r)
      /\ replaced' = replaced \cup Replaces(r)
      /\ revoked' = revoked \cup marked[r]
      /\ pc[r] \in {"commit", "commit_all"}
  BY CommitStep DEF Commit
<1>1. CASE new[r] \in Token
  <2> DEFINE n == new[r]
  <2>1. /\ pc[r] = "commit" /\ n \in Token /\ n # NoToken
        /\ row[n] \in Row /\ row[n].owner \in users
    BY <1>0, <1>1, NullsAreDistinct, Mapping DEF IInv, TypeOK, RequestInv
  <2>2. Inserts(r) = {n}
    BY <2>1 DEF Inserts
  <2>3. Replaces(r) = {row[n].parent} \cap Token
    BY <2>1, NullsAreDistinct DEF Replaces, Row
  <2>4. marked[r] = {}
    BY <1>1 DEF OwnerInv, OwnerOf, TargetInv
  <2>5. row[n].parent \in stored \cup {NoToken}
    BY <2>1, NullsAreDistinct DEF IInv, LineageInv, Row
  <2>6. Chain' = [Chain EXCEPT ![n] = Offered[n]]
    BY <1>0, <1>1, <2>2, Mapping DEF Chain
  <2>7. Offered' = [Offered EXCEPT ![n] = NoRow]
    BY <1>0, <1>1, EndsWithdraws
  <2>8. /\ Offered[n] = row[n] /\ row[n] # NoRow
        /\ Chains!Settled = stored
    BY <1>1, Mapping
  <2>9. Chains!Settle(n)
    BY <1>0, <2>1, <2>3, <2>4, <2>5, <2>6, <2>7, <2>8 DEF Chains!Settle
  <2> QED
    BY <2>1, <2>9 DEF Chains!Next
<1>2. CASE new[r] \notin Token
  <2>1. new[r] = NoToken
    BY <1>2 DEF IInv, TypeOK
  <2>2. stored' = stored /\ replaced' = replaced
    BY <1>0, <2>1 DEF Inserts, Replaces
  <2>3. Chain' = Chain /\ Offered' = Offered
    BY <1>0, <1>2, <2>2, EndsWithdraws DEF Chain
  <2>4. PICK u \in User : \A t \in targets[r] : row[t].owner = u
    BY <1>0 DEF OwnerInv, OwnerOf
  <2>5. marked[r] \subseteq Chains!OwnedBy(u)
    <3>1. marked[r] \subseteq targets[r] /\ marked[r] \subseteq stored
      BY DEF OwnerInv, OwnerOf, IInv, RequestInv
    <3> QED
      BY <2>4, <3>1, Mapping DEF Owned
  <2>6. Chains!Revoke(u, marked[r])
    BY <1>0, <2>2, <2>3, <2>5 DEF Chains!Revoke
  <2>7. marked[r] \in SUBSET Token
    BY DEF IInv, TypeOK
  <2> QED
    BY <2>6, <2>7 DEF Chains!Next
<1> QED
  BY <1>1, <1>2

LEMMA HardDeleteRemoves ==
    ASSUME IInv, NEW u \in User, HardDelete(u)
    PROVE  Chains!Next
<1>1. Chains!OwnedBy(u) = Owned(u)
  BY Mapping
<1>2. Chain' = [t \in Token |-> IF t \in Owned(u) THEN NoRow ELSE Chain[t]]
  BY DEF HardDelete, Chain
<1>3. Offered' = Offered
  BY DEF HardDelete, Offered
<1>4. Chains!RemoveUser(u)
  BY <1>1, <1>2, <1>3 DEF HardDelete, Chains!RemoveUser
<1> QED
  BY <1>4 DEF Chains!Next

LEMMA ExpireExpires ==
    ASSUME IInv, NEW t \in Token, Expire(t)
    PROVE  Chains!Next
<1>1. Chain' = Chain /\ Offered' = Offered
  BY DEF Expire, Chain, Offered
<1>2. Chains!Expire(t)
  BY <1>1, Mapping DEF Expire, Chains!Expire
<1> QED
  BY <1>2 DEF Chains!Next

LEMMA RefinementStep ==
    ASSUME IInv, TargetInv, OwnerInv, [Next]_vars
    PROVE  [Chains!Next]_(Chains!chainVars)
<1>1. CASE UNCHANGED <<users, stored, row, new, revoked, replaced, expired>>
  BY <1>1 DEF Chain, Offered, Chains!chainVars
<1>2. ASSUME NEW r \in Request,
             \/ InsertToken(r) \/ Rotate(r) \/ AnswerReuse(r)
             \/ ReuseSelect(r) \/ UpdateRevoked(r)
             \/ \E u \in User : LogoutAllSelect(r, u)
             \/ \E t \in Token : ReuseRead(r, t) \/ LogoutRead(r, t)
      PROVE  UNCHANGED <<users, stored, row, new, revoked, replaced, expired>>
  BY <1>2 DEF InsertToken, Rotate, AnswerReuse, ReuseSelect, UpdateRevoked,
              LogoutAllSelect, ReuseRead, LogoutRead, table
<1>3. CASE UNCHANGED vars
  BY <1>1, <1>3 DEF vars
<1> QED
  BY <1>1, <1>2, <1>3, LoginOffers, RefreshOffers, RollbackWithdraws,
     CommitCloses, HardDeleteRemoves, ExpireExpires
     DEF Next, Receive, Advance, Environment

(* RefreshSessions implements TokenChains: behind statements, row locks,   *)
(* rollbacks and cascades, every session is a chain of single-use tokens.  *)
THEOREM Refinement == Spec => ImplementsChains
<1>1. Init => Chains!Init
  BY DEF Init, Chains!Init, Chain, Offered
<1>2. Init => TargetInv /\ OwnerInv
  BY NullsAreDistinct DEF Init, TargetInv, OwnerInv, OwnerOf
<1>3. IInv /\ TargetInv /\ OwnerInv /\ [Next]_vars =>
        TargetInv' /\ OwnerInv' /\ [Chains!Next]_(Chains!chainVars)
  BY TargetStep, OwnerStep, RefinementStep
<1> QED
  BY <1>1, <1>2, <1>3, Invariance, PTL DEF Spec, ImplementsChains, Chains!Spec
=============================================================================
