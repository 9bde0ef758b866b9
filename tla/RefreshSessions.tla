---------------------------- MODULE RefreshSessions ----------------------------
(***************************************************************************)
(* Refresh-token sessions: TokenService and the AuthManager methods that   *)
(* open its transactions, over the auth.refresh_tokens table.              *)
(*                                                                         *)
(* Every AuthManager method runs in one PostgreSQL transaction at READ     *)
(* COMMITTED.  A request is a sequence of statements; each statement sees  *)
(* the rows committed so far, an UPDATE waits for the row locks of other   *)
(* transactions and then looks at the row again, and nothing a transaction *)
(* wrote is visible before its commit.  An exception rolls it back.        *)
(*                                                                         *)
(* What a transaction has written and not committed is Inserts, Replaces   *)
(* and marked below, a function of how far it has come.                    *)
(***************************************************************************)

CONSTANTS
    User,       \* rows of auth.users, by id
    Token,      \* refresh tokens (a JWT and its hash are the same thing here)
    Request,    \* slots for requests being handled at the same time
    NoToken,    \* NULL in parent_token_hash
    NoRow       \* a token that has no row, committed or not

(* The columns of refresh_tokens that never change.  A family is named by  *)
(* the token it started from: both ids are drawn together in create_tokens.*)
Row == [owner : User, family : Token, parent : Token \cup {NoToken}]

ASSUME NullsAreDistinct == NoToken \notin Token /\ NoRow \notin Row

VARIABLES
    users,      \* ids of the user rows that exist
    stored,     \* committed rows of refresh_tokens
    row,        \* row[t]: the columns of t, once some transaction has drawn t
    revoked,    \* tokens whose committed revoked_at is set
    replaced,   \* tokens whose committed replaced_at is set
    expired,    \* tokens whose JWT and expires_at have passed
    pc,         \* pc[r]: the next statement of request r
    new,        \* new[r]: the token that r inserts
    targets,    \* targets[r]: the rows that r's UPDATE of revoked_at selects
    marked      \* marked[r]: the rows it has updated

vars ==
    <<users, stored, row, revoked, replaced, expired, pc, new, targets, marked>>
table == <<users, stored, revoked, replaced, expired>>

Statement == {"idle", "login", "rotate", "insert", "mark", "reuse",
              "revoke_family", "raise", "sweep", "commit", "commit_all",
              "reuse_reported"}

TypeOK ==
    /\ users \subseteq User
    /\ stored \subseteq Token
    /\ row \in [Token -> Row \cup {NoRow}]
    /\ revoked \subseteq Token
    /\ replaced \subseteq Token
    /\ expired \subseteq Token
    /\ pc \in [Request -> Statement]
    /\ new \in [Request -> Token \cup {NoToken}]
    /\ targets \in [Request -> SUBSET Token]
    /\ marked \in [Request -> SUBSET Token]

Init ==
    /\ users = User
    /\ stored = {}
    /\ row = [t \in Token |-> NoRow]
    /\ revoked = {}
    /\ replaced = {}
    /\ expired = {}
    /\ pc = [r \in Request |-> "idle"]
    /\ new = [r \in Request |-> NoToken]
    /\ targets = [r \in Request |-> {}]
    /\ marked = [r \in Request |-> {}]

-----------------------------------------------------------------------------
(* Uncommitted writes, the row locks they hold, and READ COMMITTED.        *)

Inserts(r) == IF pc[r] = "commit" /\ new[r] # NoToken THEN {new[r]} ELSE {}

(* Mutant: replaced_at is never written.                                   *)
ReplacesNothing(r) == {}

Replaces(r) ==
    IF /\ pc[r] \in {"insert", "commit"}
       /\ new[r] # NoToken
       /\ row[new[r]].parent # NoToken
    THEN {row[new[r]].parent}
    ELSE {}

Locks(r) == Replaces(r) \cup marked[r]

Blocked(r, S) == \E o \in Request \ {r} : Locks(o) \cap S # {}

(* uuid4: a token that nobody has drawn; Token bounds how many there are.  *)
Draw(r, n, columns) ==
    /\ row[n] = NoRow
    /\ row' = [row EXCEPT ![n] = columns]
    /\ new' = [new EXCEPT ![r] = n]

Goto(r, statement) == pc' = [pc EXCEPT ![r] = statement]

(* The end of the request's transaction, and of everything it held.        *)
Close(r, statement) ==
    /\ Goto(r, statement)
    /\ new' = [new EXCEPT ![r] = NoToken]
    /\ targets' = [targets EXCEPT ![r] = {}]
    /\ marked' = [marked EXCEPT ![r] = {}]

Rollback(r, statement) ==
    /\ Close(r, statement)
    /\ row' = [t \in Token |-> IF t = new[r] THEN NoRow ELSE row[t]]
    /\ UNCHANGED table

-----------------------------------------------------------------------------
(* Login: _create_tokens reads the user, then create_tokens inserts.       *)

(* Mutant: create_tokens forgets to draw a family id.                      *)
LoginReadNoFamily(r, u) ==
    /\ pc[r] = "idle"
    /\ u \in users
    /\ \E n \in Token :
         Draw(r, n, [owner |-> u, family |-> NoToken, parent |-> NoToken])
    /\ Goto(r, "login")
    /\ UNCHANGED <<table, targets, marked>>

LoginRead(r, u) ==
    /\ pc[r] = "idle"
    /\ u \in users
    /\ \E n \in Token :
         Draw(r, n, [owner |-> u, family |-> n, parent |-> NoToken])
    /\ Goto(r, "login")
    /\ UNCHANGED <<table, targets, marked>>

(* Mutant: user_id without its foreign key.                                *)
OwnerNotChecked(r) == row[new[r]].owner \in User

OwnerExists(r) == row[new[r]].owner \in users

(* The INSERT of a token row, by create_tokens or by refresh_tokens.  The  *)
(* foreign key on user_id refuses it when the user is gone.                *)
InsertToken(r) ==
    /\ pc[r] \in {"login", "insert"}
    /\ OwnerExists(r)
    /\ Goto(r, "commit")
    /\ UNCHANGED <<table, row, new, targets, marked>>

ForeignKeyError(r) ==
    /\ pc[r] \in {"login", "insert"}
    /\ ~OwnerExists(r)
    /\ Rollback(r, "idle")

-----------------------------------------------------------------------------
(* Refresh.  A token that is expired, unknown or revoked is refused with   *)
(* no effect; otherwise the replaced_at just read decides the branch.      *)

(* Mutant: refresh_tokens does not look at revoked_at.                     *)
PresentableIfRevoked(t) == t \in stored /\ t \notin expired

Presentable(t) == t \in stored /\ t \notin revoked /\ t \notin expired

(* Mutant: refresh_tokens does not look at replaced_at.                    *)
RefreshReadIfReplaced(r, t) ==
    /\ pc[r] = "idle"
    /\ Presentable(t)
    /\ \E n \in Token :
         Draw(r, n, [owner |-> row[t].owner, family |-> row[t].family,
                     parent |-> t])
    /\ Goto(r, "rotate")
    /\ UNCHANGED <<table, targets, marked>>

RefreshRead(r, t) ==
    /\ pc[r] = "idle"
    /\ Presentable(t)
    /\ t \notin replaced
    /\ \E n \in Token :
         Draw(r, n, [owner |-> row[t].owner, family |-> row[t].family,
                     parent |-> t])
    /\ Goto(r, "rotate")
    /\ UNCHANGED <<table, targets, marked>>

(* Mutant: the update is committed before the child is inserted.           *)
RotateAndCommit(r) ==
    /\ pc[r] = "rotate"
    /\ ~Blocked(r, {row[new[r]].parent})
    /\ replaced' = replaced \cup ({row[new[r]].parent} \cap stored)
    /\ Goto(r, "insert")
    /\ UNCHANGED <<users, stored, revoked, expired, row, new, targets, marked>>

(* UPDATE ... SET replaced_at WHERE id: waits for the row, never looks at  *)
(* replaced_at or revoked_at again, and does not mind a row that is gone.  *)
Rotate(r) ==
    /\ pc[r] = "rotate"
    /\ ~Blocked(r, {row[new[r]].parent})
    /\ Goto(r, "insert")
    /\ UNCHANGED <<table, row, new, targets, marked>>

ReuseRead(r, t) ==
    /\ pc[r] = "idle"
    /\ Presentable(t)
    /\ t \in replaced
    /\ Goto(r, "reuse")
    /\ targets' = [targets EXCEPT ![r] = {t}]
    /\ UNCHANGED <<table, row, new, marked>>

Family(f) == {t \in stored : row[t].family = f}

(* revoke_family begins: its snapshot selects the rows it will update.     *)
ReuseSelect(r) ==
    /\ pc[r] = "reuse"
    /\ \E t \in targets[r] :
         targets' = [targets EXCEPT ![r] = Family(row[t].family) \ revoked]
    /\ Goto(r, "revoke_family")
    /\ UNCHANGED <<table, row, new, marked>>

(* raise InvalidTokenError: DatabaseSession.session rolls back.            *)
RaiseReuse(r) ==
    /\ pc[r] = "raise"
    /\ Rollback(r, "reuse_reported")

AnswerReuse(r) ==
    /\ pc[r] = "reuse_reported"
    /\ Goto(r, "idle")
    /\ UNCHANGED <<table, row, new, targets, marked>>

-----------------------------------------------------------------------------
(* Logout (revoke_token) and logout-all (revoke_all_user_tokens).          *)

LogoutRead(r, t) ==
    /\ pc[r] = "idle"
    /\ t \in stored \ revoked
    /\ Goto(r, "mark")
    /\ targets' = [targets EXCEPT ![r] = {t}]
    /\ UNCHANGED <<table, row, new, marked>>

Owned(u) == {t \in stored : row[t].owner = u}

LogoutAllSelect(r, u) ==
    /\ pc[r] = "idle"
    /\ Goto(r, "sweep")
    /\ targets' = [targets EXCEPT ![r] = Owned(u) \ revoked]
    /\ UNCHANGED <<table, row, new, marked>>

(* Mutant: the update passes over rows that changed while it waited.       *)
FoundIfActive(r) == (targets[r] \cap stored) \ (revoked \cup replaced)

(* The rows of targets[r] that the UPDATE still finds once it holds their  *)
(* locks: revoke_token selects by id alone, the others repeat "revoked_at  *)
(* IS NULL".                                                               *)
Found(r) ==
    IF pc[r] = "mark" THEN targets[r] \cap stored
                      ELSE (targets[r] \cap stored) \ revoked

(* Mutant: the reuse is answered without an exception, and commits.        *)
AfterUpdateCommitted(r) == IF pc[r] = "sweep" THEN "commit_all" ELSE "commit"

AfterUpdate(r) ==
    IF pc[r] = "mark" THEN "commit"
    ELSE IF pc[r] = "sweep" THEN "commit_all" ELSE "raise"

UpdateRevoked(r) ==
    /\ pc[r] \in {"mark", "sweep", "revoke_family"}
    /\ ~Blocked(r, targets[r])
    /\ marked' = [marked EXCEPT ![r] = Found(r)]
    /\ Goto(r, AfterUpdate(r))
    /\ UNCHANGED <<table, row, new, targets>>

-----------------------------------------------------------------------------
(* The end of a transaction.                                               *)

Commit(r) ==
    /\ pc[r] \in {"commit", "commit_all"}
    /\ stored' = stored \cup Inserts(r)
    /\ replaced' = replaced \cup Replaces(r)
    /\ revoked' = revoked \cup marked[r]
    /\ Close(r, "idle")
    /\ UNCHANGED <<users, row, expired>>

(* The process dies, the connection drops, or a statement fails.           *)
Abort(r) ==
    /\ pc[r] \notin {"idle", "reuse_reported"}
    /\ Rollback(r, "idle")

-----------------------------------------------------------------------------
(* The world around the requests.                                          *)

Expire(t) ==
    /\ t \in stored \ expired
    /\ expired' = expired \cup {t}
    /\ UNCHANGED <<users, stored, row, revoked, replaced, pc, new, targets, marked>>

(* DELETE FROM users, of the cleanup loop: the cascade takes the user's    *)
(* tokens, and waits for their row locks and for the key-share lock that   *)
(* an uncommitted INSERT holds on the user.                                *)
HardDelete(u) ==
    /\ u \in users
    /\ \A r \in Request : \A t \in Locks(r) \cup Inserts(r) : row[t].owner # u
    /\ users' = users \ {u}
    /\ stored' = stored \ Owned(u)
    /\ revoked' = revoked \ Owned(u)
    /\ replaced' = replaced \ Owned(u)
    /\ expired' = expired \ Owned(u)
    /\ UNCHANGED <<row, pc, new, targets, marked>>

-----------------------------------------------------------------------------
Receive(r) ==
    \/ \E u \in User : LoginRead(r, u) \/ LogoutAllSelect(r, u)
    \/ \E t \in Token : RefreshRead(r, t) \/ ReuseRead(r, t) \/ LogoutRead(r, t)

Advance(r) ==
    \/ InsertToken(r)
    \/ ForeignKeyError(r)
    \/ Rotate(r)
    \/ ReuseSelect(r)
    \/ UpdateRevoked(r)
    \/ RaiseReuse(r)
    \/ AnswerReuse(r)
    \/ Commit(r)

Environment ==
    \/ \E r \in Request : Abort(r)
    \/ \E t \in Token : Expire(t)
    \/ \E u \in User : HardDelete(u)

Next == (\E r \in Request : Receive(r) \/ Advance(r)) \/ Environment

Spec == Init /\ [][Next]_vars

-----------------------------------------------------------------------------
(* What the sessions promise.                                              *)

Children(t) == {c \in stored : row[c].parent = t}

(* A rotation is all or nothing (token_service.py:159-186 in one           *)
(* transaction): a stored child means that its parent's replacement is     *)
(* stored and that both are of one family and one user; a stored token     *)
(* marked replaced has a stored successor, whatever failed in between.     *)
RotationIsAtomic ==
    /\ \A t \in stored, p \in Token :
         row[t].parent = p => /\ p \in stored \cap replaced
                              /\ row[p].family = row[t].family
                              /\ row[p].owner = row[t].owner
    /\ \A t \in stored \cap replaced : Children(t) # {}

(* No session outlives its account: the cascade of a hard delete and the   *)
(* logins and refreshes that run beside it leave no token without a user   *)
(* (refresh_token.py:26-31, repository.py:101-112).                        *)
SessionsHaveUsers == \A t \in stored : row[t].owner \in users

Rotating(t) == \E r \in Request : new[r] # NoToken /\ row[new[r]].parent = t

Spent(t) ==
    /\ row[t] # NoRow
    /\ t \in stored => t \in replaced \cup revoked \cup expired
    /\ ~Rotating(t) /\ \A r \in Request : new[r] # t

(* Once a token is replaced, revoked or expired, and no refresh that read  *)
(* it before is still running, no request ever rotates it again and it has *)
(* no further child (token_service.py:121-146).                            *)
SpentTokenStaysSpent ==
    [][\A t \in Token :
         Spent(t) => Spent(t)' /\ Children(t)' \subseteq Children(t)]_vars

Growing(f) == \E r \in Request : new[r] # NoToken /\ row[new[r]].family = f

DeadFamily(f) ==
    /\ row[f] # NoRow /\ row[f].family = f
    /\ ~Growing(f)
    /\ Family(f) \subseteq revoked

(* A family whose tokens are all revoked is over: nobody who holds any of  *)
(* them, in any order of requests, gets the family a token that works      *)
(* (token_service.py:137-146).                                             *)
DeadFamilyStaysDead ==
    [][\A f \in Token : DeadFamily(f) => DeadFamily(f)']_vars

Forked(f) == \E t \in Family(f) : \E c, d \in Children(t) : c # d

Leaves(f) == Family(f) \ replaced

(* A family has one token that can be exchanged at a time.  There are two  *)
(* only after two refreshes of one token overlapped and both committed:    *)
(* without that, who presents a second one has copied it                   *)
(* (token_service.py:104-113, 140-142).                                    *)
OneLeafUnlessForked ==
    \A f \in Token : ~Forked(f) => \A a, b \in Leaves(f) : a = b

(* A logout or logout-all that answers has revoked every token it found    *)
(* when it began, also those whose rows other requests had locked          *)
(* (repository.py:342-353, token_service.py:194-205).                      *)
LogoutRevokesWhatItFound ==
    [][\A r \in Request :
         Commit(r) => targets[r] \cap stored' \subseteq revoked']_vars

(* To those who hold tokens the transactions look like atomic steps: what  *)
(* a request has drawn is an offer, its commit settles the offer, and any  *)
(* other end withdraws it (db/session.py:62-77).                           *)
Chain == [t \in Token |-> IF t \in stored THEN row[t] ELSE NoRow]

Offered ==
    [t \in Token |-> IF \E r \in Request : new[r] = t THEN row[t] ELSE NoRow]

Chains == INSTANCE TokenChains WITH
    chain <- Chain, offered <- Offered, spent <- replaced

ImplementsChains == Chains!Spec

(* What the code does and its answer denies: a session that works ends by  *)
(* its own exchange or logout, its owner's logout-all, its expiry or the   *)
(* removal of its account.  The replay of a token spent before it, however *)
(* often and beside whatever else, ends none, since the exception rolls    *)
(* back revoke_family (token_service.py:142-146, db/session.py:73-75).     *)
Live(t) == t \in stored \ (revoked \cup replaced \cup expired)

Ends(r, t) ==
    \/ Replaces(r) = {t}
    \/ pc[r] = "commit" /\ targets[r] = {t}
    \/ pc[r] = "commit_all" /\ t \in targets[r]

SessionsEndByTheirOwners ==
    [][\A t \in Token : Live(t) /\ ~Live(t)' =>
         \/ t \in expired' \/ row[t].owner \notin users'
         \/ \E r \in Request : Ends(r, t) /\ Commit(r)]_vars
=============================================================================
