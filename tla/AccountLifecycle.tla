--------------------------- MODULE AccountLifecycle ---------------------------
(***************************************************************************)
(* An account from its registration to its removal: bootstrap, setup,      *)
(* login, recovery, the administrator's operations and the cleanup loop.   *)
(*                                                                         *)
(* A request is a sequence of statements, at READ COMMITTED as in          *)
(* RefreshSessions.  One that only reads a row and then updates it by id   *)
(* has two steps, and what it read may be stale by the second; an UPDATE   *)
(* holds its row until the transaction ends.  Tokens that the server does  *)
(* not store (setup and pre-auth JWTs) are good until they expire.         *)
(* Whether refresh tokens are live is kept per user: how requests on them  *)
(* overlap is RefreshSessions.                                             *)
(***************************************************************************)

CONSTANTS
    User,           \* ids of accounts
    Request,        \* slots for requests being handled at the same time
    NoAccount,      \* no row in auth.users
    NoUser          \* the user of a slot that handles no request

Account == [super : BOOLEAN, active : BOOLEAN, deleted : BOOLEAN,
            expiry : {"never", "later", "past"}]

ASSUME AccountAssumption ==
    /\ NoAccount \notin Account
    /\ NoUser \notin User

VARIABLES
    staffed,        \* an active superuser exists besides the accounts of User
    account,        \* account[u]: the committed row of u
    totp,           \* totp[u]: its row in totp_secrets
    live,           \* live[u]: u has a refresh token that works
    setupToken,     \* setupToken[u]: somebody holds a valid setup token for u
    sessionToken,   \* sessionToken[u]: or a pre-auth token
    task            \* task[r]: a request and how far it has come

vars == <<staffed, account, totp, live, setupToken, sessionToken, task>>
rows == <<staffed, account, totp, live>>
tokens == <<setupToken, sessionToken>>

Operation == {"none", "login", "setup", "totp_login", "recover", "reset",
              "resend", "delete", "bootstrap"}
Task == [op : Operation, at : {"start", "read", "written", "revoke", "commit"},
         user : User \cup {NoUser}, saw : Account \cup {NoAccount},
         holds : SUBSET {"user", "totp"}]

TypeOK ==
    /\ staffed \in BOOLEAN
    /\ account \in [User -> Account \cup {NoAccount}]
    /\ totp \in [User -> {"none", "pending", "verified"}]
    /\ live \in [User -> BOOLEAN]
    /\ setupToken \in [User -> BOOLEAN]
    /\ sessionToken \in [User -> BOOLEAN]
    /\ task \in [Request -> Task]
    /\ \A u \in User : account[u] # NoAccount /\ account[u].deleted =>
                         ~account[u].super

Idle == [op |-> "none", at |-> "start", user |-> NoUser, saw |-> NoAccount,
         holds |-> {}]

(* Either the installation is new, or somebody has bootstrapped it before. *)
Init ==
    /\ staffed \in BOOLEAN
    /\ account = [u \in User |-> NoAccount]
    /\ totp = [u \in User |-> "none"]
    /\ live = [u \in User |-> FALSE]
    /\ setupToken = [u \in User |-> FALSE]
    /\ sessionToken = [u \in User |-> FALSE]
    /\ task = [r \in Request |-> Idle]

Exists(u) == account[u] # NoAccount
Active(u) == Exists(u) /\ account[u].active /\ ~account[u].deleted
Unlocked(u, row) ==
    \A r \in Request : task[r].user = u => row \notin task[r].holds

(* A uuid is drawn once: the id of an account that was removed names no    *)
(* other account as long as a request or a token refers to it.             *)
Fresh(u) ==
    /\ ~Exists(u) /\ ~setupToken[u] /\ ~sessionToken[u]
    /\ \A r \in Request : task[r].user # u

(* require_superuser; and get_current_user for the rest, since             *)
(* require_permission refuses nobody.                                      *)
AdminPresent == staffed \/ \E s \in User : Active(s) /\ account[s].super
UserPresent == staffed \/ \E s \in User : Active(s)

(* saw: what of the users row the request goes by later, if anything.      *)
Begin(r, op, at, u, saw, holds) ==
    /\ task[r] = Idle
    /\ task' = [task EXCEPT ![r] = [op |-> op, at |-> at, user |-> u,
                                    saw |-> saw, holds |-> holds]]
    /\ UNCHANGED <<rows, tokens>>

At(r, op, at) == task[r].op = op /\ task[r].at = at
Move(r, at, saw, holds) ==
    task' = [task EXCEPT ![r] = [op |-> task[r].op, at |-> at,
                                 user |-> task[r].user, saw |-> saw,
                                 holds |-> holds]]
End(r) == task' = [task EXCEPT ![r] = Idle]

-----------------------------------------------------------------------------
(* Where accounts come from.                                               *)

NewAccount(super) == [super |-> super, active |-> FALSE, deleted |-> FALSE,
                      expiry |-> "later"]

(* POST /register: row and expiry in one transaction.                      *)
Register(u) ==
    /\ UserPresent
    /\ Fresh(u)
    /\ account' = [account EXCEPT ![u] = NewAccount(FALSE)]
    /\ UNCHANGED <<staffed, totp, live, tokens, task>>

(* create_superuser counts the committed users...                          *)
BootstrapCount(r, u) ==
    /\ ~staffed
    /\ \A x \in User : ~Exists(x)
    /\ Fresh(u)
    /\ Begin(r, "bootstrap", "read", u, NoAccount, {})

(* ...and inserts: the unique email refuses only a second row with it.     *)
BootstrapInsert(r) ==
    LET u == task[r].user IN
    /\ At(r, "bootstrap", "read")
    /\ account' = [account EXCEPT ![u] = NewAccount(TRUE)]
    /\ setupToken' = [setupToken EXCEPT ![u] = TRUE]
    /\ End(r)
    /\ UNCHANGED <<staffed, totp, live, sessionToken>>

-----------------------------------------------------------------------------
(* Login, step 1: verify_credentials reads the user and resets its failed  *)
(* attempts; the answer is decided on what it read, and on the TOTP row    *)
(* that a second transaction reads.                                        *)

LoginRead(r, u) ==
    /\ Exists(u) /\ ~account[u].deleted
    /\ Begin(r, "login", "read", u, account[u], {})

LoginAnswer(r) ==
    LET u == task[r].user
        saw == task[r].saw
        setup == ~saw.active \/ totp[u] # "verified"
    IN
    /\ At(r, "login", "read")
    /\ Unlocked(u, "user")
    /\ saw.active \/ saw.expiry # "past"
    /\ setupToken' = [setupToken EXCEPT ![u] = @ \/ setup]
    /\ sessionToken' = [sessionToken EXCEPT ![u] = @ \/ ~setup]
    /\ End(r)
    /\ UNCHANGED rows

(* Login, step 2: verify_login_totp reads the TOTP row, then updates       *)
(* last_login and inserts a refresh token.                                 *)
TotpLoginRead(r, u) ==
    /\ sessionToken[u]
    /\ totp[u] = "verified"
    /\ Begin(r, "totp_login", "read", u, NoAccount, {})

-----------------------------------------------------------------------------
(* Setup: enrolment of TOTP, then complete_setup.                          *)

(* Mutant: the setup token is believed, and nobody looks up its user.      *)
MayEnrollByToken(u) == setupToken[u]

MayEnroll(u) == Exists(u) /\ (setupToken[u] \/ account[u].active)

EnableTotp(u) ==
    /\ MayEnroll(u)
    /\ totp[u] # "verified"
    /\ Unlocked(u, "totp")
    /\ totp' = [totp EXCEPT ![u] = "pending"]
    /\ UNCHANGED <<staffed, account, live, tokens, task>>

VerifyTotp(u) ==
    /\ MayEnroll(u)
    /\ totp[u] = "pending"
    /\ Unlocked(u, "totp")
    /\ totp' = [totp EXCEPT ![u] = "verified"]
    /\ UNCHANGED <<staffed, account, live, tokens, task>>

DisableTotp(u) ==
    /\ Active(u)
    /\ totp[u] = "verified"
    /\ Unlocked(u, "totp")
    /\ totp' = [totp EXCEPT ![u] = "none"]
    /\ UNCHANGED <<staffed, account, live, tokens, task>>

(* complete_setup: is TOTP verified...                                     *)
SetupCheckTotp(r, u) ==
    /\ setupToken[u] /\ Exists(u)
    /\ totp[u] = "verified"
    /\ Begin(r, "setup", "start", u, NoAccount, {})

(* ...and is the user active?                                              *)
SetupReadUser(r) ==
    /\ At(r, "setup", "start")
    /\ Exists(task[r].user)
    /\ Move(r, "read", account[task[r].user], {})
    /\ UNCHANGED <<rows, tokens>>

(* A backup code: only superusers have any.  Consuming it locks the TOTP   *)
(* row, which recover_with_backup_code then deletes.                       *)
RecoverRead(r, u) ==
    /\ sessionToken[u] /\ Exists(u)
    /\ totp[u] = "verified" /\ account[u].super
    /\ Unlocked(u, "totp")
    /\ Begin(r, "recover", "read", u, NoAccount, {"totp"})

-----------------------------------------------------------------------------
(* The administrator.                                                      *)

(* Mutant: the superuser check of reset_user_auth and delete_user is gone. *)
AdminReadAnyone(r, op, u) ==
    /\ AdminPresent
    /\ Exists(u)
    /\ Begin(r, op, "read", u, NoAccount, {})

(* reset_user_auth, resend_welcome, delete_user: none of them touches a    *)
(* superuser.                                                              *)
AdminRead(r, op, u) ==
    /\ AdminPresent
    /\ Exists(u) /\ ~account[u].super
    /\ Begin(r, op, "read", u, NoAccount, {})

(* PATCH /users/{id}: is_active alone, whatever else the row says.         *)
AdminSetActive(u, active) ==
    /\ AdminPresent
    /\ Exists(u)
    /\ ~active => ~account[u].super
    /\ Unlocked(u, "user")
    /\ account' = [account EXCEPT ![u].active = active]
    /\ UNCHANGED <<staffed, totp, live, tokens, task>>

-----------------------------------------------------------------------------
(* The UPDATE of the users row, and what follows it.                       *)

After(op) == IF op \in {"reset", "delete"} THEN "written" ELSE "commit"

UpdateUser(r) ==
    /\ task[r].op \notin {"none", "login", "bootstrap"} /\ task[r].at = "read"
    /\ Exists(task[r].user)
    /\ Unlocked(task[r].user, "user")
    /\ Move(r, After(task[r].op), task[r].saw, task[r].holds \cup {"user"})
    /\ UNCHANGED <<rows, tokens>>

(* reset_user_auth deletes the TOTP row in the same transaction.           *)
ResetTotp(r) ==
    /\ At(r, "reset", "written")
    /\ Unlocked(task[r].user, "totp")
    /\ Move(r, "commit", task[r].saw, task[r].holds \cup {"totp"})
    /\ UNCHANGED <<rows, tokens>>

(* delete_user revokes in a transaction of its own, inside the other one.  *)
DeleteRevokes(r) ==
    /\ At(r, "delete", "written")
    /\ live' = [live EXCEPT ![task[r].user] = FALSE]
    /\ Move(r, "commit", task[r].saw, task[r].holds)
    /\ UNCHANGED <<staffed, account, totp, tokens>>

(* The users row as the transaction leaves it.                             *)
Written(r) ==
    LET a == account[task[r].user]
        inactive == [a EXCEPT !.active = FALSE, !.expiry = "later"]
    IN CASE task[r].op = "setup" ->
              IF task[r].saw.active THEN a
              ELSE [a EXCEPT !.active = TRUE, !.expiry = "never"]
         [] task[r].op \in {"recover", "reset", "resend"} -> inactive
         [] task[r].op = "delete" -> [a EXCEPT !.active = FALSE, !.deleted = TRUE]
         [] OTHER -> a

Commit(r) ==
    LET u == task[r].user
        op == task[r].op
    IN
    /\ task[r].at = "commit"
    /\ account' = [account EXCEPT ![u] = Written(r)]
    /\ totp' = [totp EXCEPT ![u] = IF "totp" \in task[r].holds THEN "none" ELSE @]
    /\ live' = [live EXCEPT ![u] = @ \/ op \in {"setup", "totp_login"}]
    /\ setupToken' = [setupToken EXCEPT ![u] = @ \/ op = "recover"]
    /\ IF op = "reset" THEN Move(r, "revoke", task[r].saw, {}) ELSE End(r)
    /\ UNCHANGED <<staffed, sessionToken>>

(* reset_user_auth revokes after its transaction, in another one.          *)
ResetRevokes(r) ==
    /\ At(r, "reset", "revoke")
    /\ live' = [live EXCEPT ![task[r].user] = FALSE]
    /\ End(r)
    /\ UNCHANGED <<staffed, account, totp, tokens>>

(* An error, a crash, or the deadlock detector: rollback, wherever it is.  *)
Abort(r) ==
    /\ task[r] # Idle
    /\ End(r)
    /\ UNCHANGED <<rows, tokens>>

-----------------------------------------------------------------------------
(* Time, and the cleanup loop of main.py.                                  *)

Elapse(u) ==
    /\ Exists(u) /\ account[u].expiry = "later"
    /\ account' = [account EXCEPT ![u].expiry = "past"]
    /\ UNCHANGED <<staffed, totp, live, tokens, task>>

TokensExpire(u) ==
    /\ setupToken' = [setupToken EXCEPT ![u] = FALSE]
    /\ sessionToken' = [sessionToken EXCEPT ![u] = FALSE]
    /\ UNCHANGED <<rows, task>>

SessionsEnd(u) ==
    /\ live' = [live EXCEPT ![u] = FALSE]
    /\ UNCHANGED <<staffed, account, totp, tokens, task>>

(* Mutant: the comparison with the clock is the wrong way round.           *)
CleanupUnexpired(u) ==
    /\ Exists(u) /\ ~account[u].active /\ account[u].expiry = "later"
    /\ Unlocked(u, "user") /\ Unlocked(u, "totp")
    /\ account' = [account EXCEPT ![u] = NoAccount]
    /\ totp' = [totp EXCEPT ![u] = "none"]
    /\ live' = [live EXCEPT ![u] = FALSE]
    /\ UNCHANGED <<staffed, tokens, task>>

(* hard_delete_expired_inactive, and the cascades.                         *)
Cleanup(u) ==
    /\ Exists(u) /\ ~account[u].active /\ account[u].expiry = "past"
    /\ Unlocked(u, "user") /\ Unlocked(u, "totp")
    /\ account' = [account EXCEPT ![u] = NoAccount]
    /\ totp' = [totp EXCEPT ![u] = "none"]
    /\ live' = [live EXCEPT ![u] = FALSE]
    /\ UNCHANGED <<staffed, tokens, task>>

-----------------------------------------------------------------------------
Receive(r, u) ==
    \/ BootstrapCount(r, u)
    \/ LoginRead(r, u) \/ TotpLoginRead(r, u)
    \/ SetupCheckTotp(r, u) \/ RecoverRead(r, u)
    \/ \E op \in {"reset", "resend", "delete"} : AdminRead(r, op, u)

Advance(r) ==
    \/ BootstrapInsert(r) \/ LoginAnswer(r) \/ SetupReadUser(r)
    \/ UpdateUser(r) \/ ResetTotp(r) \/ DeleteRevokes(r)
    \/ Commit(r) \/ ResetRevokes(r)

Single(u) ==
    \/ Register(u) \/ EnableTotp(u) \/ VerifyTotp(u) \/ DisableTotp(u)
    \/ \E active \in BOOLEAN : AdminSetActive(u, active)

Time(u) == Elapse(u) \/ TokensExpire(u) \/ SessionsEnd(u) \/ Cleanup(u)

Next ==
    \/ \E r \in Request : Advance(r) \/ Abort(r)
    \/ \E r \in Request, u \in User : Receive(r, u)
    \/ \E u \in User : Single(u) \/ Time(u)

Spec == Init /\ [][Next]_vars

(* Time passes, and the cleanup loop comes round again and again: it finds *)
(* the row unlocked now and then, as every request ends.                   *)
FairSpec ==
    /\ Spec
    /\ \A u \in User : WF_vars(Elapse(u)) /\ SF_vars(Cleanup(u))
    /\ \A r \in Request : WF_vars(Advance(r) \/ Abort(r))

-----------------------------------------------------------------------------
(* No operation of an administrator deactivates or removes a superuser who *)
(* is active; only the superuser's own recovery deactivates the account    *)
(* (user_service.py:302-306, 337-338, api.py:917-921, 963-966).            *)
SuperusersStay ==
    [][\A u \in User : Active(u) /\ account[u].super =>
         \/ Exists(u)' /\ account'[u].active /\ ~account'[u].deleted
         \/ \E r \in Request : /\ task[r].op = "recover" /\ task[r].user = u
                               /\ Commit(r)]_vars

(* Nothing is left or made for an account that is gone: no enrolment and   *)
(* no session, whatever was under way when cleanup took it                 *)
(* (repository.py:101-112 and the cascades of its rows).                   *)
NothingWithoutAccount ==
    \A u \in User : ~Exists(u) => totp[u] = "none" /\ ~live[u]

(* An account that nobody sets up goes away by itself, or somebody deals   *)
(* with it again and again (main.py:31-39).                                *)
Abandoned(u) == Exists(u) /\ ~account[u].active /\ account[u].expiry # "never"
Renewed(u) == \E r \in Request : task[r].user = u
                                 /\ task[r].op \in {"reset", "resend", "recover"}
AbandonedAccountsGo ==
    \A u \in User : (<>[]~Renewed(u)) => (Abandoned(u) ~> ~Abandoned(u))
=============================================================================
