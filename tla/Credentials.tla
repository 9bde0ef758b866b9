------------------------------ MODULE Credentials ------------------------------
(***************************************************************************)
(* The password and the e-mail address of one account: login with its      *)
(* lockout counter, change, reset by a mailed link, assignment by an       *)
(* administrator or by the first setup, change and verification of the     *)
(* address.  The account exists and is not deleted: its life is the module *)
(* AccountLifecycle's, and the sessions a reset revokes RefreshSessions'.  *)
(*                                                                         *)
(* Every request has one READ COMMITTED transaction.  It reads the row,    *)
(* hashes or decides, updates its own columns by id, which waits for the   *)
(* row lock, and commits.  A refusal that wrote nothing is no step.        *)
(***************************************************************************)
EXTENDS Naturals

CONSTANTS
    Password,
    Address,
    Request,    \* slots for requests being handled at the same time
    MaxResets,  \* bound on password_reset_version
    Threshold,  \* auth_lockout_threshold
    None

ASSUME CredentialAssumption ==
    /\ MaxResets \in Nat /\ Threshold \in Nat
    /\ None \notin Password \cup Address \cup Nat

Version == 0 .. MaxResets

Account ==
    [password : Password, version : Version, address : Address,
     verified : BOOLEAN, failed : Nat, locked : BOOLEAN]

ASSUME NoneIsNoAccount == None \notin Account

VARIABLES
    account,      \* the committed row
    resetLinks,   \* versions of the unexpired reset links in mailboxes
    verifyLinks,  \* addresses with an unexpired verification link in the mailbox
    task          \* task[r]: the transaction of request r

vars == <<account, resetLinks, verifyLinks, task>>

Operation ==
    {"login", "change", "reset", "assign", "welcome", "profile", "admin", "verify"}

(* proof: the password, the link's version or the link's mailbox that was  *)
(* presented; to: what to store; saw: the version read; overlapped: the    *)
(* row has changed since it was read; row: the row as written, before the  *)
(* commit.                                                                 *)
Task ==
    [at : {"update", "count", "raise", "commit", "mail"}, op : Operation,
     proof : Password \cup Version \cup Address \cup {None},
     to : Password \cup Address \cup {None},
     saw : Version, overlapped : BOOLEAN, row : Account \cup {None}]

TypeOK ==
    /\ account \in Account
    /\ resetLinks \subseteq Version
    /\ verifyLinks \subseteq Address
    /\ task \in [Request -> Task \cup {None}]

Init ==
    /\ account \in [password : Password, version : {0}, address : Address,
                    verified : {FALSE}, failed : {0}, locked : {FALSE}]
    /\ resetLinks = {}
    /\ verifyLinks = {}
    /\ task = [r \in Request |-> None]

-----------------------------------------------------------------------------
At(r, places) == task[r] # None /\ task[r].at \in places

Written(r) == At(r, {"raise", "commit"})

(* A row lock is held from the UPDATE to the end of the transaction.       *)
Locked(r) == \E o \in Request \ {r} : Written(o)

Begin(r, place, op, proof, to) ==
    /\ task[r] = None
    /\ task' = [task EXCEPT ![r] =
                  [at |-> place, op |-> op, proof |-> proof, to |-> to,
                   saw |-> account.version, overlapped |-> FALSE, row |-> None]]
    /\ UNCHANGED <<account, resetLinks, verifyLinks>>

Login(r, p) ==
    /\ ~account.locked
    /\ Begin(r, IF p = account.password THEN "update" ELSE "count", "login", p, None)

(* Mutant: the old password is not verified.                               *)
ChangeUnchecked(r, old, new) == Begin(r, "update", "change", old, new)

ChangePassword(r, old, new) ==
    old = account.password /\ Begin(r, "update", "change", old, new)

ResetPassword(r, v, new) ==
    /\ v \in resetLinks
    /\ v = account.version
    /\ v < MaxResets
    /\ Begin(r, "update", "reset", v, new)

(* set_password, for complete_setup and reset_user_auth.                   *)
SetPassword(r, new) == Begin(r, "update", "assign", None, new)

(* Mutant: the new password is never hashed, and NULL is stored.           *)
ResendWithout(r, new) == Begin(r, "update", "welcome", None, None)

ResendWelcome(r, new) == Begin(r, "update", "welcome", None, new)

UpdateProfile(r, a) == Begin(r, "update", "profile", None, a)

(* The administrator's change of an address leaves email_verified alone.   *)
AdminUpdate(r, a) == Begin(r, "update", "admin", None, a)

(* The link names the user, not the address it was mailed to.              *)
VerifyEmail(r, a) ==
    /\ a \in verifyLinks
    /\ ~account.verified
    /\ Begin(r, "update", "verify", a, None)

(* Mutant: the version is written back as it was read.                     *)
WrittenBack(t) ==
    [password |-> IF t.op \in {"change", "reset", "assign", "welcome"}
                  THEN t.to ELSE account.password,
     version |-> IF t.op = "reset" THEN t.saw + 1 ELSE t.saw,
     address |-> IF t.op \in {"profile", "admin"} THEN t.to ELSE account.address,
     verified |-> IF t.op = "verify" THEN TRUE
                  ELSE IF t.op = "profile" THEN FALSE ELSE account.verified,
     failed |-> IF t.op = "login" THEN 0 ELSE account.failed,
     locked |-> IF t.op = "login" THEN FALSE ELSE account.locked]

(* UPDATE ... SET of the operation's own columns, on the row as it is.     *)
Row(t) ==
    [password |-> IF t.op \in {"change", "reset", "assign", "welcome"}
                  THEN t.to ELSE account.password,
     version |-> IF t.op = "reset" THEN t.saw + 1 ELSE account.version,
     address |-> IF t.op \in {"profile", "admin"} THEN t.to ELSE account.address,
     verified |-> IF t.op = "verify" THEN TRUE
                  ELSE IF t.op = "profile" THEN FALSE ELSE account.verified,
     failed |-> IF t.op = "login" THEN 0 ELSE account.failed,
     locked |-> IF t.op = "login" THEN FALSE ELSE account.locked]

(* increment_failed_attempts and, at the threshold, lock_account.          *)
Counted ==
    [account EXCEPT !.failed = account.failed + 1,
                    !.locked = (account.failed + 1 >= Threshold)]

Goto(r, place, row) ==
    task' = [task EXCEPT ![r] =
               [at |-> place, op |-> task[r].op, proof |-> task[r].proof,
                to |-> task[r].to, saw |-> task[r].saw,
                overlapped |-> task[r].overlapped, row |-> row]]

Update(r) ==
    /\ At(r, {"update"}) /\ ~Locked(r)
    /\ Goto(r, "commit", Row(task[r]))
    /\ UNCHANGED <<account, resetLinks, verifyLinks>>

Count(r) ==
    /\ At(r, {"count"}) /\ ~Locked(r)
    /\ Goto(r, "raise", Counted)
    /\ UNCHANGED <<account, resetLinks, verifyLinks>>

End(r) == task' = [task EXCEPT ![r] = None]

(* Mutant: the exception leaves the transaction to commit.                 *)
RaiseAndCommit(r) ==
    /\ At(r, {"raise"})
    /\ account' = task[r].row
    /\ End(r)
    /\ UNCHANGED <<resetLinks, verifyLinks>>

(* InvalidCredentialsError or AccountLockedError: session() rolls back.    *)
Raise(r) ==
    /\ At(r, {"raise"})
    /\ End(r)
    /\ UNCHANGED <<account, resetLinks, verifyLinks>>

Overlap(t) ==
    [at |-> t.at, op |-> t.op, proof |-> t.proof, to |-> t.to, saw |-> t.saw,
     overlapped |-> TRUE, row |-> t.row]

Commit(r) ==
    /\ At(r, {"commit"})
    /\ account' = task[r].row
    /\ task' = [o \in Request |->
                  IF o # r THEN (IF task[o] = None \/ task[r].row = account
                                 THEN task[o] ELSE Overlap(task[o]))
                  ELSE IF task[r].op = "welcome"
                  THEN [at |-> "mail", op |-> "welcome", proof |-> None, to |-> None,
                        saw |-> task[r].saw, overlapped |-> FALSE, row |-> None]
                  ELSE None]
    /\ UNCHANGED <<resetLinks, verifyLinks>>

(* The welcome mail has a link of its own, sent after the commit.          *)
SendWelcome(r) ==
    /\ At(r, {"mail"})
    /\ verifyLinks' = verifyLinks \cup {account.address}
    /\ End(r)
    /\ UNCHANGED <<account, resetLinks>>

(* The process or the connection dies.                                     *)
Abort(r) ==
    /\ task[r] # None
    /\ End(r)
    /\ UNCHANGED <<account, resetLinks, verifyLinks>>

(* Requests that only read and mail.                                       *)
RequestReset ==
    /\ account.verified
    /\ resetLinks' = resetLinks \cup {account.version}
    /\ UNCHANGED <<account, verifyLinks, task>>

SendVerification ==
    /\ ~account.verified
    /\ verifyLinks' = verifyLinks \cup {account.address}
    /\ UNCHANGED <<account, resetLinks, task>>

ExpireReset(v) ==
    /\ v \in resetLinks
    /\ resetLinks' = resetLinks \ {v}
    /\ UNCHANGED <<account, verifyLinks, task>>

ExpireVerify(a) ==
    /\ a \in verifyLinks
    /\ verifyLinks' = verifyLinks \ {a}
    /\ UNCHANGED <<account, resetLinks, task>>

Receive(r) ==
    \/ \E p \in Password :
         \/ Login(r, p)
         \/ \E new \in Password : ChangePassword(r, p, new)
         \/ \E v \in Version : ResetPassword(r, v, p)
         \/ SetPassword(r, p)
         \/ ResendWelcome(r, p)
    \/ \E a \in Address :
         \/ UpdateProfile(r, a)
         \/ AdminUpdate(r, a)
         \/ VerifyEmail(r, a)

Advance(r) ==
    Update(r) \/ Count(r) \/ Raise(r) \/ Commit(r) \/ SendWelcome(r) \/ Abort(r)

Mail ==
    \/ RequestReset
    \/ SendVerification
    \/ \E v \in Version : ExpireReset(v)
    \/ \E a \in Address : ExpireVerify(a)

Next == Mail \/ \E r \in Request : Receive(r) \/ Advance(r)

Spec == Init /\ [][Next]_vars

-----------------------------------------------------------------------------
(* What the credentials promise.                                           *)

Fits(t) ==
    \/ t.op \in {"assign", "welcome"}
    \/ t.op = "change" /\ t.proof = account.password
    \/ t.op = "reset" /\ t.proof = account.version

(* The password is replaced by who holds the present one, by who holds the *)
(* present reset link, or by an assignment: a proof that has become stale  *)
(* is honoured only if it was read before an overlapping commit            *)
(* (auth/services/user_service.py:197-208, password_reset_service.py:114). *)
PasswordNeedsProof ==
    [][account'.password # account.password =>
         \E r \in Request : At(r, {"commit"}) /\ Commit(r)
                              /\ (Fits(task[r]) \/ task[r].overlapped)]_vars

(* Overlapping requests do not undo one another's columns: the version     *)
(* moves with a reset alone, the address and its flag with theirs alone    *)
(* (auth/db/repository.py:48-57).                                          *)
ColumnsHaveTheirWriters ==
    [][\A r \in Request :
         At(r, {"commit"}) /\ Commit(r) =>
           /\ task[r].op # "reset" => account'.version = account.version
           /\ task[r].op \notin {"profile", "admin"} => account'.address = account.address
           /\ task[r].op \notin {"profile", "verify"} => account'.verified = account.verified]_vars

(* What the code does against its documents: the count of a failed login,  *)
(* and the lock at the threshold, never outlast the exception that follows *)
(* them in the same transaction (auth/services/user_service.py:148-163).   *)
(* src/backend/README.md:132 "Account lockout: Configurable threshold and  *)
(* duration".                                                              *)
NeverLocked == ~account.locked /\ account.failed = 0

(* What the code says of itself and does not do.                           *)

(* password_reset_service.py:80 "Token is single-use: it becomes invalid   *)
(* after successful reset."  Used is what the code means by it (114): the  *)
(* version has moved on.                                                   *)
ResetLinkIsSingleUse ==
    [][\A r \in Request :
         At(r, {"commit"}) /\ task[r].op = "reset" /\ Commit(r) =>
           task[r].proof = account.version]_vars
=============================================================================
