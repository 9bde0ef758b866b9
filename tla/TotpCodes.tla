------------------------------- MODULE TotpCodes -------------------------------
(***************************************************************************)
(* The second factor of one account: TOTPService over the one row the      *)
(* account may have in auth.totp_secrets.  Enrolling draws a secret and,   *)
(* for a superuser, a batch of backup codes; a code of the authenticator   *)
(* or a backup code confirms, disables or recovers; regenerating replaces  *)
(* the batch; an administrator's reset deletes the row of another account. *)
(*                                                                         *)
(* Every request has one READ COMMITTED transaction.  It reads the row,    *)
(* checks the code against what it read, and writes by the id it read;     *)
(* enable looks for the row again before it writes.  A row that is gone by *)
(* the write is not noticed, but by enable.  The second read of disable is *)
(* one with its first: the session keeps what it has of a row.  A refusal  *)
(* that wrote nothing is no step, and so is a login: verify_totp_only only *)
(* reads.  No endpoint reaches AuthManager.verify_totp.                    *)
(***************************************************************************)
CONSTANTS
    Batch,       \* what one enrolment or regeneration draws at random
    Position,    \* places in a batch of totp_backup_codes_count codes
    Request,     \* slots for requests being handled at the same time
    None

Code == Batch \X Position

ASSUME NoneIsApart == None \notin Batch \cup Code

(* A secret, and the id of a row, are named by the batch they came with.   *)
Secret ==
    [id : Batch, secret : Batch, verified : BOOLEAN, codes : SUBSET Code]

ASSUME NoneIsNoSecret == None \notin Secret

VARIABLES
    superuser,   \* User.is_superuser, which never changes
    row,         \* the committed row, or None
    spent,       \* history: backup codes that have been accepted
    task         \* task[r]: the transaction of request r

vars == <<superuser, row, spent, task>>

Operation == {"enable", "confirm", "disable", "recover", "regenerate", "wipe"}

(* id: the row to write, None to insert it; secret: the secret read, or    *)
(* drawn; code: the backup code presented; codes: the list to store;       *)
(* found: whether the UPDATE found its row, and locked it; overlapped:     *)
(* another request has changed the row since this one began.               *)
Task ==
    [at : {"look", "write", "reread", "delete", "commit"}, op : Operation,
     id : Batch \cup {None}, secret : Batch, code : Code \cup {None},
     codes : SUBSET Code, found : BOOLEAN, overlapped : BOOLEAN]

ASSUME NoneIsNoTask == None \notin Task

TypeOK ==
    /\ superuser \in BOOLEAN
    /\ row \in Secret \cup {None}
    /\ spent \subseteq Code
    /\ task \in [Request -> Task \cup {None}]

Init ==
    /\ superuser \in BOOLEAN
    /\ row = None
    /\ spent = {}
    /\ task = [r \in Request |-> None]

-----------------------------------------------------------------------------
At(r, places) == task[r] # None /\ task[r].at \in places

(* The lock on the row, or on its place in the unique index on user_id.    *)
Locked(r) == \E o \in Request \ {r} : At(o, {"commit"}) /\ task[o].found

Begin(r, op, id, secret, code, codes) ==
    /\ task[r] = None
    /\ task' = [task EXCEPT ![r] =
                  [at |-> IF op = "enable" THEN "look" ELSE "write", op |-> op, id |-> id, secret |-> secret,
                   code |-> code, codes |-> codes, found |-> FALSE,
                   overlapped |-> FALSE]]
    /\ UNCHANGED <<superuser, row, spent>>

BatchOf(b) == {b} \X Position

(* secrets.token_hex.  A batch comes back here only when nothing of it is  *)
(* left in the row, a request or the history.                              *)
Fresh(b) ==
    /\ row # None => b \notin {row.id, row.secret} /\ row.codes \cap BatchOf(b) = {}
    /\ spent \cap BatchOf(b) = {}
    /\ \A r \in Request :
         task[r] # None =>
           /\ b \notin {task[r].id, task[r].secret}
           /\ ({task[r].code} \cup task[r].codes) \cap BatchOf(b) = {}

Id == IF row = None THEN None ELSE row.id

Verified == row # None /\ row.verified

(* Mutant: verified enrolments are replaced like pending ones.             *)
EnableAgain(r) ==
    \E b \in Batch :
      /\ Fresh(b)
      /\ Begin(r, "enable", None, b, None, IF superuser THEN BatchOf(b) ELSE {})

Enable(r) ==
    /\ ~Verified
    /\ \E b \in Batch :
         /\ Fresh(b)
         /\ Begin(r, "enable", None, b, None, IF superuser THEN BatchOf(b) ELSE {})

(* Mutant: the code that is accepted stays in the list.                    *)
KeepsCode(c) == row.codes

Remaining(c) == row.codes \ {c}

(* _check_backup_code: the list without the code is written back.          *)
PresentCode(r, op, c) ==
    /\ row # None
    /\ c \in row.codes
    /\ Begin(r, op, row.id, row.secret, c, Remaining(c))

(* _verify_totp_code: a code of the authenticator.                         *)
PresentTotp(r, op) ==
    /\ row # None
    /\ Begin(r, op, row.id, row.secret, None, {})

Confirm(r) ==
    /\ row # None /\ ~row.verified
    /\ PresentTotp(r, "confirm") \/ \E c \in Code : PresentCode(r, "confirm", c)

Disable(r) ==
    /\ Verified
    /\ PresentTotp(r, "disable") \/ \E c \in Code : PresentCode(r, "disable", c)

(* Recovery takes backup codes alone; the pre-auth token can be presented  *)
(* again and again.                                                        *)
Recover(r) ==
    /\ Verified
    /\ \E c \in Code : PresentCode(r, "recover", c)

Regenerate(r) ==
    /\ superuser
    /\ row # None
    /\ \E b \in Batch :
         /\ Fresh(b)
         /\ Begin(r, "regenerate", row.id, row.secret, None, BatchOf(b))

(* reset_user_auth: delete_by_user_id.                                     *)
Wipe(r) ==
    /\ ~superuser
    /\ row # None
    /\ Begin(r, "wipe", row.id, row.secret, None, {})

-----------------------------------------------------------------------------
Moved(r, place, id, found) ==
    [at |-> place, op |-> task[r].op, id |-> id, secret |-> task[r].secret,
     code |-> task[r].code, codes |-> task[r].codes, found |-> found,
     overlapped |-> task[r].overlapped]

Goto(r, place, id, found) ==
    task' = [task EXCEPT ![r] = Moved(r, place, id, found)]

End(r) == task' = [task EXCEPT ![r] = None]

Current(r) == Id = task[r].id

(* upsert reads again, by user_id, which row there is, if any; verified or *)
(* not is no question any more.                                            *)
Look(r) ==
    /\ At(r, {"look"})
    /\ Goto(r, "write", Id, FALSE)
    /\ UNCHANGED <<superuser, row, spent>>

(* The INSERT of an enrolment whose look found no row breaks the unique    *)
(* index when one has come since, and its UPDATE must find the row of that *)
(* look; either failure ends the request.  A recovery that misses its row  *)
(* looks for another by user_id.                                           *)
Write(r) ==
    /\ At(r, {"write"}) /\ ~Locked(r)
    /\ CASE Current(r) -> Goto(r, "commit", task[r].id, TRUE)
         [] ~Current(r) /\ task[r].op = "enable" -> End(r)
         [] ~Current(r) /\ task[r].op = "recover" -> Goto(r, "reread", task[r].id, FALSE)
         [] OTHER -> Goto(r, "commit", task[r].id, FALSE)
    /\ UNCHANGED <<superuser, row, spent>>

Reread(r) ==
    /\ At(r, {"reread"})
    /\ IF row = None THEN Goto(r, "commit", task[r].id, FALSE)
                     ELSE Goto(r, "delete", row.id, FALSE)
    /\ UNCHANGED <<superuser, row, spent>>

Delete(r) ==
    /\ At(r, {"delete"}) /\ ~Locked(r)
    /\ Goto(r, "commit", task[r].id, Current(r))
    /\ UNCHANGED <<superuser, row, spent>>

(* Mutant: regenerating the codes marks the enrolment as verified.         *)
WrittenVerified(t) ==
    IF t.op = "enable"
    THEN [id |-> IF t.id = None THEN t.secret ELSE t.id, secret |-> t.secret,
          verified |-> FALSE, codes |-> t.codes]
    ELSE [id |-> row.id, secret |-> row.secret,
          verified |-> row.verified \/ t.op \in {"confirm", "regenerate"},
          codes |-> IF t.code = None /\ t.op = "confirm" THEN row.codes ELSE t.codes]

(* Mutant: an inserted row is given no id.                                 *)
WrittenWithoutId(t) ==
    [id |-> t.id, secret |-> t.secret, verified |-> t.op # "enable", codes |-> t.codes]

(* The columns of the operation, on the row as it is.                      *)
Written(t) ==
    IF t.op = "enable"
    THEN [id |-> IF t.id = None THEN t.secret ELSE t.id, secret |-> t.secret,
          verified |-> FALSE, codes |-> t.codes]
    ELSE [id |-> row.id, secret |-> row.secret,
          verified |-> row.verified \/ t.op = "confirm",
          codes |-> IF t.code = None /\ t.op = "confirm" THEN row.codes ELSE t.codes]

After(t) ==
    IF ~t.found THEN row
    ELSE IF t.op \in {"disable", "recover", "wipe"} THEN None
    ELSE Written(t)

Overlap(t) ==
    [at |-> t.at, op |-> t.op, id |-> t.id, secret |-> t.secret, code |-> t.code,
     codes |-> t.codes, found |-> t.found, overlapped |-> TRUE]

Commit(r) ==
    /\ At(r, {"commit"})
    /\ LET t == task[r] IN
         /\ row' = After(t)
         /\ spent' = spent \cup (IF t.code = None THEN {} ELSE {t.code})
         /\ task' = [o \in Request |->
                       IF o = r THEN None
                       ELSE IF task[o] = None \/ After(t) = row THEN task[o]
                       ELSE Overlap(task[o])]
    /\ UNCHANGED superuser

(* The process or the connection dies.                                     *)
Abort(r) ==
    /\ task[r] # None
    /\ End(r)
    /\ UNCHANGED <<superuser, row, spent>>

Receive(r) ==
    \/ Enable(r)
    \/ Confirm(r)
    \/ Disable(r)
    \/ Recover(r)
    \/ Regenerate(r)
    \/ Wipe(r)

Next ==
    \E r \in Request :
      \/ Receive(r)
      \/ Look(r) \/ Write(r) \/ Reread(r) \/ Delete(r)
      \/ Commit(r) \/ Abort(r)

Spec == Init /\ [][Next]_vars

-----------------------------------------------------------------------------
(* What the second factor promises.                                        *)

Stored(c) == row # None /\ c \in row.codes

(* A request under way presents the code too, or writes a list that still  *)
(* has it.                                                                 *)
Carried(c) ==
    \E r \in Request : task[r] # None /\ c \in {task[r].code} \cup task[r].codes

Gone(c) == c \in spent /\ ~Stored(c) /\ ~Carried(c)

(* A code that has been accepted leaves the list for good, and is never    *)
(* accepted again, once the requests that had read the list by then are    *)
(* over (auth/services/totp_service.py:41-54).  Those requests may accept  *)
(* it a second time, or write it back.                                     *)
GoneCodesStayGone ==
    [][\A c \in Code :
         /\ Gone(c) => Gone(c)'
         /\ c \in spent' \ spent => Gone(c)' \/ Carried(c)']_vars

(* "5 single-use recovery codes" (README.md:92): a backup code that has    *)
(* been accepted is not accepted again.  Two requests that have both read  *)
(* the list before either writes it are both let in.                       *)
BackupCodesAreSingleUse ==
    [][\A r \in Request :
         At(r, {"commit"}) /\ Commit(r) /\ task[r].code # None =>
           task[r].code \notin spent]_vars

(* An enrolment counts as verified only if a code of the secret it stores, *)
(* or of its batch, was presented: it takes an enable that overlaps the    *)
(* confirmation to have another one confirmed (totp_service.py:132-148).   *)
ConfirmedIsPresented ==
    [][\A r \in Request :
         At(r, {"commit"}) /\ Commit(r) /\ ~Verified /\ Verified' =>
           /\ task[r].op = "confirm"
           /\ row'.secret = task[r].secret \/ task[r].overlapped]_vars

(* A verified second factor is removed or replaced by who presents a code  *)
(* of it, by an administrator, or by an enable that overlaps its           *)
(* confirmation (totp_service.py:89-106, 218-229, api.py:788-802).         *)
VerifiedLeavesByProof ==
    [][Verified /\ ~(Verified' /\ row'.secret = row.secret) =>
         \E r \in Request :
           /\ At(r, {"commit"}) /\ Commit(r)
           /\ \/ task[r].op \in {"disable", "recover"} /\ task[r].secret = row.secret
              \/ task[r].op = "wipe"
              \/ task[r].overlapped]_vars
=============================================================================
