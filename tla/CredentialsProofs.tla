--------------------------- MODULE CredentialsProofs ---------------------------
(***************************************************************************)
(* The properties of Credentials for any passwords, addresses, concurrent  *)
(* requests and any bound on the versions.  What a request has read stays  *)
(* true unless it is marked as overlapped (Read), and the row that it has  *)
(* written is the committed one but for its own columns, because nobody    *)
(* else writes before it ends (Ready, OneWriter).                          *)
(***************************************************************************)
EXTENDS Credentials, TLAPS

(* An operation has its statements and its arguments.                      *)
Kind(t) ==
    /\ t.at \in {"count", "raise"} => t.op = "login"
    /\ t.op \in {"change", "reset", "assign", "welcome"} /\ t.at # "mail" =>
         t.to \in Password
    /\ t.op \in {"profile", "admin"} => t.to \in Address
    /\ t.op = "reset" => t.proof = t.saw /\ t.saw < MaxResets

Read(t) ==
    ~t.overlapped =>
      /\ t.op = "change" => t.proof = account.password
      /\ t.op = "reset" => t.proof = account.version

Ready(t) ==
    /\ t.at = "commit" => t.row = Row(t)
    /\ t.at = "raise" => t.row = Counted

TasksInv ==
    \A r \in Request :
      task[r] # None => Kind(task[r]) /\ Read(task[r]) /\ Ready(task[r])

OneWriter == \A r, o \in Request : Written(r) /\ Written(o) => r = o

IInv ==
    /\ TypeOK
    /\ TasksInv
    /\ OneWriter

-----------------------------------------------------------------------------
(* The columns that a request writes make an account again.                *)
LEMMA RowType ==
    ASSUME TypeOK, NEW t \in Task, Kind(t), t.at # "mail"
    PROVE  Row(t) \in Account
<1>1. account \in Account /\ t.saw \in Version
  BY DEF TypeOK, Task
<1>2. t.op = "reset" => t.saw + 1 \in Version
  BY <1>1, CredentialAssumption DEF Kind, Version
<1>3. /\ Row(t).password \in Password /\ Row(t).address \in Address
      /\ Row(t).version \in Version
  BY <1>1, <1>2 DEF Row, Account, Kind
<1>4. Row(t).verified \in BOOLEAN /\ Row(t).failed \in Nat /\ Row(t).locked \in BOOLEAN
  BY <1>1 DEF Row, Account
<1> QED
  BY <1>3, <1>4 DEF Row, Account

LEMMA CountedType ==
    ASSUME TypeOK PROVE Counted \in Account
<1>1. ASSUME NEW n \in Nat, NEW b \in BOOLEAN
      PROVE  [account EXCEPT !.failed = n, !.locked = b] \in Account
  BY DEF TypeOK, Account
<1>2. account.failed + 1 \in Nat /\ (account.failed + 1 >= Threshold) \in BOOLEAN
  BY CredentialAssumption DEF TypeOK, Account
<1> QED
  BY <1>1, <1>2 DEF Counted

LEMMA SameRow ==
    ASSUME account' = account, NEW o \in Request, NEW t, task'[o] = t,
           Kind(t), Read(t), Ready(t)
    PROVE  Kind(task[o])' /\ Read(task[o])' /\ Ready(task[o])'
BY DEF Kind, Read, Ready, Row, Counted

(* One request goes on to t and the row stays as it is.                    *)
LEMMA MoveInv ==
    ASSUME IInv, NEW r \in Request, NEW t \in Task,
           task' = [task EXCEPT ![r] = t],
           UNCHANGED <<account, resetLinks, verifyLinks>>,
           Kind(t), Read(t), Ready(t),
           t.at \in {"raise", "commit"} => ~Locked(r)
    PROVE  IInv'
<1>1. \A o \in Request : task'[o] = IF o = r THEN t ELSE task[o]
  BY DEF IInv, TypeOK
<1>2. TypeOK'
  BY DEF IInv, TypeOK
<1>3. ASSUME NEW o \in Request, task'[o] # None
      PROVE  Kind(task[o])' /\ Read(task[o])' /\ Ready(task[o])'
  <2>1. CASE o = r
    BY <1>1, <2>1, SameRow
  <2>2. CASE o # r
    BY <1>1, <1>3, <2>2, SameRow DEF IInv, TasksInv
  <2> QED
    BY <2>1, <2>2
<1>4. OneWriter'
  BY <1>1 DEF IInv, OneWriter, Written, At, Locked
<1> QED
  BY <1>2, <1>3, <1>4 DEF IInv, TasksInv

(* A request ends without a trace.                                         *)
LEMMA EndInv ==
    ASSUME IInv, NEW r \in Request, End(r),
           account' = account, resetLinks' \subseteq Version, verifyLinks' \subseteq Address
    PROVE  IInv'
<1>1. \A o \in Request : task'[o] = IF o = r THEN None ELSE task[o]
  BY DEF IInv, TypeOK, End
<1>2. TypeOK'
  BY DEF IInv, TypeOK, End
<1>3. ASSUME NEW o \in Request, task'[o] # None
      PROVE  Kind(task[o])' /\ Read(task[o])' /\ Ready(task[o])'
  BY <1>1, <1>3, SameRow DEF IInv, TasksInv
<1>4. OneWriter'
  BY <1>1 DEF IInv, OneWriter, Written, At
<1> QED
  BY <1>2, <1>3, <1>4 DEF IInv, TasksInv

(* Nothing happens but in the mailboxes.                                   *)
LEMMA MailInv ==
    ASSUME IInv, task' = task,
           account' = account, resetLinks' \subseteq Version, verifyLinks' \subseteq Address
    PROVE  IInv'
<1>1. TypeOK'
  BY DEF IInv, TypeOK
<1>2. TasksInv'
  BY DEF IInv, TasksInv, Kind, Read, Ready, Row, Counted
<1>3. OneWriter'
  BY DEF IInv, OneWriter, Written, At
<1> QED
  BY <1>1, <1>2, <1>3 DEF IInv

-----------------------------------------------------------------------------
(* A request that begins has read the row as it is.                        *)
LEMMA BeginInv ==
    ASSUME IInv, NEW r \in Request, NEW place \in {"update", "count"}, NEW op \in Operation,
           NEW proof \in Password \cup Version \cup Address \cup {None},
           NEW to \in Password \cup Address \cup {None},
           Begin(r, place, op, proof, to),
           place = "count" => op = "login",
           op \in {"change", "reset", "assign", "welcome"} => to \in Password,
           op \in {"profile", "admin"} => to \in Address,
           op = "change" => proof = account.password,
           op = "reset" => proof = account.version /\ account.version < MaxResets
    PROVE  IInv'
<1> DEFINE n == [at |-> place, op |-> op, proof |-> proof, to |-> to,
                 saw |-> account.version, overlapped |-> FALSE, row |-> None]
<1>1. account.version \in Version
  BY DEF IInv, TypeOK, Account
<1>2. n \in Task
  BY <1>1 DEF Task
<1>3. Kind(n) /\ Read(n) /\ Ready(n) /\ n.at \notin {"raise", "commit"}
  BY DEF Kind, Read, Ready
<1>4. task' = [task EXCEPT ![r] = n] /\ UNCHANGED <<account, resetLinks, verifyLinks>>
  BY DEF Begin
<1> HIDE DEF n
<1> QED
  BY <1>2, <1>3, <1>4, MoveInv

LEMMA ReceiveInv ==
    ASSUME IInv, NEW r \in Request, Receive(r) PROVE IInv'
<1>1. ASSUME NEW p \in Password, Login(r, p) PROVE IInv'
  BY <1>1, BeginInv DEF Login, Operation
<1>2. ASSUME NEW p \in Password, NEW new \in Password, ChangePassword(r, p, new) PROVE IInv'
  BY <1>2, BeginInv DEF ChangePassword, Operation
<1>3. ASSUME NEW p \in Password, NEW v \in Version, ResetPassword(r, v, p) PROVE IInv'
  BY <1>3, BeginInv DEF ResetPassword, Operation
<1>4. ASSUME NEW p \in Password, SetPassword(r, p) \/ ResendWelcome(r, p) PROVE IInv'
  BY <1>4, BeginInv DEF SetPassword, ResendWelcome, Operation
<1>5. ASSUME NEW a \in Address, UpdateProfile(r, a) \/ AdminUpdate(r, a) PROVE IInv'
  BY <1>5, BeginInv DEF UpdateProfile, AdminUpdate, Operation
<1>6. ASSUME NEW a \in Address, VerifyEmail(r, a) PROVE IInv'
  BY <1>6, BeginInv DEF VerifyEmail, Operation
<1> QED
  BY <1>1, <1>2, <1>3, <1>4, <1>5, <1>6 DEF Receive

(* The statement that writes, when no other request has written.           *)
LEMMA WriteInv ==
    ASSUME IInv, NEW r \in Request, Update(r) \/ Count(r) PROVE IInv'
<1>1. task[r] # None /\ task[r] \in Task /\ Kind(task[r]) /\ Read(task[r])
  BY DEF Update, Count, At, IInv, TypeOK, TasksInv
<1>2. CASE Update(r)
  <2> DEFINE n == [at |-> "commit", op |-> task[r].op, proof |-> task[r].proof,
                   to |-> task[r].to, saw |-> task[r].saw,
                   overlapped |-> task[r].overlapped, row |-> Row(task[r])]
  <2>1. Row(task[r]) \in Account
    BY <1>1, <1>2, RowType DEF IInv, Update, At
  <2>2. n \in Task
    BY <1>1, <2>1 DEF Task
  <2>3. Kind(n)
    BY <1>1, <1>2 DEF Kind, Update, At
  <2>4. Read(n)
    BY <1>1 DEF Read
  <2>5. Ready(n)
    BY DEF Ready, Row
  <2>6. task' = [task EXCEPT ![r] = n] /\ UNCHANGED <<account, resetLinks, verifyLinks>>
        /\ ~Locked(r)
    BY <1>2 DEF Update, Goto
  <2> HIDE DEF n
  <2> QED
    BY <2>2, <2>3, <2>4, <2>5, <2>6, MoveInv
<1>3. CASE Count(r)
  <2> DEFINE n == [at |-> "raise", op |-> task[r].op, proof |-> task[r].proof,
                   to |-> task[r].to, saw |-> task[r].saw,
                   overlapped |-> task[r].overlapped, row |-> Counted]
  <2>1. n \in Task
    BY <1>1, CountedType DEF Task, IInv
  <2>2. Kind(n)
    BY <1>1, <1>3 DEF Kind, Count, At
  <2>3. Read(n) /\ Ready(n)
    BY <1>1 DEF Read, Ready
  <2>4. task' = [task EXCEPT ![r] = n] /\ UNCHANGED <<account, resetLinks, verifyLinks>>
        /\ ~Locked(r)
    BY <1>3 DEF Count, Goto
  <2> HIDE DEF n
  <2> QED
    BY <2>1, <2>2, <2>3, <2>4, MoveInv
<1> QED
  BY <1>2, <1>3

-----------------------------------------------------------------------------
(* What a commit makes of the other requests.                              *)
LEMMA CommitOthers ==
    ASSUME IInv, NEW r \in Request, Commit(r), NEW o \in Request, o # r, task'[o] # None
    PROVE  /\ task[o] # None /\ ~Written(o)
           /\ task'[o] = IF task[r].row = account THEN task[o] ELSE Overlap(task[o])
<1>1. task'[o] = IF task[o] = None \/ task[r].row = account
                 THEN task[o] ELSE Overlap(task[o])
  BY DEF Commit
<1>2. task[o] # None
  BY <1>1
<1>3. Written(r)
  BY DEF Commit, At, Written
<1> QED
  BY <1>1, <1>2, <1>3 DEF IInv, OneWriter

LEMMA CommitInv ==
    ASSUME IInv, NEW r \in Request, Commit(r) PROVE IInv'
<1> DEFINE m == [at |-> "mail", op |-> "welcome", proof |-> None, to |-> None,
                 saw |-> task[r].saw, overlapped |-> FALSE, row |-> None]
<1>1. task[r] # None /\ task[r] \in Task /\ Kind(task[r]) /\ task[r].at = "commit"
      /\ task[r].row = Row(task[r])
  BY DEF Commit, At, IInv, TypeOK, TasksInv, Ready
<1>2. account' = Row(task[r]) /\ account' \in Account
  BY <1>1, RowType DEF Commit, IInv
<1>3. m \in Task
  BY <1>1 DEF Task, Operation
<1>4. task'[r] = IF task[r].op = "welcome" THEN m ELSE None
  BY DEF Commit
<1>5. \A o \in Request : task'[o] \in Task \cup {None}
  <2> SUFFICES ASSUME NEW o \in Request, o # r, task'[o] # None PROVE task'[o] \in Task
    BY <1>3, <1>4
  <2>1. task[o] \in Task
    BY CommitOthers DEF IInv, TypeOK
  <2>2. Overlap(task[o]) \in Task
    BY <2>1 DEF Overlap, Task
  <2> QED
    BY <2>1, <2>2, CommitOthers
<1>6. TypeOK'
  <2>1. task' \in [Request -> Task \cup {None}]
    BY <1>5 DEF Commit
  <2> QED
    BY <1>2, <2>1 DEF IInv, TypeOK, Commit
<1>7. ASSUME NEW o \in Request, task'[o] # None
      PROVE  Kind(task[o])' /\ Read(task[o])' /\ Ready(task[o])' /\ ~Written(o)'
  <2>1. CASE o = r
    <3>1. task'[o] = m
      BY <1>4, <1>7, <2>1
    <3> QED
      BY <3>1 DEF Kind, Read, Ready, Written, At
  <2>2. CASE o # r /\ task[r].row = account
    <3>1. task'[o] = task[o] /\ task[o] # None /\ account' = account /\ ~Written(o)
          /\ Kind(task[o]) /\ Read(task[o])
      BY <1>1, <1>2, <1>7, <2>2, CommitOthers DEF IInv, TasksInv
    <3> QED
      BY <3>1 DEF Kind, Read, Ready, Written, At
  <2>3. CASE o # r /\ task[r].row # account
    <3>1. task'[o] = Overlap(task[o]) /\ task[o] # None /\ ~Written(o) /\ Kind(task[o])
      BY <1>7, <2>3, CommitOthers DEF IInv, TasksInv
    <3> QED
      BY <3>1 DEF Kind, Read, Ready, Written, At, Overlap
  <2> QED
    BY <2>1, <2>2, <2>3
<1>8. OneWriter'
  BY <1>7 DEF OneWriter, Written, At
<1> QED
  BY <1>6, <1>7, <1>8 DEF IInv, TasksInv

-----------------------------------------------------------------------------
LEMMA InitIInv == Init => IInv
<1> SUFFICES ASSUME Init PROVE IInv
  OBVIOUS
<1>1. 0 \in Version /\ 0 \in Nat
  BY CredentialAssumption DEF Version
<1>2. account \in Account
  BY <1>1 DEF Init, Account
<1>3. TypeOK
  BY <1>2 DEF Init, TypeOK
<1> QED
  BY <1>3 DEF Init, IInv, TasksInv, OneWriter, Written, At

LEMMA NextIInv == IInv /\ [Next]_vars => IInv'
<1> SUFFICES ASSUME IInv, [Next]_vars PROVE IInv'
  OBVIOUS
<1>1. account.version \in Version /\ account.address \in Address
      /\ resetLinks \subseteq Version /\ verifyLinks \subseteq Address
  BY DEF IInv, TypeOK, Account
<1>2. CASE Mail
  BY <1>1, <1>2, MailInv
     DEF Mail, RequestReset, SendVerification, ExpireReset, ExpireVerify
<1>3. ASSUME NEW r \in Request, Raise(r) \/ SendWelcome(r) \/ Abort(r) PROVE IInv'
  BY <1>1, <1>3, EndInv DEF Raise, SendWelcome, Abort
<1>4. CASE UNCHANGED vars
  BY <1>1, <1>4, MailInv DEF vars
<1> QED
  BY <1>2, <1>3, <1>4, ReceiveInv, WriteInv, CommitInv DEF Next, Advance

THEOREM Invariance == Spec => []IInv
BY InitIInv, NextIInv, PTL DEF Spec

(* Every variable keeps its type: the row is an account at all times.      *)
THEOREM TypeCorrect == Spec => []TypeOK
BY Invariance, PTL DEF IInv

-----------------------------------------------------------------------------
(* The committed row changes by a commit alone, and by its own columns.    *)
LEMMA AccountStep ==
    ASSUME IInv, [Next]_vars, account' # account
    PROVE  \E r \in Request :
             /\ At(r, {"commit"}) /\ Commit(r) /\ task[r] \in Task
             /\ Kind(task[r]) /\ Read(task[r]) /\ account' = Row(task[r])
<1>1. PICK r \in Request : Commit(r)
  BY DEF Next, vars, Mail, RequestReset, SendVerification, ExpireReset, ExpireVerify,
     Receive, Login, ChangePassword, ResetPassword, SetPassword, ResendWelcome,
     UpdateProfile, AdminUpdate, VerifyEmail, Begin, Advance, Update, Count, Raise,
     SendWelcome, Abort
<1> QED
  BY <1>1 DEF Commit, At, IInv, TypeOK, TasksInv, Ready

(* A proof that has become stale replaces the password only if it was read *)
(* before an overlapping commit.                                           *)
THEOREM ProofIsNeeded == Spec => PasswordNeedsProof
<1>1. IInv /\ [Next]_vars =>
        [account'.password # account.password =>
           \E r \in Request : At(r, {"commit"}) /\ Commit(r)
                                /\ (Fits(task[r]) \/ task[r].overlapped)]_vars
  <2> SUFFICES ASSUME IInv, [Next]_vars, account'.password # account.password
               PROVE  \E r \in Request : At(r, {"commit"}) /\ Commit(r)
                                           /\ (Fits(task[r]) \/ task[r].overlapped)
    OBVIOUS
  <2>1. PICK r \in Request :
          /\ At(r, {"commit"}) /\ Commit(r) /\ task[r] \in Task
          /\ Kind(task[r]) /\ Read(task[r]) /\ account' = Row(task[r])
    BY AccountStep
  <2>2. task[r].op \in {"change", "reset", "assign", "welcome"}
    BY <2>1 DEF Row
  <2> QED
    BY <2>1, <2>2 DEF Fits, Read
<1> QED
  BY <1>1, Invariance, PTL DEF Spec, PasswordNeedsProof

(* A commit changes the columns of its own operation and no others.        *)
THEOREM ColumnsApart == Spec => ColumnsHaveTheirWriters
<1>1. IInv =>
        [\A r \in Request :
           At(r, {"commit"}) /\ Commit(r) =>
             /\ task[r].op # "reset" => account'.version = account.version
             /\ task[r].op \notin {"profile", "admin"} => account'.address = account.address
             /\ task[r].op \notin {"profile", "verify"} =>
                  account'.verified = account.verified]_vars
  <2> SUFFICES ASSUME IInv, NEW r \in Request, At(r, {"commit"}), Commit(r)
               PROVE  /\ task[r].op # "reset" => account'.version = account.version
                      /\ task[r].op \notin {"profile", "admin"} =>
                           account'.address = account.address
                      /\ task[r].op \notin {"profile", "verify"} =>
                           account'.verified = account.verified
    OBVIOUS
  <2>1. account' = Row(task[r])
    BY DEF Commit, At, IInv, TasksInv, Ready
  <2> QED
    BY <2>1 DEF Row
<1> QED
  BY <1>1, Invariance, PTL DEF ColumnsHaveTheirWriters

-----------------------------------------------------------------------------
(* A reset under way after a step was under way before, or has just read.  *)
LEMMA ResetStep ==
    ASSUME IInv, [Next]_vars, NEW o \in Request, task'[o] # None, task'[o].op = "reset"
    PROVE  \/ task[o] # None /\ task[o].op = "reset" /\ task'[o].saw = task[o].saw
           \/ task'[o].saw = account.version
<1>1. task \in [Request -> Task \cup {None}]
  BY DEF IInv, TypeOK
<1>2. CASE Mail \/ UNCHANGED vars
  BY <1>2 DEF Mail, RequestReset, SendVerification, ExpireReset, ExpireVerify, vars
<1>3. ASSUME NEW r \in Request, Receive(r)
      PROVE  \/ task[o] # None /\ task[o].op = "reset" /\ task'[o].saw = task[o].saw
             \/ task'[o].saw = account.version
  <2>1. \E place, op, proof, to :
          task' = [task EXCEPT ![r] =
                     [at |-> place, op |-> op, proof |-> proof, to |-> to,
                      saw |-> account.version, overlapped |-> FALSE, row |-> None]]
    BY <1>3 DEF Receive, Login, ChangePassword, ResetPassword, SetPassword, ResendWelcome,
       UpdateProfile, AdminUpdate, VerifyEmail, Begin
  <2> QED
    BY <1>1, <2>1
<1>4. ASSUME NEW r \in Request, Update(r) \/ Count(r)
      PROVE  task[o] # None /\ task[o].op = "reset" /\ task'[o].saw = task[o].saw
  BY <1>1, <1>4 DEF Update, Count, Goto, At
<1>5. ASSUME NEW r \in Request, Raise(r) \/ SendWelcome(r) \/ Abort(r)
      PROVE  task[o] # None /\ task[o].op = "reset" /\ task'[o].saw = task[o].saw
  BY <1>1, <1>5 DEF Raise, SendWelcome, Abort, End
<1>6. ASSUME NEW r \in Request, Commit(r)
      PROVE  task[o] # None /\ task[o].op = "reset" /\ task'[o].saw = task[o].saw
  <2>1. o # r
    BY <1>6 DEF Commit
  <2>2. task[o] # None /\ (task'[o] = task[o] \/ task'[o] = Overlap(task[o]))
    BY <1>6, <2>1, CommitOthers
  <2> QED
    BY <2>2 DEF Overlap
<1> QED
  BY <1>2, <1>3, <1>4, <1>5, <1>6 DEF Next, Advance

(* A link that is out of date, and no reset under way can honour it or     *)
(* take the version back to it.                                            *)
Dead(v) ==
    /\ v < account.version
    /\ \A r \in Request : task[r] # None /\ task[r].op = "reset" => v < task[r].saw

DeadLinksStayDead == [][\A v \in Version : Dead(v) => Dead(v)']_vars

(* What is left of single use: once a link is out of date and the resets   *)
(* that read the version before it was have ended, no order of requests    *)
(* makes it fit again (auth/services/password_reset_service.py:114-125).   *)
THEOREM OldLinksStayDead == Spec => DeadLinksStayDead
<1>1. IInv /\ [Next]_vars => [\A v \in Version : Dead(v) => Dead(v)']_vars
  <2> SUFFICES ASSUME IInv, [Next]_vars, NEW v \in Version, Dead(v) PROVE Dead(v)'
    OBVIOUS
  <2>1. v \in Nat /\ account.version \in Nat /\ v < account.version
    BY CredentialAssumption DEF Version, Dead, IInv, TypeOK, Account
  <2>2. ASSUME NEW r \in Request, task[r] # None, task[r].op = "reset"
        PROVE  task[r].saw \in Nat /\ v < task[r].saw
    BY <2>2, CredentialAssumption DEF IInv, TypeOK, Task, Version, Dead
  <2>3. v < account'.version
    <3>1. CASE account' = account
      BY <2>1, <3>1
    <3>2. CASE account' # account
      <4>1. PICK r \in Request :
              At(r, {"commit"}) /\ account' = Row(task[r])
        BY <3>2, AccountStep
      <4>2. account'.version = IF task[r].op = "reset" THEN task[r].saw + 1
                               ELSE account.version
        BY <4>1 DEF Row
      <4> QED
        BY <2>1, <2>2, <4>1, <4>2 DEF At
    <3> QED
      BY <3>1, <3>2
  <2>4. ASSUME NEW o \in Request, task'[o] # None, task'[o].op = "reset"
        PROVE  v < task'[o].saw
    BY <2>1, <2>2, <2>4, ResetStep
  <2> QED
    BY <2>3, <2>4 DEF Dead
<1> QED
  BY <1>1, Invariance, PTL DEF Spec, DeadLinksStayDead

-----------------------------------------------------------------------------
(* Lockout.  A count is written by a transaction that raises, and a commit *)
(* writes the counter back as it is or as zero.                            *)

(* No number of failed logins, in any order with other requests and at any *)
(* threshold, is ever counted or locks the account                         *)
(* (auth/services/user_service.py:148-165).                                *)
THEOREM LockoutNeverHappens == Spec => []NeverLocked
<1>1. Init => NeverLocked
  BY DEF Init, NeverLocked
<1>2. IInv /\ NeverLocked /\ [Next]_vars => NeverLocked'
  <2> SUFFICES ASSUME IInv, NeverLocked, [Next]_vars, account' # account PROVE NeverLocked'
    BY DEF NeverLocked
  <2>1. PICK r \in Request : account' = Row(task[r])
    BY AccountStep
  <2> QED
    BY <2>1 DEF NeverLocked, Row
<1> QED
  BY <1>1, <1>2, Invariance, PTL DEF Spec
=============================================================================
