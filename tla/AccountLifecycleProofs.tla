------------------------ MODULE AccountLifecycleProofs ------------------------
(***************************************************************************)
(* The safety properties of AccountLifecycle hold for any number of        *)
(* accounts and of requests that overlap on them.                          *)
(***************************************************************************)
EXTENDS AccountLifecycle, TLAPS

(* What a request is about, and what it may rely on: past its UPDATE it    *)
(* holds the users row, which therefore exists; an operation of the        *)
(* administrator is never about a superuser; a bootstrap is about an       *)
(* account that does not exist yet.                                        *)
RequestOK(r) ==
    /\ task[r].op = "none" => task[r] = Idle
    /\ task[r].op # "none" => task[r].user \in User
    /\ task[r].at \in {"written", "commit"} => "user" \in task[r].holds
    /\ "user" \in task[r].holds => Exists(task[r].user)
    /\ task[r].op \in {"reset", "resend", "delete"} /\ Exists(task[r].user)
         => ~account[task[r].user].super
    /\ task[r].op = "bootstrap" => ~Exists(task[r].user)
    /\ task[r].op = "setup" /\ task[r].at # "start" => task[r].saw \in Account

RequestInv == \A r \in Request : RequestOK(r)

(* Nobody else knows the id that a bootstrap has drawn.                    *)
BootstrapInv ==
    \A r, s \in Request :
      task[r].op = "bootstrap" /\ r # s => task[s].user # task[r].user

IInv == TypeOK /\ RequestInv /\ BootstrapInv /\ NothingWithoutAccount

-----------------------------------------------------------------------------
(* Type correctness.                                                       *)

LEMMA IdleType == Idle \in Task
BY DEF Idle, Task, Operation

LEMMA NewAccountType ==
    ASSUME NEW super \in BOOLEAN
    PROVE  NewAccount(super) \in Account
BY DEF NewAccount, Account

(* A request that begins is a request.                                     *)
LEMMA BeginType ==
    ASSUME TypeOK, NEW r \in Request, NEW op \in Operation,
           NEW at \in {"start", "read"}, NEW u \in User,
           NEW saw \in Account \cup {NoAccount},
           NEW holds \in SUBSET {"user", "totp"},
           Begin(r, op, at, u, saw, holds)
    PROVE  TypeOK'
BY DEF TypeOK, Begin, Task, rows, tokens

(* What a transaction leaves of an account is an account, and the same     *)
(* one: it neither makes nor unmakes a superuser.                          *)
LEMMA WrittenType ==
    ASSUME IInv, NEW r \in Request, task[r].at = "commit"
    PROVE  /\ task[r].user \in User
           /\ account[task[r].user] \in Account
           /\ Written(r) \in Account
           /\ Written(r).super = account[task[r].user].super
           /\ Written(r).deleted => ~Written(r).super
<1> DEFINE a == account[task[r].user]
<1>1. task[r].op # "none" /\ task[r].user \in User /\ a # NoAccount
  BY DEF IInv, RequestInv, RequestOK, Idle, Exists
<1>2. a \in Account /\ (a.deleted => ~a.super)
  BY <1>1 DEF IInv, TypeOK
<1>3. task[r].op = "delete" => ~a.super
  BY <1>1 DEF IInv, RequestInv, RequestOK, Exists
<1> QED
  BY <1>1, <1>2, <1>3 DEF Written, Account

(* So is one that goes on.                                                 *)
LEMMA MoveType ==
    ASSUME TypeOK, NEW r \in Request,
           NEW at \in {"start", "read", "written", "revoke", "commit"},
           NEW saw \in Account \cup {NoAccount},
           NEW holds \in SUBSET {"user", "totp"},
           Move(r, at, saw, holds)
    PROVE  task' \in [Request -> Task]
BY DEF TypeOK, Move, Task

LEMMA InitTypeOK == Init => TypeOK
BY IdleType DEF Init, TypeOK

LEMMA NextTypeOK ==
    ASSUME IInv, [Next]_vars
    PROVE  TypeOK'
<1> USE DEF Exists
<1>0. TypeOK /\ RequestInv
  BY DEF IInv
<1>1. ASSUME NEW r \in Request, NEW u \in User, Receive(r, u)
      PROVE  TypeOK'
  <2>1. CASE BootstrapCount(r, u)
    BY <1>0, <2>1, BeginType DEF BootstrapCount, Operation
  <2>2. CASE LoginRead(r, u)
    BY <1>0, <2>2, BeginType DEF LoginRead, Operation, TypeOK
  <2>3. CASE TotpLoginRead(r, u)
    BY <1>0, <2>3, BeginType DEF TotpLoginRead, Operation
  <2>4. CASE SetupCheckTotp(r, u)
    BY <1>0, <2>4, BeginType DEF SetupCheckTotp, Operation
  <2>5. CASE RecoverRead(r, u)
    BY <1>0, <2>5, BeginType DEF RecoverRead, Operation
  <2>6. ASSUME NEW op \in {"reset", "resend", "delete"}, AdminRead(r, op, u)
        PROVE  TypeOK'
    BY <1>0, <2>6, BeginType DEF AdminRead, Operation
  <2> QED
    BY <1>1, <2>1, <2>2, <2>3, <2>4, <2>5, <2>6 DEF Receive
<1>2. ASSUME NEW r \in Request, BootstrapInsert(r)
      PROVE  TypeOK'
  <2>1. task[r].user \in User /\ NewAccount(TRUE) \in Account
    BY <1>0, <1>2 DEF BootstrapInsert, At, RequestInv, RequestOK, NewAccount, Account
  <2> QED
    BY <1>0, <1>2, <2>1, IdleType
       DEF TypeOK, BootstrapInsert, End, NewAccount
<1>3. ASSUME NEW r \in Request, LoginAnswer(r)
      PROVE  TypeOK'
  BY <1>0, <1>3, IdleType DEF TypeOK, LoginAnswer, End, rows
<1>4. ASSUME NEW r \in Request, SetupReadUser(r)
      PROVE  TypeOK'
  <2>1. task[r].user \in User
    BY <1>0, <1>4 DEF SetupReadUser, At, RequestInv, RequestOK
  <2>2. account[task[r].user] \in Account
    BY <1>0, <1>4, <2>1 DEF SetupReadUser, TypeOK
  <2>3. task' \in [Request -> Task]
    BY <1>0, <1>4, <2>2, MoveType DEF SetupReadUser
  <2> QED
    BY <1>0, <1>4, <2>3 DEF TypeOK, SetupReadUser, rows, tokens
<1>5. ASSUME NEW r \in Request, UpdateUser(r) \/ ResetTotp(r) \/ DeleteRevokes(r)
      PROVE  TypeOK'
  <2>1. task[r].saw \in Account \cup {NoAccount} /\ task[r].holds \in SUBSET {"user", "totp"}
    BY <1>0 DEF TypeOK, Task
  <2>2. CASE UpdateUser(r)
    <3>1. task' \in [Request -> Task]
      BY <1>0, <2>1, <2>2, MoveType DEF UpdateUser, After
    <3> QED
      BY <1>0, <2>2, <3>1 DEF TypeOK, UpdateUser, rows, tokens
  <2>3. CASE ResetTotp(r)
    <3>1. task' \in [Request -> Task]
      BY <1>0, <2>1, <2>3, MoveType DEF ResetTotp
    <3> QED
      BY <1>0, <2>3, <3>1 DEF TypeOK, ResetTotp, rows, tokens
  <2>4. CASE DeleteRevokes(r)
    <3>1. task' \in [Request -> Task]
      BY <1>0, <2>1, <2>4, MoveType DEF DeleteRevokes
    <3> QED
      BY <1>0, <2>4, <3>1 DEF TypeOK, DeleteRevokes, tokens
  <2> QED
    BY <1>5, <2>2, <2>3, <2>4
<1>6. ASSUME NEW r \in Request, Commit(r)
      PROVE  TypeOK'
  <2>1. task[r].at = "commit"
    BY <1>6 DEF Commit
  <2>2. account' \in [User -> Account \cup {NoAccount}]
    BY <1>0, <1>6, <2>1, WrittenType DEF TypeOK, Commit
  <2>3. \A u \in User : account'[u] # NoAccount /\ account'[u].deleted =>
                           ~account'[u].super
    BY <1>0, <1>6, <2>1, WrittenType DEF TypeOK, Commit
  <2>4. task' \in [Request -> Task]
    <3>1. task[r].saw \in Account \cup {NoAccount}
      BY <1>0 DEF TypeOK, Task
    <3>2. CASE task[r].op = "reset"
      BY <1>0, <1>6, <3>1, <3>2, MoveType DEF Commit
    <3>3. CASE task[r].op # "reset"
      BY <1>0, <1>6, <3>3, IdleType DEF Commit, End, TypeOK
    <3> QED
      BY <3>2, <3>3
  <2>5. totp' \in [User -> {"none", "pending", "verified"}]
    BY <1>0, <1>6 DEF TypeOK, Commit
  <2>6. /\ live' \in [User -> BOOLEAN]
        /\ setupToken' \in [User -> BOOLEAN]
    BY <1>0, <1>6 DEF TypeOK, Commit
  <2> QED
    BY <1>0, <1>6, <2>2, <2>3, <2>4, <2>5, <2>6 DEF TypeOK, Commit
<1>7. ASSUME NEW r \in Request, ResetRevokes(r) \/ Abort(r)
      PROVE  TypeOK'
  BY <1>0, <1>7, IdleType
     DEF TypeOK, ResetRevokes, Abort, End, rows, tokens
<1>8. ASSUME NEW u \in User, Register(u)
      PROVE  TypeOK'
  BY <1>0, <1>8 DEF TypeOK, Register, NewAccount, Account, tokens
<1>9. ASSUME NEW u \in User, EnableTotp(u) \/ VerifyTotp(u) \/ DisableTotp(u)
      PROVE  TypeOK'
  BY <1>0, <1>9 DEF TypeOK, EnableTotp, VerifyTotp, DisableTotp, tokens
<1>10. ASSUME NEW u \in User, NEW active \in BOOLEAN, AdminSetActive(u, active)
       PROVE  TypeOK'
  BY <1>0, <1>10 DEF TypeOK, AdminSetActive, Account, tokens
<1>11. ASSUME NEW u \in User, Time(u)
       PROVE  TypeOK'
  <2>1. CASE Elapse(u)
    BY <1>0, <2>1 DEF TypeOK, Elapse, Account, tokens
  <2>2. CASE TokensExpire(u) \/ SessionsEnd(u)
    BY <1>0, <2>2 DEF TypeOK, TokensExpire, SessionsEnd, rows, tokens
  <2>3. CASE Cleanup(u)
    BY <1>0, <2>3 DEF TypeOK, Cleanup, tokens
  <2> QED
    BY <1>11, <2>1, <2>2, <2>3 DEF Time
<1>12. CASE UNCHANGED vars
  BY <1>0, <1>12 DEF TypeOK, vars
<1> QED
  BY <1>1, <1>2, <1>3, <1>4, <1>5, <1>6, <1>7, <1>8, <1>9, <1>10, <1>11, <1>12
     DEF Next, Advance, Single


-----------------------------------------------------------------------------
(* What requests may rely on.                                              *)

LEMMA InitIInv == Init => IInv
BY InitTypeOK
   DEF Init, IInv, RequestInv, RequestOK, BootstrapInv, NothingWithoutAccount,
       Idle, Exists

(* A request that does not move keeps what it relies on, as long as the    *)
(* account stays, and stays a superuser's or not, or goes while the        *)
(* request does not hold it.                                               *)
LEMMA WaitingKeeps ==
    ASSUME IInv, NEW s \in Request, task'[s] = task[s],
           NEW a, NEW b, a = account[task[s].user], b = account'[task[s].user],
           task[s].op # "none" =>
             \/ b = a
             \/ a # NoAccount /\ b # NoAccount /\ a.super = b.super
             \/ a # NoAccount /\ b = NoAccount /\ "user" \notin task[s].holds
    PROVE  RequestOK(s)'
<1>1. RequestOK(s)
  BY DEF IInv, RequestInv
<1>2. CASE task[s].op = "none"
  BY <1>1, <1>2 DEF RequestOK, Idle
<1>3. CASE task[s].op # "none"
  BY <1>1, <1>3 DEF RequestOK, Exists
<1> QED
  BY <1>2, <1>3

(* A request that begins relies on what it has just read.                  *)
LEMMA BeginIInv ==
    ASSUME IInv, NEW r \in Request, NEW op \in Operation, op # "none",
           NEW at \in {"start", "read"}, NEW u \in User, NEW saw,
           NEW holds \in SUBSET {"totp"}, Begin(r, op, at, u, saw, holds),
           op = "bootstrap" => Fresh(u),
           op # "bootstrap" => Exists(u),
           op \in {"reset", "resend", "delete"} => ~account[u].super,
           op = "setup" => at = "start"
    PROVE  RequestInv' /\ BootstrapInv' /\ NothingWithoutAccount'
<1>1. /\ task' = [task EXCEPT ![r] = [op |-> op, at |-> at, user |-> u,
                                      saw |-> saw, holds |-> holds]]
      /\ account' = account /\ totp' = totp /\ live' = live
  BY DEF Begin, rows
<1>2. task \in [Request -> Task]
  BY DEF IInv, TypeOK
<1>3. \A s \in Request \ {r} : task'[s] = task[s]
  BY <1>1, <1>2
<1>4. task'[r] = [op |-> op, at |-> at, user |-> u, saw |-> saw, holds |-> holds]
  BY <1>1, <1>2
<1>5. RequestInv'
  <2>1. RequestOK(r)'
    BY <1>1, <1>4 DEF RequestOK, Fresh, Exists
  <2>2. \A s \in Request \ {r} : RequestOK(s)'
    BY <1>1, <1>3, WaitingKeeps
  <2> QED
    BY <2>1, <2>2 DEF RequestInv
<1>6. BootstrapInv'
  <2>1. \A s \in Request \ {r} : op = "bootstrap" => task[s].user # u
    BY DEF Fresh
  <2>2. \A s \in Request \ {r} : task[s].op = "bootstrap" => task[s].user # u
    <3>1. CASE op = "bootstrap"
      BY <2>1, <3>1
    <3>2. CASE op # "bootstrap"
      BY <3>2 DEF IInv, RequestInv, RequestOK
    <3> QED
      BY <3>1, <3>2
  <2> QED
    BY <1>3, <1>4, <2>1, <2>2 DEF BootstrapInv, IInv
<1>7. NothingWithoutAccount'
  BY <1>1 DEF IInv, NothingWithoutAccount, Exists
<1> QED
  BY <1>5, <1>6, <1>7

LEMMA ReceiveIInv ==
    ASSUME IInv, NEW r \in Request, NEW u \in User, Receive(r, u)
    PROVE  RequestInv' /\ BootstrapInv' /\ NothingWithoutAccount'
<1>1. CASE BootstrapCount(r, u)
  BY <1>1, BeginIInv DEF BootstrapCount, Operation
<1>2. CASE LoginRead(r, u)
  BY <1>2, BeginIInv DEF LoginRead, Operation
<1>3. CASE TotpLoginRead(r, u)
  <2>1. Exists(u)
    BY <1>3 DEF TotpLoginRead, IInv, NothingWithoutAccount
  <2> QED
    BY <1>3, <2>1, BeginIInv DEF TotpLoginRead, Operation
<1>4. CASE SetupCheckTotp(r, u)
  BY <1>4, BeginIInv DEF SetupCheckTotp, Operation
<1>5. CASE RecoverRead(r, u)
  BY <1>5, BeginIInv DEF RecoverRead, Operation
<1>6. ASSUME NEW op \in {"reset", "resend", "delete"}, AdminRead(r, op, u)
      PROVE  RequestInv' /\ BootstrapInv' /\ NothingWithoutAccount'
  BY <1>6, BeginIInv DEF AdminRead, Operation
<1> QED
  BY <1>1, <1>2, <1>3, <1>4, <1>5, <1>6 DEF Receive

(* A request that ends, or goes on about the same user, takes nothing from *)
(* a bootstrap.                                                            *)
LEMMA BootstrapKept ==
    ASSUME IInv,
           \A s \in Request : \/ task'[s] = Idle
                              \/ /\ task'[s].op = task[s].op
                                 /\ task'[s].user = task[s].user
    PROVE  BootstrapInv'
<1> SUFFICES ASSUME NEW r \in Request, NEW s \in Request,
                    task'[r].op = "bootstrap", r # s
             PROVE  task'[s].user # task'[r].user
  BY DEF BootstrapInv
<1>1. /\ task[r].op = "bootstrap" /\ task'[r].user = task[r].user
      /\ task[r].user \in User
  BY DEF Idle, IInv, RequestInv, RequestOK
<1>2. CASE task'[s] = Idle
  BY <1>1, <1>2, AccountAssumption DEF Idle
<1>3. CASE task'[s].user = task[s].user
  BY <1>1, <1>3 DEF IInv, BootstrapInv
<1> QED
  BY <1>2, <1>3

(* The end of a request, and its next step, once the others are known to   *)
(* keep what they rely on.                                                 *)
LEMMA EndKeeps ==
    ASSUME IInv, NEW r \in Request, End(r),
           \A s \in Request \ {r} : task'[s] = task[s] => RequestOK(s)'
    PROVE  RequestInv' /\ BootstrapInv'
<1>1. task \in [Request -> Task]
  BY DEF IInv, TypeOK
<1>2. task'[r] = Idle /\ \A s \in Request \ {r} : task'[s] = task[s]
  BY <1>1 DEF End
<1>3. RequestOK(r)'
  BY <1>2 DEF RequestOK, Idle
<1> QED
  BY <1>2, <1>3, BootstrapKept DEF RequestInv

LEMMA MoveKeeps ==
    ASSUME IInv, NEW r \in Request, NEW at, NEW saw, NEW holds,
           Move(r, at, saw, holds),
           RequestOK(r)',
           \A s \in Request \ {r} : task'[s] = task[s] => RequestOK(s)'
    PROVE  RequestInv' /\ BootstrapInv'
<1>1. task \in [Request -> Task]
  BY DEF IInv, TypeOK
<1>2. /\ task'[r].op = task[r].op /\ task'[r].user = task[r].user
      /\ \A s \in Request \ {r} : task'[s] = task[s]
  BY <1>1 DEF Move
<1> QED
  BY <1>2, BootstrapKept DEF RequestInv

(* Nothing is left for an account that is gone when a step neither removes *)
(* an account nor gives anything to one that does not exist.               *)
LEMMA NothingKept ==
    ASSUME IInv,
           \A u \in User : Exists(u) => Exists(u)',
           \A u \in User : ~Exists(u)' =>
             /\ totp'[u] = totp[u] \/ totp'[u] = "none"
             /\ live'[u] = live[u] \/ live'[u] = FALSE
    PROVE  NothingWithoutAccount'
BY DEF IInv, NothingWithoutAccount

LEMMA AdvanceIInv ==
    ASSUME IInv, NEW r \in Request, Advance(r) \/ Abort(r)
    PROVE  RequestInv' /\ BootstrapInv' /\ NothingWithoutAccount'
<1>0. /\ RequestOK(r) /\ task \in [Request -> Task]
      /\ account \in [User -> Account \cup {NoAccount}]
      /\ totp \in [User -> {"none", "pending", "verified"}]
      /\ live \in [User -> BOOLEAN]
  BY DEF IInv, RequestInv, TypeOK
<1>1. ASSUME account' = account,
             NEW s \in Request \ {r}, task'[s] = task[s]
      PROVE  RequestOK(s)'
  BY <1>1, WaitingKeeps
<1>2. ASSUME NEW at, NEW saw, NEW holds, Move(r, at, saw, holds)
      PROVE  task'[r] = [op |-> task[r].op, at |-> at, user |-> task[r].user,
                         saw |-> saw, holds |-> holds]
  BY <1>0, <1>2 DEF Move
<1>3. CASE BootstrapInsert(r)
  <2> DEFINE u == task[r].user
  <2>1. /\ u \in User /\ account' = [account EXCEPT ![u] = NewAccount(TRUE)]
        /\ task[r].op = "bootstrap" /\ totp' = totp /\ live' = live
    BY <1>0, <1>3 DEF BootstrapInsert, At, RequestOK
  <2>2. ASSUME NEW s \in Request \ {r}, task'[s] = task[s], task[s].op # "none"
        PROVE  account'[task[s].user] = account[task[s].user]
    <3>1. task[s].user # u /\ task[s].user \in User
      BY <2>1, <2>2 DEF IInv, BootstrapInv, RequestInv, RequestOK
    <3> QED
      BY <1>0, <2>1, <3>1
  <2>3. ASSUME NEW s \in Request \ {r}, task'[s] = task[s]
        PROVE  RequestOK(s)'
    BY <2>2, <2>3, WaitingKeeps
  <2>4. RequestInv' /\ BootstrapInv'
    BY <1>3, <2>3, EndKeeps DEF BootstrapInsert
  <2>5. \A x \in User : Exists(x) => Exists(x)'
    <3>1. NewAccount(TRUE) # NoAccount
      BY NewAccountType, AccountAssumption
    <3>2. \A x \in User : account'[x] = IF x = u THEN NewAccount(TRUE) ELSE account[x]
      BY <1>0, <2>1
    <3> QED
      BY <3>1, <3>2 DEF Exists
  <2> QED
    BY <2>1, <2>4, <2>5, NothingKept
<1>4. CASE LoginAnswer(r) \/ Abort(r)
  <2>1. /\ End(r) /\ account' = account /\ totp' = totp /\ live' = live
    BY <1>4 DEF LoginAnswer, Abort, rows
  <2> QED
    BY <1>1, <2>1, EndKeeps, NothingKept DEF Exists
<1>5. CASE SetupReadUser(r)
  <2>1. /\ account' = account /\ totp' = totp /\ live' = live
        /\ task[r].op = "setup" /\ account[task[r].user] \in Account
    BY <1>0, <1>5 DEF SetupReadUser, At, rows, RequestOK, Exists
  <2>2. RequestOK(r)'
    <3>1. task'[r] = [op |-> task[r].op, at |-> "read",
                      user |-> task[r].user, saw |-> account[task[r].user],
                      holds |-> {}]
      BY <1>2, <1>5 DEF SetupReadUser
    <3> QED
      BY <1>0, <2>1, <3>1, AccountAssumption DEF RequestOK, Exists
  <2> QED
    BY <1>1, <1>5, <2>1, <2>2, MoveKeeps, NothingKept DEF SetupReadUser, Exists
<1>6. CASE UpdateUser(r)
  <2>1. /\ account' = account /\ totp' = totp /\ live' = live
        /\ task[r].op \notin {"none", "bootstrap"} /\ task[r].at = "read"
        /\ Exists(task[r].user)
    BY <1>6 DEF UpdateUser, rows
  <2>2. RequestOK(r)'
    <3>1. task'[r] = [op |-> task[r].op, at |-> After(task[r].op),
                      user |-> task[r].user, saw |-> task[r].saw,
                      holds |-> task[r].holds \cup {"user"}]
      BY <1>2, <1>6 DEF UpdateUser
    <3> QED
      BY <1>0, <2>1, <3>1, AccountAssumption DEF RequestOK, Exists, After
  <2> QED
    BY <1>1, <1>6, <2>1, <2>2, MoveKeeps, NothingKept DEF UpdateUser, Exists
<1>7. CASE ResetTotp(r)
  <2>1. /\ account' = account /\ totp' = totp /\ live' = live
        /\ task[r].op = "reset" /\ task[r].at = "written"
    BY <1>7 DEF ResetTotp, At, rows
  <2>2. RequestOK(r)'
    <3>1. task'[r] = [op |-> task[r].op, at |-> "commit",
                      user |-> task[r].user, saw |-> task[r].saw,
                      holds |-> task[r].holds \cup {"totp"}]
      BY <1>2, <1>7 DEF ResetTotp
    <3> QED
      BY <1>0, <2>1, <3>1, AccountAssumption DEF RequestOK, Exists
  <2> QED
    BY <1>1, <1>7, <2>1, <2>2, MoveKeeps, NothingKept DEF ResetTotp, Exists
<1>8. CASE DeleteRevokes(r)
  <2>1. /\ account' = account /\ totp' = totp
        /\ live' = [live EXCEPT ![task[r].user] = FALSE]
        /\ task[r].op = "delete" /\ task[r].at = "written"
    BY <1>8 DEF DeleteRevokes, At
  <2>2. RequestOK(r)'
    <3>1. task'[r] = [op |-> task[r].op, at |-> "commit",
                      user |-> task[r].user, saw |-> task[r].saw,
                      holds |-> task[r].holds]
      BY <1>2, <1>8 DEF DeleteRevokes
    <3> QED
      BY <1>0, <2>1, <3>1, AccountAssumption DEF RequestOK, Exists
  <2>3. \A u \in User : live'[u] = live[u] \/ live'[u] = FALSE
    BY <1>0, <2>1
  <2> QED
    BY <1>1, <1>8, <2>1, <2>2, <2>3, MoveKeeps, NothingKept DEF DeleteRevokes, Exists
<1>9. CASE Commit(r)
  <2> DEFINE u == task[r].user
  <2>1. /\ task[r].at = "commit" /\ task[r].op \notin {"none", "bootstrap"}
        /\ u \in User /\ account[u] \in Account /\ Written(r) \in Account
        /\ Written(r).super = account[u].super
        /\ account' = [account EXCEPT ![u] = Written(r)]
    BY <1>0, <1>9, WrittenType DEF Commit, RequestOK, Idle, Exists
  <2>2. ASSUME NEW s \in Request \ {r}, task'[s] = task[s]
        PROVE  RequestOK(s)'
    <3>1. ASSUME task[s].op # "none"
          PROVE  \/ account'[task[s].user] = account[task[s].user]
                 \/ /\ account[task[s].user] # NoAccount
                    /\ account'[task[s].user] # NoAccount
                    /\ account[task[s].user].super = account'[task[s].user].super
      <4>1. task[s].user \in User
        BY <3>1 DEF IInv, RequestInv, RequestOK
      <4> QED
        BY <1>0, <2>1, <4>1, AccountAssumption
    <3> QED
      BY <2>2, <3>1, WaitingKeeps
  <2>3. RequestInv' /\ BootstrapInv'
    <3>1. CASE task[r].op = "reset"
      <4>1. Move(r, "revoke", task[r].saw, {})
        BY <1>9, <3>1 DEF Commit
      <4>2. task'[r] = [op |-> "reset", at |-> "revoke", user |-> u,
                        saw |-> task[r].saw, holds |-> {}]
        BY <1>2, <3>1, <4>1
      <4>3. account'[u] = Written(r)
        BY <1>0, <2>1
      <4>4. RequestOK(r)'
        BY <1>0, <2>1, <3>1, <4>2, <4>3, AccountAssumption DEF RequestOK, Exists
      <4> QED
        BY <2>2, <4>1, <4>4, MoveKeeps
    <3>2. CASE task[r].op # "reset"
      BY <1>9, <2>2, <3>2, EndKeeps DEF Commit
    <3> QED
      BY <3>1, <3>2
  <2>4. \A x \in User \ {u} : totp'[x] = totp[x] /\ live'[x] = live[x]
    BY <1>0, <1>9 DEF Commit
  <2>5. account'[u] # NoAccount /\ \A x \in User : Exists(x) => Exists(x)'
    <3>1. Written(r) # NoAccount
      BY <2>1, AccountAssumption
    <3>2. \A x \in User : account'[x] = IF x = u THEN Written(r) ELSE account[x]
      BY <1>0, <2>1
    <3> QED
      BY <2>1, <3>1, <3>2 DEF Exists
  <2> QED
    BY <2>3, <2>4, <2>5, NothingKept DEF Exists
<1>10. CASE ResetRevokes(r)
  <2>1. /\ account' = account /\ totp' = totp
        /\ live' = [live EXCEPT ![task[r].user] = FALSE]
    BY <1>10 DEF ResetRevokes
  <2>2. \A u \in User : live'[u] = live[u] \/ live'[u] = FALSE
    BY <1>0, <2>1
  <2> QED
    BY <1>1, <1>10, <2>1, <2>2, EndKeeps, NothingKept DEF ResetRevokes, Exists
<1> QED
  BY <1>3, <1>4, <1>5, <1>6, <1>7, <1>8, <1>9, <1>10 DEF Advance

LEMMA SingleIInv ==
    ASSUME IInv, NEW u \in User, Single(u)
    PROVE  RequestInv' /\ BootstrapInv' /\ NothingWithoutAccount'
<1>0. /\ account \in [User -> Account \cup {NoAccount}]
      /\ totp \in [User -> {"none", "pending", "verified"}]
      /\ task' = task /\ live' = live
  BY DEF IInv, TypeOK, Single, Register, EnableTotp, VerifyTotp, DisableTotp,
         AdminSetActive
<1>1. BootstrapInv'
  BY <1>0, BootstrapKept
<1>2. CASE Register(u)
  <2>1. NewAccount(FALSE) # NoAccount
    BY NewAccountType, AccountAssumption
  <2>2. \A x \in User : account'[x] = IF x = u THEN NewAccount(FALSE) ELSE account[x]
    BY <1>0, <1>2 DEF Register
  <2>3. \A s \in Request : RequestOK(s)'
    <3> SUFFICES ASSUME NEW s \in Request
                 PROVE  RequestOK(s)'
      OBVIOUS
    <3>1. task[s].op # "none" => task[s].user \in User \ {u}
      BY <1>2 DEF Register, Fresh, IInv, RequestInv, RequestOK
    <3> QED
      BY <1>0, <2>2, <3>1, WaitingKeeps
  <2>4. NothingWithoutAccount'
    BY <1>0, <1>2, <2>1, <2>2, NothingKept DEF Register, Exists
  <2> QED
    BY <1>1, <2>3, <2>4 DEF RequestInv
<1>3. CASE EnableTotp(u) \/ VerifyTotp(u) \/ DisableTotp(u)
  <2>1. account' = account /\ Exists(u) /\ \A x \in User \ {u} : totp'[x] = totp[x]
    BY <1>0, <1>3
       DEF EnableTotp, VerifyTotp, DisableTotp, MayEnroll, Active
  <2>2. RequestInv'
    BY <1>0, <2>1, WaitingKeeps DEF RequestInv
  <2>3. NothingWithoutAccount'
    BY <1>0, <2>1, NothingKept DEF Exists
  <2> QED
    BY <1>1, <2>2, <2>3
<1>4. ASSUME NEW active \in BOOLEAN, AdminSetActive(u, active)
      PROVE  RequestInv' /\ BootstrapInv' /\ NothingWithoutAccount'
  <2> DEFINE a == [account[u] EXCEPT !.active = active]
  <2>1. /\ account[u] \in Account /\ a \in Account /\ a.super = account[u].super
        /\ account' = [account EXCEPT ![u] = a] /\ totp' = totp
    BY <1>0, <1>4 DEF AdminSetActive, Exists, Account
  <2>2. \A x \in User : account'[x] = IF x = u THEN a ELSE account[x]
    BY <1>0, <2>1
  <2>3. a # NoAccount /\ account[u] # NoAccount
    BY <2>1, AccountAssumption
  <2> HIDE DEF a
  <2>4. \A s \in Request : RequestOK(s)'
    <3> SUFFICES ASSUME NEW s \in Request
                 PROVE  RequestOK(s)'
      OBVIOUS
    <3>1. task[s].op # "none" => task[s].user \in User
      BY DEF IInv, RequestInv, RequestOK
    <3> QED
      BY <1>0, <2>1, <2>2, <2>3, <3>1, WaitingKeeps
  <2>5. NothingWithoutAccount'
    BY <1>0, <2>1, <2>2, <2>3, NothingKept DEF Exists
  <2> QED
    BY <1>1, <2>4, <2>5 DEF RequestInv
<1> QED
  BY <1>2, <1>3, <1>4 DEF Single

LEMMA TimeIInv ==
    ASSUME IInv, NEW u \in User, Time(u)
    PROVE  RequestInv' /\ BootstrapInv' /\ NothingWithoutAccount'
<1>0. /\ account \in [User -> Account \cup {NoAccount}]
      /\ totp \in [User -> {"none", "pending", "verified"}]
      /\ live \in [User -> BOOLEAN]
      /\ task' = task
  BY DEF IInv, TypeOK, Time, Elapse, TokensExpire, SessionsEnd, Cleanup
<1>1. BootstrapInv'
  BY <1>0, BootstrapKept
<1>2. CASE Elapse(u)
  <2> DEFINE a == [account[u] EXCEPT !.expiry = "past"]
  <2>1. /\ account[u] \in Account /\ a \in Account /\ a.super = account[u].super
        /\ account' = [account EXCEPT ![u] = a] /\ totp' = totp /\ live' = live
    BY <1>0, <1>2 DEF Elapse, Exists, Account
  <2>2. \A x \in User : account'[x] = IF x = u THEN a ELSE account[x]
    BY <1>0, <2>1
  <2>3. a # NoAccount /\ account[u] # NoAccount
    BY <2>1, AccountAssumption
  <2> HIDE DEF a
  <2>4. \A s \in Request : RequestOK(s)'
    <3> SUFFICES ASSUME NEW s \in Request
                 PROVE  RequestOK(s)'
      OBVIOUS
    <3>1. task[s].op # "none" => task[s].user \in User
      BY DEF IInv, RequestInv, RequestOK
    <3> QED
      BY <1>0, <2>1, <2>2, <2>3, <3>1, WaitingKeeps
  <2>5. NothingWithoutAccount'
    BY <2>1, <2>2, <2>3, NothingKept DEF Exists
  <2> QED
    BY <1>1, <2>4, <2>5 DEF RequestInv
<1>3. CASE TokensExpire(u) \/ SessionsEnd(u)
  <2>1. /\ account' = account /\ totp' = totp
        /\ \A x \in User : live'[x] = live[x] \/ live'[x] = FALSE
    BY <1>0, <1>3 DEF TokensExpire, SessionsEnd, rows
  <2>2. RequestInv'
    BY <1>0, <2>1, WaitingKeeps DEF RequestInv
  <2>3. NothingWithoutAccount'
    BY <2>1, NothingKept DEF Exists
  <2> QED
    BY <1>1, <2>2, <2>3
<1>4. CASE Cleanup(u)
  <2>1. /\ account[u] # NoAccount
        /\ \A s \in Request : task[s].user = u => "user" \notin task[s].holds
    BY <1>4 DEF Cleanup, Exists, Unlocked
  <2>2. /\ \A x \in User : account'[x] = IF x = u THEN NoAccount ELSE account[x]
        /\ \A x \in User : totp'[x] = IF x = u THEN "none" ELSE totp[x]
        /\ \A x \in User : live'[x] = IF x = u THEN FALSE ELSE live[x]
    BY <1>0, <1>4 DEF Cleanup
  <2>3. \A s \in Request : RequestOK(s)'
    <3> SUFFICES ASSUME NEW s \in Request
                 PROVE  RequestOK(s)'
      OBVIOUS
    <3>1. task[s].op # "none" => task[s].user \in User
      BY DEF IInv, RequestInv, RequestOK
    <3> QED
      BY <1>0, <2>1, <2>2, <3>1, WaitingKeeps
  <2>4. NothingWithoutAccount'
    BY <2>2 DEF IInv, NothingWithoutAccount, Exists
  <2> QED
    BY <1>1, <2>3, <2>4 DEF RequestInv
<1> QED
  BY <1>2, <1>3, <1>4 DEF Time

LEMMA NextIInv ==
    ASSUME IInv, [Next]_vars
    PROVE  IInv'
<1>1. TypeOK'
  BY NextTypeOK
<1>2. CASE Next
  BY <1>1, <1>2, ReceiveIInv, AdvanceIInv, SingleIInv, TimeIInv DEF Next, IInv
<1>3. CASE UNCHANGED vars
  <2>1. RequestInv' /\ BootstrapInv' /\ NothingWithoutAccount'
    BY <1>3 DEF IInv, RequestInv, RequestOK, BootstrapInv,
                NothingWithoutAccount, Exists, vars
  <2> QED
    BY <1>1, <2>1 DEF IInv
<1> QED
  BY <1>2, <1>3

(* The strengthening holds in every state.                                 *)
THEOREM Invariance == Spec => []IInv
BY InitIInv, NextIInv, PTL DEF Spec

(* Every variable has its type, and a deleted account is no superuser's:   *)
(* whatever else happens between the check of delete_user and its commit.  *)
THEOREM TypeCorrect == Spec => []TypeOK
BY Invariance, PTL DEF IInv

(* A removed account leaves no enrolment and no session behind, and no     *)
(* request under way when cleanup took it adds one.                        *)
THEOREM NothingOutlivesAccount == Spec => []NothingWithoutAccount
BY Invariance, PTL DEF IInv

(* What a step can do to an account that exists.                           *)
LEMMA AccountStep ==
    ASSUME IInv, [Next]_vars, NEW u \in User, Exists(u)
    PROVE  \/ account'[u] = account[u]
           \/ Elapse(u) /\ account'[u] = [account[u] EXCEPT !.expiry = "past"]
           \/ Cleanup(u)
           \/ \E active \in BOOLEAN :
                /\ AdminSetActive(u, active)
                /\ account'[u] = [account[u] EXCEPT !.active = active]
           \/ \E r \in Request :
                Commit(r) /\ task[r].user = u /\ account'[u] = Written(r)
<1>0. account \in [User -> Account \cup {NoAccount}] /\ RequestInv
  BY DEF IInv, TypeOK
<1>1. ASSUME NEW r \in Request, NEW v \in User, Receive(r, v)
      PROVE  account' = account
  BY <1>1 DEF Receive, BootstrapCount, LoginRead, TotpLoginRead, SetupCheckTotp,
              RecoverRead, AdminRead, Begin, rows
<1>2. ASSUME NEW r \in Request, BootstrapInsert(r)
      PROVE  account'[u] = account[u]
  <2>1. task[r].user # u
    BY <1>0, <1>2 DEF BootstrapInsert, At, RequestInv, RequestOK
  <2> QED
    BY <1>0, <1>2, <2>1 DEF BootstrapInsert
<1>3. ASSUME NEW r \in Request, Commit(r)
      PROVE  \/ account'[u] = account[u]
             \/ task[r].user = u /\ account'[u] = Written(r)
  BY <1>0, <1>3 DEF Commit
<1>4. ASSUME NEW r \in Request,
             \/ LoginAnswer(r) \/ SetupReadUser(r) \/ UpdateUser(r)
             \/ ResetTotp(r) \/ DeleteRevokes(r) \/ ResetRevokes(r) \/ Abort(r)
      PROVE  account' = account
  BY <1>4 DEF LoginAnswer, SetupReadUser, UpdateUser, ResetTotp, DeleteRevokes,
              ResetRevokes, Abort, rows
<1>5. ASSUME NEW v \in User, Register(v)
      PROVE  account'[u] = account[u]
  BY <1>0, <1>5 DEF Register, Fresh
<1>6. ASSUME NEW v \in User, EnableTotp(v) \/ VerifyTotp(v) \/ DisableTotp(v)
      PROVE  account' = account
  BY <1>6 DEF EnableTotp, VerifyTotp, DisableTotp
<1>7. ASSUME NEW v \in User, NEW active \in BOOLEAN, AdminSetActive(v, active)
      PROVE  \/ account'[u] = account[u]
             \/ v = u /\ account'[u] = [account[u] EXCEPT !.active = active]
  BY <1>0, <1>7 DEF AdminSetActive
<1>8. ASSUME NEW v \in User, Time(v)
      PROVE  \/ account'[u] = account[u]
             \/ v = u /\ Cleanup(v)
             \/ /\ v = u /\ Elapse(v)
                /\ account'[u] = [account[u] EXCEPT !.expiry = "past"]
  BY <1>0, <1>8 DEF Time, Elapse, TokensExpire, SessionsEnd, Cleanup, rows
<1> QED
  BY <1>1, <1>2, <1>3, <1>4, <1>5, <1>6, <1>7, <1>8
     DEF Next, Advance, Single, vars

(* An active superuser stays active whatever administrators do at the same *)
(* time: their checks cannot go stale, because nothing makes a superuser   *)
(* of somebody who was none when they looked.                              *)
THEOREM SuperusersRemain == Spec => SuperusersStay
<1>1. IInv /\ [Next]_vars =>
        [\A u \in User : Active(u) /\ account[u].super =>
           \/ Exists(u)' /\ account'[u].active /\ ~account'[u].deleted
           \/ \E r \in Request : /\ task[r].op = "recover" /\ task[r].user = u
                                 /\ Commit(r)]_vars
  <2> SUFFICES ASSUME IInv, [Next]_vars, NEW u \in User, Active(u), account[u].super,
                      \A r \in Request :
                        ~(task[r].op = "recover" /\ task[r].user = u /\ Commit(r))
               PROVE  Exists(u)' /\ account'[u].active /\ ~account'[u].deleted
    OBVIOUS
  <2> DEFINE Serves(a) == a \in Account /\ a.active /\ ~a.deleted
  <2>1. Exists(u) /\ Serves(account[u])
    BY DEF Active, Exists, IInv, TypeOK
  <2>2. CASE account'[u] = [account[u] EXCEPT !.expiry = "past"]
    BY <2>1, <2>2, AccountAssumption DEF Account, Exists
  <2>3. ASSUME NEW active \in BOOLEAN, AdminSetActive(u, active),
               account'[u] = [account[u] EXCEPT !.active = active]
        PROVE  Serves(account'[u])
    <3>1. active
      BY <2>3 DEF AdminSetActive
    <3> QED
      BY <2>1, <2>3, <3>1 DEF Account
  <2>4. ASSUME NEW r \in Request, Commit(r), task[r].user = u,
               account'[u] = Written(r)
        PROVE  Serves(account'[u])
    <3>1. Written(r) \in Account
      BY <2>4, WrittenType DEF Commit
    <3>2. task[r].op \notin {"recover", "reset", "resend", "delete"}
      BY <2>1, <2>4 DEF IInv, RequestInv, RequestOK
    <3>3. Written(r).active /\ ~Written(r).deleted
      BY <2>1, <2>4, <3>2 DEF Written, Account
    <3> QED
      BY <2>4, <3>1, <3>3
  <2>5. ~Cleanup(u)
    BY <2>1 DEF Cleanup
  <2>6. CASE Serves(account'[u])
    BY <2>6, AccountAssumption DEF Exists
  <2> QED
    BY <2>1, <2>2, <2>3, <2>4, <2>5, <2>6, AccountStep
<1> QED
  BY <1>1, Invariance, PTL DEF Spec, SuperusersStay

=============================================================================
