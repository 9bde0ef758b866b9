# A verification project for Dhanada

Dhanada is a FastAPI/SQLAlchemy back end on PostgreSQL (`src/backend/src/dhanada`: an
authentication service and a small CRM) with a Vue front end (`src/frontend/src`). This
directory holds TLA+ models of the parts whose correctness depends on the order in which
things happen, TLC configurations that check them on small instances, and TLAPS proofs.
Paths below without a prefix are under `src/backend/src/dhanada/`; `fe/` stands for
`src/frontend/src/`.

## 1. Inventory

How the program runs. One asyncio process (or several) serves HTTP. Each request builds its
own `AuthManager`; each of its methods is one database transaction
(`auth/db/session.py:62-77`: yield, commit, and on any exception rollback and re-raise).
Isolation is READ COMMITTED, nothing uses `FOR UPDATE`, and updates are "by id": what a
handler read may be stale when it writes. Beside the requests a loop deletes expired
accounts every 900 s (`main.py:31-39`). Browsers keep two tokens in `localStorage`.

| Component | State | Operations | Interacts with | Hard behaviour | What makes it correct |
|---|---|---|---|---|---|
| Refresh-token sessions (`auth/services/token_service.py`) | rows of `refresh_tokens`: owner, family, parent, revoked_at, replaced_at | login's insert, rotate, reuse, logout, logout-all, cascade | users table, browser | overlapping requests on one token, rollback of an answer that is an exception, row locks | rotation is all or nothing; a spent token or dead family stays so; one token of a family can be exchanged; what logout found is revoked |
| Browser API client (`fe/composables/useApi.ts`, `utils/token.ts`, `stores/auth.ts`) | two stored tokens; `isRefreshing` and `pendingRequests` per page | request, 401, shared refresh, replay, login, logout, reload | sessions, over HTTP | overlapping calls, tabs with common storage, late replies, reload | one refresh at a time; nothing but a loss leaves a spent token behind; every call is settled |
| Account lifecycle (`auth/api.py`, `user_service.py`, `db/repository.py`, `main.py`) | users row: superuser, active, deleted, expires_at; TOTP row; tokens handed out | register, bootstrap, login 1 and 2, setup, recover, reset, resend, delete, (de)activate, cleanup | sessions, TOTP, e-mail | reads that are stale by the write, JWTs that outlive what they were issued for, cleanup beside everything | superusers stay; cleanup takes only the abandoned and leaves nothing behind; abandoned accounts go |
| Login lockout (`user_service.py:127-166`) | failed_login_attempts, locked_until | authenticate | users row | counter written in a transaction that is rolled back; overlapping attempts | after the threshold, locked for the period |
| TOTP and backup codes (`totp_service.py`) | secret, is_verified, backup_codes | enable, verify, disable, recover | lifecycle | overlapping enrolments; read-modify-write of the code list | a code is used once; the verified secret is the one presented |
| Password reset and change (`password_reset_service.py`) | password, password_reset_version | request, reset, change | sessions | the same link twice; order of row locks | single use; sessions end |
| E-mail verification (`verification_service.py`) | email_verified | send, verify | lifecycle | the address changes between send and verify | a verified flag belongs to the present address |
| Roles, permissions, apps (`role_service.py`, `repository.py:186-268, 375-423`) | user_roles, permissions, user_apps | assign, revoke, create, delete | lifecycle, CRM | check-then-insert without a constraint | one row per assignment; a deleted role gives nothing |
| CRM clients (`crm/services.py:38-278`) | clients rows, PAN hash and ciphertext | create, update, soft/hard delete, restore, PAN | documents (cascade) | delete against restore; unique PANs | an active client is never hard-deleted |
| CRM documents (`crm/services.py:294-648`, `crm/storage.py`) | documents rows and files | create, update, soft/hard delete, restore, photos | file system | a row and a file without a common transaction, crashes | a row's file exists; no orphan files |
| Keys (`auth/crypto`, `auth/auth/jwt.py`, `scripts/rehash_pans.py`) | KEK and JWT key lists | encrypt, decrypt, rotate, rehash | CRM, TOTP, tokens | key ids are positions in a configured list | what was encrypted or signed stays readable after a rotation |
| Browser views, router, admin store | wizard state, search | navigation, search | API client | answers out of order | the shown page belongs to the last search |
| E-mail transport, audit log, rate limiting, configuration, schemas, migrations | none of their own, or a library's | | | | not modelled: I/O and declarations |

`PROJECT.json` lists the hazards line by line, with the properties that watch them; where none
does, a note says why.

## 2. The modules

| Module | Models | Run by | Proved in |
|---|---|---|---|
| `RefreshSessions` | TokenService and the transactions around it | `MCRefreshSessions` | `RefreshSessionsProofs` |
| `TokenChains` | what refresh tokens promise, without requests or transactions (abstract) | `MCRefreshSessions`, through `ImplementsChains` | `RefreshSessionsProofs` |
| `ApiClient` | the interceptors, the stored tokens, and an abstract server | `MCApiClient` | `ApiClientProofs` |
| `AccountLifecycle` | everything that changes whether an account may be used | `MCAccountLifecycle` | `AccountLifecycleProofs` |
| `Credentials` | password, reset link, address, verification and lockout of one account | `MCCredentials` | `CredentialsProofs` |
| `TotpCodes` | the second factor and the backup codes of one account | `MCTotpCodes` | `TotpCodesProofs` |
| `Rbac` | roles, permissions, links, app membership, the permission check | `MCRbac` | `RbacProofs` |
| `RoleBook` | what roles and memberships amount to, as sets (abstract) | `MCRbac`, through `ImplementsRoleBook` | `RbacProofs` |
| `CrmRecords` | clients, documents and the document files | `MCCrmRecords` | `CrmRecordsProofs` |
| `CrmBook` | what the CRM promises of its records, one entry at a time (abstract) | `MCCrmRecords`, through `ImplementsBook` | `CrmRecordsProofs` |
| `KeyRotation` | KEKs, signing keys, and the script that moves the PAN hashes | `MCKeyRotation` | `KeyRotationProofs` |

**How they compose.** Each component is checked by itself, with what it needs of another in the
least form that matters. Three of them implement an abstract specification, which is what every
other part may assume: `RefreshSessions` of tokens (`TokenChains`), `Rbac` of roles (`RoleBook`),
`CrmRecords` of records (`CrmBook`). `ApiClient` sees the server as a set `spent` of refresh tokens
that are refused, and serves one request at a time; `AccountLifecycle` sees it as one flag per user,
`live`: some token works. `Credentials` and `TotpCodes` are the two halves of an account that
`AccountLifecycle` abstracts to "a credential check may succeed": they assume that the account
exists, while `AccountLifecycle` has its creation and removal and what happens to the second
factor's row as a whole. The cleanup of accounts reappears as the cascade `DeleteUser` in `Rbac` and
`CrmRecords`. The permission check in front of a CRM operation is `Rbac!Use`; the operation itself
is `CrmRecords`', and the key under which it stores a PAN `KeyRotation`'s.

**Transactions.** All the back-end modules treat them alike. A request is a slot `r` whose
`task[r]` (or `pc[r]`) says which statement comes next. A read happens when the request begins or
at the statement that makes it; an UPDATE, INSERT or DELETE is a step that waits while another
request holds the row (`Locked`, `Waits`, `Blocked`); what it wrote appears in the shared variables
at `Commit`; `Abort`, which covers exceptions, lost connections and crashes, is possible at every
statement and leaves the shared variables alone. `overlapped`, `view` and `saw` are history: they
say whether a commit has come between the read and now, so that a property can except exactly
the requests it must.

### RefreshSessions

A request is a program counter `pc[r]` over SQL statements. `stored`, `revoked`, `replaced`
are committed columns; what a transaction has written and not committed is a function of
`pc`, `new` and `marked` (`Inserts`, `Replaces`, `Locks`). An UPDATE waits until nobody else
holds its rows (`Blocked`) and then re-evaluates its WHERE clause (`Found`): that is READ
COMMITTED in PostgreSQL. `revoke_user_tokens` and `revoke_family` choose their rows at the
snapshot (`LogoutAllSelect`, `ReuseSelect`) and update them when all locks are free
(`UpdateRevoked`); taking the locks together is the one coarsening, so deadlocks among
multi-row updates, which PostgreSQL's detector would end by an abort, appear only as `Abort`.
`Abort` (an exception, a lost connection, a crash of the process) is possible at every
statement. `HardDelete` is the cleanup's DELETE with its cascade; it waits for the row locks
and for the key-share lock of an uncommitted insert. Requests that change nothing (unknown,
expired or revoked token) are stuttering.

### ApiClient

JavaScript is not interrupted between two awaits, so an action is one such stretch:
`Send` (the request interceptor), the outcomes of a 401 (`NoRefreshToken`, `Enqueue`,
`Lead`), the end of the refresh (`RefreshSucceeds`, `RefreshFails`) and the caller's own
use of a reply (`Resolve`, `Reject`, with what login, logout and `fetchUser` do to the
tokens). A pair of tokens is the number of its issue. `refreshTokens()` uses the same axios
instance as every call, so a page's refresh request (named by the page itself) goes through
`Enqueue` when it is answered 401: then it waits for its own completion (`Wedged`). A
replay carries the token found in storage, because the request interceptor overwrites the
header that the replay sets; at that moment both are the same. The navigation set off by
`window.location.href` is `leaving`, and happens later (`Reload`), which drops whatever the
page awaited.

### AccountLifecycle

Requests whose effects depend on a stale read have steps of their own: read, UPDATE of the users row
(which holds the row to the end), further statements, commit. Requests that consist of one
conditional change (`Register`, `EnableTotp`, `AdminSetActive`, ...) are one action, a coarsening
for the TOTP operations, whose reads and writes are separate steps in `TotpCodes`. An id is a uuid
and drawn once: `Fresh` keeps the ids of accounts that were removed out of use as long as a request
or a token refers to them; after that a new account under the same id is like any other. JWTs are
not stored by the server, so `setupToken[u]` and `sessionToken[u]` say that somebody holds a valid
one; they disappear only by time (`TokensExpire`). `expiry` is `expires_at` against the clock.
`delete_user` revokes in a nested transaction that commits first (`DeleteRevokes`),
`reset_user_auth` in one that follows (`ResetRevokes`). `staffed` distinguishes an installation with
an active superuser outside the modelled accounts from an empty one; it is chosen initially.
Passwords, user names, e-mails and TOTP secrets are abstracted: a credential check may succeed or
not.

### TokenChains

The abstract specification. A token is offered (a login, or a refresh of a token that was good
when it was presented), then settled or withdrawn; settling it spends its parent in the same step.
Tokens are revoked and expire for good, and a user goes with all tokens. The refinement mapping of
`RefreshSessions` (`Chain`, `Offered`, and `spent <- replaced`) is: a stored row is settled, a
row that a request has drawn and not committed is an offer, `replaced` are the spent tokens. A
commit is one abstract step, an abort withdraws, every other statement stutters. The interleavings,
locks, the rolled-back reuse answer and the forks of a family all map to this.

### Credentials

One account with its password, the version that its reset links carry, its address and its
`email_verified`. `Login`, `ChangePassword`, `ResetPassword`, `SetPassword`, `ResendWelcome`,
`UpdateProfile`, `AdminUpdate` and `VerifyEmail` read and decide; `Update` writes the operation's
own columns under the lock (`Row`); `Commit` stores them and marks who has been overlapped. A failed
login goes on to `Count` and `Raise`, where the exception undoes the counter: `account` is never
locked in any reachable state (`NeverLocked`), and `locked` is there because the code tests it. A
reset compares the version that it has read and writes by id, so two that overlap both pass with one
link (`ResetLinkIsSingleUse` is violated). Links are values in mailboxes that expire: `resetLinks`
holds versions, `verifyLinks` addresses. A verification link names the user, so one mailed to an old
address verifies the new one: the step is in the model, and no property excludes it because the code
does not.

### TotpCodes

The row of `totp_secrets` for one account. A batch is what one enrolment or regeneration draws: it
names the row's id, its secret and its codes. `PresentCode` reads the list and remembers it without
the code (`Remaining`). An enrolment reads twice: `Enable` sees whether a verified row is there,
`Look` is the SELECT of `upsert`, which takes whatever row it finds by then, verified or not, for an
UPDATE, and inserts if there is none. `Write` finds the row by the id that was read last, or misses
it: an enrolment then fails, a recovery looks again by user (`Reread`, `Delete`), everything else
commits without having written. `disable` reads twice as well (`totp_service.py:218` and `:168`),
and that is one step: the session gives back the object it has as long as it is the same row; a row
replaced and verified between those two reads is left out. A login only reads: `verify_totp_only`
removes no backup code, so a code may be used to log in any number of times; `spent` are the codes
accepted by the operations that do remove them. A batch is drawn again only when nothing of it is
left anywhere (`Fresh`).

### Rbac

`held[u][i]` counts the rows of `user_roles` for the pair, because the table has no unique
constraint: two overlapping assignments leave two rows. The inserts of roles, permissions and
memberships do have one, and `Waits` and `BreaksConstraint` are what PostgreSQL makes of it.
A checked operation is two transactions: `CheckPermission` in the first, `Act` in the second.
`Unregister` and `RemovePermission` end in `Raise`: both endpoints pass a keyword that the service's
method does not have (`auth/fastapi/router.py:1235`, `:1171`). `require_permission`, the
dependency in front of the endpoints for roles, ignores the answer of the check and so refuses
nobody; those requests have no guard here for that reason. Superusers hold every permission and
are left out of `User`.

### RoleBook

The tables of `Rbac` as whoever asks for a permission sees them: sets of roles, permissions,
holders and members, changed by one whole operation at a time. The mapping `Holders` says that a
role is held when one row or more says so: a second assignment of a pair is no step, and neither is
a revocation that leaves the row it was overtaken by. `Create` needs a free name and a free id,
`Grant`, `Assign` and `Register` need both ends, `Delete` and `RemoveUser` leave nothing behind.

### CrmRecords

Clients and documents have the same operations and are one function `rows`; a client's `label` is
the hash of its PAN, a document's its number, both unique. Inserts wait for a pending insert of the
same label (`LabelPending`) and for the parent's row lock (`KeyShare`); a delete waits for both. The
files are outside the transaction: `StoreFile` writes one before the commit, `Unlink` removes one
before the row is deleted, and neither is undone by `Abort`. `HardDelete...` looks at `is_active`
when it reads and deletes by id, which is why a client restored in between is lost
(`ActiveRecordsStay` names this case). Columns without a constraint are one; dates, names and
formats are left out.

### CrmBook

The records without requests, locks, constraints, files or rollbacks. `Enter` is made by a user
who exists, about a client who is in the book, under a free label; `Relabel` and `SetActive` change
what they are about and nothing else; `Remove` takes the documents along, `RemoveUser` everything
the user made. `CrmRecords` maps to it with the same `users` and `rows`: only `Commit` and
`DeleteUser` are steps of it. That a commit is one whole step, although its request decided long
before and others committed in between, is what the row locks and the unique indexes are for.

### KeyRotation

`keks` is the configured list, oldest first, the current one last; a payload carries the position
of its key. `RotateKek` appends, `DropOldestKek` shortens the list at the front, so that every
position shifts. `signing` holds the current key with its id and the previous ones, which get
the ids `previous_<i>` (`PreviousId`) whatever they signed with. A rotation is one step, as if all
processes restarted together. `script` is a run of `rehash_pans.py` beside the
application: the rows as it read them at the start, the rows left, those written and not yet
committed, and the commit after every `CommitEvery` rows; it may fail at a row or be killed. It reads
the KEK once (`kek`) and goes on with it over any rotation, as `main` does; the KEK of the environment
and the SELECT are read in one step, so a rotation between those two is not in the model.

## 3. The runs

| Run | Question | Bounds |
|---|---|---|
| `sessions` | Do rotation, revocation and the cascade keep their promises when two requests overlap, when does a family have two live tokens, what does the detection of reuse end, and is all of it a `TokenChains`? | 2 users, 3 tokens, 2 requests, symmetric |
| `client_pages` | What strands two tabs with a spent token, and is every call settled, with reloads and sessions that end? | 2 pages, 3 calls, 6 pairs |
| `client_faults` | Does the bookkeeping survive failures, logins, logouts and reloads? | 1 page, 2 calls, 4 pairs |
| `account_lifecycle` | Cleanup, superusers, requests that overlap on one account; do abandoned accounts go? | 1 account, 2 requests |
| `credentials` | Whose password gets stored, who writes which column, and is an account ever locked? | 2 passwords, 2 addresses, 3 versions, threshold 2, 2 requests |
| `reset_link_reused` | violated: a reset link is single-use | the same |
| `totp_codes` | When is a backup code gone for good, and what confirms or removes a second factor? | 3 batches of 2 codes, 2 requests |
| `backup_code_reused` | violated: a backup code is single-use | the same |
| `rbac` | What do overlapping assignments, revocations, deletions and checks leave, and is it a `RoleBook`? | 2 users, 2 roles, 2 names, 1 permission, 1 app, 2 requests |
| `crm_records` | Do rows and files stay in step, and are the rows a `CrmBook`? | 2 users, 2 clients, 1 document, 2 PANs, 1 number, 2 requests |
| `key_rotation` | What stays readable, whose hash is stored, and what does a run of the script leave? | 2 KEKs, 2 signing keys, 1 key id, 3 clients, 2 PANs, commit after 2 rows |
| `old_tokens_refused` | violated: tokens of a previous key verify | 2 KEKs, 2 signing keys, 3 key ids, 2 clients, 2 PANs |

**Why the bounds are enough.** The races of this code are between two transactions: one
reads, the other commits, the first writes. Two request slots, reused without end, give
every such pair, and every sequence of pairs. Three tokens are a token, its child and a
fork of either (or a token of another session); the two users are needed so that a
revocation could hit the wrong one. In the client two calls make a leader and a follower; with a
third, one page has both while the other page refreshes. `MaxPairs` bounds how often
tokens are issued; `Expire` leaves as many pairs unexpired as there are calls so that no
call is starved by the bound. Three batches are the one in the row, the one being drawn, and the
one a slow request still has in hand; two codes make a batch from which one is used and one remains.
`MaxResets = 2` gives a link that is used, its successor, and one more to come back from. One
document is enough beside two clients because documents meet only through their client and their
number, and two PANs make every clash. `CommitEvery = 2` stands for the script's 100: with three
clients a run has a full batch and a short one, fails or is killed in the second after it has committed
the first, and goes on over a rotation. (With two PANs the third row of a run is one whose client was
removed or has changed meanwhile; the key ids of tokens, which the script has nothing to do with, are in
the other run of the module.) Beyond these sizes the
proofs take over: every safety property of the passing runs holds for all values of the constants,
`ReplayIsNewer` for those without logins.

`CHECK_DEADLOCK FALSE` is for three runs. `client_pages` may stop for good when a page is wedged, a
state that the program has. `crm_records` stops when all users have been deleted, since none is
ever added. `totp_codes` stops when every batch has a used code in the history: that is the bound.

A spent token in storage cannot be excluded: a page that leaves between the server's rotation and
`setRefreshToken` leaves one. So `StrandedByLossOnly` says what else may: nothing but a session
ended from elsewhere. It is about `InGoodHands`, the states in which the stored token is good, or a
page has the reply to its refresh in hand: no step but those losses leads out of them.
`client_pages` therefore runs with reloads and ended sessions, and without network failures: that
every call ends is therefore not checked for a refresh that is lost. `client_faults` adds network
failures, logins and logouts, and the theorem covers all of them together.

**Fairness.** `ApiClient!FairSpec`: a request that was sent is answered, a reply is handled,
a page that has set `window.location` goes. Nothing obliges a user to act. Failures need no
fairness: a lost reply is an error reply. `AccountLifecycle!FairSpec`: time passes; a request
goes on or is aborted (weak, a handler never rests); the cleanup is strongly fair because
its loop comes round every 900 s and even survives its own exceptions, while the row it needs may
be locked whenever it looks. `AbandonedAccountsGo` assumes that renewals (reset, resend,
recover) stop, for an administrator who resends for ever keeps an account for ever. The other
modules promise nothing in the end: no code obliges a user to come back, and their runs need no
fairness.

**Claims that the code does not keep.** `findings` in `PROJECT.json` has the quotes. Three are runs
that TLC refutes. Two overlapping resets with one link both set a password, and two overlapping
requests with one backup code are both accepted, although reset links and backup codes are promised
to be single-use: both handlers compare what they have read and write by id. A token signed before a
rotation of the signing key names an id that the ring does not have afterwards, so a rotation ends
every session. Two are stated the other way round, as what the code does in every reachable state,
and proved: the revocation of a reused family is undone by the exception that reports the reuse, so
replay ends no session (`SessionsEndByTheirOwners`); the lockout counter is undone by the exception
that reports the failed login, so no account is ever locked (`NeverLocked`).

**What the models contain and the properties except.** The code prevents none of these: overlapping
refreshes of one token fork its family, and a logout-all misses the child that a concurrent refresh
commits; two overlapping bootstraps make two founders; `complete_setup` acts on a TOTP status and an
expiry that it does not look at again, so an account may be active without TOTP or revived after its
time; a token handed out before a soft delete still buys a session; a hard delete takes a client
that was restored after it looked; a crash between `Unlink` and the commit leaves a row without its
file, and a rollback after `StoreFile` a file without a row; a reset that overlaps others takes the
version of the links back; a request that has read the list of backup codes before one was used may
accept it as well, or write it back. The properties name these orders as their exceptions
(`overlapped`, `overtaken`, `view`, `saw`, `unlinked`, `Carried`) and hold for all others: they say
that nothing else goes wrong, not that these do not. Of the single use of links and codes the
repository does claim more, which the two violated runs are about.

**Properties that describe a defect.** `WedgedUntilReload`: once a refresh is refused with 401, the
page's calls are never settled until it is loaded again, instead of going to /login; `EveryCallEnds`
says that this is the only such state. `ReadableUntilDrop`: dropping one previous KEK makes every
payload unreadable, also those under the current key, since their positions shift. `HashFollowsPan`:
the script may overwrite the hash of a PAN stored since it began, and does so in no other way.
`SessionsEndByTheirOwners` and `NeverLocked` belong here too: each would be violated by the code
that the documents describe, and its mutant is that code.

## 4. What is proved

The theorems hold for any values of the constants under the assumptions named in the modules, which
only say that NULL, "no row" and "nobody" are none of the values they stand beside, that kinds of
ids are apart, and that bounds are numbers. Every safety property of the passing runs is a theorem,
the three refinements included. One has a hypothesis: `ReplayIsNewer` is proved for `"login" \notin
Kind`, since a login that a queued call meets half-way may bring it a token of another line. In each
proof module `IInv` is the inductive invariant; each kind of step has a lemma, `Invariance` puts
them together, and the action properties follow from `IInv` in the state before the step.

### RefreshSessionsProofs

A committed row says nothing about transactions that are still under way. `IInv` is `TypeOK`,
`RotationIsAtomic` and `SessionsHaveUsers` with four parts that strengthen them:

* `TableInv`: committed tokens have rows, and only committed tokens are marked;
* `RequestInv`: what a request holds at each of its statements (a token drawn, a parent, a user
  that exists, rows that are still stored);
* `PendingInv`: a token drawn by a request is not stored, and no other request has it;
* `LineageInv`: a drawn child agrees with its parent in family and owner, and the parent is
  committed, or was deleted together with its user.

The lemmas are `DrawInv` (login and refresh begin), `StatementInv` (a statement that only moves on),
`QuietInv` (nothing about tokens changes), `RollbackInv`, `CommitInv` (where the pending rows become
stored, the heart of it) and `HardDeleteInv` (where the cascade must take parents and children
together, because they have one owner). `Refinement` needs in addition that what a logout selects
and marks belongs to one user (`OwnerInv`): then `RefinementStep` gives each commit its one step of
`TokenChains`. `FamiliesHaveOneLeaf` needs `FamilyInv`: a family is named by its first token, the
only one without a parent, which was committed before it had a second and has the same owner. A
commit then moves the one unspent token along (`LeafCommit`), a hard delete takes the family whole
(`LeafHardDelete`), and a second unspent token needs a second child, which is what `Forked` says.
`ReplayEndsNothing` goes through the statements: a revocation reaches the committed columns only at
a commit, and a request that has detected reuse has none.

### AccountLifecycleProofs

`NothingWithoutAccount` is not inductive, since a commit writes to the account that its
request looked up several statements ago. `IInv` adds

* `RequestInv`: a request past its UPDATE holds the users row, and a held row exists (cleanup waits
  for it); an operation of the administrator is never about a superuser, although it looked at
  that column long before; a bootstrap is about an id that has no row;
* `BootstrapInv`: and that nobody else refers to.

`WaitingKeeps` says once what a request that does not move may rely on when another step changes
its account; `BeginIInv`, `EndKeeps` and `MoveKeeps` treat the request that does move.
`AccountStep` lists what a step can do to an existing account, from which `SuperusersStay` follows.

### ApiClientProofs

`SharedInv`: a page is free (nobody leads, nobody queues, no refresh request) or refreshes for
exactly one leader. This gives `RefreshIsShared`, whose `Cardinality` would be no help as a
hypothesis, and `WedgedUntilReload`. Two more invariants are about the pairs of tokens, both with
every failure, logout and reload. `NewestInv`, where nobody logs in: the server takes at most the
newest pair, and while one is on its way to a page everybody else has older ones; `ReplaysAreNewer`
follows. `FreshInv`, with logins too: a pair on its way to a page is nobody else's, neither stored
nor carried nor presented by another request, so whatever the server spends meanwhile is not what
the page is about to store. `TokensAreStrandedByLossOnly` goes through the actions with it.

### CredentialsProofs

`Read`: what a request has read is in the row unless it is marked as overlapped. `Ready` and
`OneWriter`: the row a request has written is the committed one but for its own columns, because
nobody else writes before it ends. Every commit then changes those columns only.
`LockoutNeverHappens`: at any threshold, no failed login is ever counted, because the counter is
written by transactions that raise and by nobody else. `OldLinksStayDead` is what is left of the
single use that `reset_link_reused` refutes: a link that is out of date, and that no reset under way
has read as present, never fits again.

### TotpCodesProofs

`Read` and `Writes` as before. The one difficulty is that a request may miss its row, commit without
having written, and yet its code counts as accepted: it must not be in the row that is there instead.
`Own` and `Apart` say that a batch of codes belongs to the row of one id, in the row and in all
requests; `Unlike`, that an id about to be inserted is nobody else's, so that a lost row never
comes back; and, of a request that has missed its row, that nobody who has a code of its batch can
write to the present one. An enrolment that has yet to look counts as inserting: its batch is nobody
else's, so it may go for whatever row it finds (`LookInv`). `UsedCodesStayGone` is what is left of the
single use that `backup_code_reused` refutes.

### RbacProofs

`Read`: what a request has read stays true unless it is overtaken. `Possible`: the row that a
request has inserted can still be committed, its role and user being there and its key free.
`Apart`: this is so because the locks of two requests, as `Waits` defines them, do not meet.
`UniqueNames` (no two roles share a name) and `NoDanglingLinks` are proved beside the properties of
the run. `RolesAreABook` needs `Unborn` as well: the id of a role is nobody else's while the role is
being created. Then `HoldersChange` says what a commit does to the pairs held, whatever the number
of rows behind each, and `CommitIsOperation` gives every commit its one step of `RoleBook`, or none.

### CrmRecordsProofs

`Possible`: what a request has decided or written can still be carried out at its next statement.
`KeysApart`: an id is drawn once. `LocksApart`: the locks of two requests do not meet.
`ScansHavePaths` ties files to rows. `GoneStep` lists the steps after which a row is gone, from which
`ActiveRecordsAreKept` and `HardDeletesLeaveNoFile` follow.

`RecordsAreABook` needs one thing more, `BookInv`: labels are unique, and what a request has written
under its locks (`Pending`) is neither stored elsewhere nor written by another. Insert and relabel
have it from the index they waited for, an edit that keeps its label from the lock on its row.
`CommitIsEntry` then goes through the operations: `Possible` gives the guards of `Enter`, `BookInv`
gives `Free`, and the columns that others have written meanwhile are in the row that `Updated`
copies.

### KeyRotationProofs

`KeksApart`: no KEK is configured twice, so a position that has moved names another key. `ScriptInv`:
what the script has written and not committed is of rows that it read and that its locks keep
stored, and every row it has left behind has the new scheme, whichever KEK is current by then;
`RunsMoveTheirRows` follows. `UniqueHashes` is about the script beside
the application: `Coming`, the hashes as they will be once the script has committed, have to be as
different from each other as the committed ones.

### Only model-checked

Liveness (`EveryCallEnds`, `AbandonedAccountsGo`), which TLAPS cannot treat under fairness. The
violated claims are refuted by traces. `InGoodHands`, `LabelsAreUnique`, `NoRowDangles`,
`LinksHaveEnds`, `NamesAreUnique` and the other invariants named above are proved and not listed in
a run: an action property or a refinement that a run checks needs them.

## 5. What would come next

1. `ReplayIsNewer` with logins in other tabs, which needs the server's families and so
   `TokenChains` beside `ApiClient`.
2. A registration whose e-mail fails (`auth/fastapi/router.py:149`) as three transactions.
3. The locks of multi-row updates one by one, with PostgreSQL's deadlock detector: `delete_user`,
   which holds the users row while a second connection updates tokens, and revocations that meet
   rotations. Today such a deadlock appears as the `Abort` that ends it.
4. The setup wizard and the user search of the front end, whose answers may arrive out of order.

## 6. Not modelled

PostgreSQL itself (its locking is an assumption of the models) and its migrations, cryptography and
the arithmetic of TOTP, the e-mail transport, the audit log, rate limiting, request and response
schemas, the look of the views and the route guards, and the instructions and helper scripts under
`.opencode`: libraries, I/O or declarations without an order that matters. Formats (PAN, phone, user
name), dates of documents and wording are abstracted in the models, so what depends on them alone is
not checked; the order of a document's two dates, for one, is not kept by the code even without
overlap.

To check: `tlc -config <cfg> <module>` for the runs of `PROJECT.json`, and `tlapm` for the proofs:
`RefreshSessionsProofs`, `ApiClientProofs`, `AccountLifecycleProofs`, `CredentialsProofs`,
`TotpCodesProofs`, `RbacProofs`, `CrmRecordsProofs`, `KeyRotationProofs`.
