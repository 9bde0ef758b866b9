------------------------------- MODULE CrmRecords -------------------------------
(***************************************************************************)
(* Clients, their documents and the document files: ClientService and      *)
(* DocumentService over crm.clients and crm.documents, LocalFileStorage    *)
(* over the file system.                                                   *)
(*                                                                         *)
(* A request has one READ COMMITTED transaction, opened by its service     *)
(* dependency and committed after the handler.  It reads a row, decides,   *)
(* and then issues one writing statement by id, which waits for the row    *)
(* locks of others.  The file system is outside the transaction: a file    *)
(* written or removed stays so when the transaction rolls back.            *)
(*                                                                         *)
(* The two tables have the same operations, so they are one function here: *)
(* a client's label is its PAN hash, a document's its number.  A refusal   *)
(* that changes nothing (404, 400) is no step.  Permissions are checked in *)
(* transactions of their own, by the module Rbac.                          *)
(***************************************************************************)
CONSTANTS
    User,       \* rows of auth.users
    Client,     \* ids of crm.clients
    Document,   \* ids of crm.documents, which also name the files
    Pan,        \* PAN hashes
    Number,     \* document numbers
    Request,    \* slots for requests being handled at the same time
    None        \* NULL, and the row that does not exist

Record == Client \cup Document

ASSUME KindsAreApart ==
    /\ Client \cap Document = {}
    /\ Pan \cap Number = {}
    /\ None \notin User \cup Record \cup Pan \cup Number

ClientRow ==
    [creator : User, label : Pan, of : {None}, active : BOOLEAN, path : {FALSE}]

(* path: a document that is not an ID keeps its scan in a file of its own. *)
DocumentRow ==
    [creator : User, label : Number \cup {None}, of : Client,
     active : BOOLEAN, path : BOOLEAN]

Row == ClientRow \cup DocumentRow

ASSUME NoneIsNoRow == None \notin Row

VARIABLES
    users,      \* users that exist
    rows,       \* rows[k]: the committed row k, or None
    files,      \* documents whose file is on disk
    unlinked,   \* history: documents whose file a hard delete has removed
    task        \* task[r]: the transaction of request r

vars == <<users, rows, files, unlinked, task>>

Operation == {"create", "edit", "relabel", "deactivate", "restore", "hard", "photo"}

(* at: the next statement; by: the user; key: the row; saw: whether it was *)
(* read as active; new: the row as written, from the writing statement on. *)
Task ==
    [at : {"insert", "store", "update", "unlink", "delete", "fetch", "commit"},
     op : Operation, by : User, key : Record,
     saw : BOOLEAN, label : Pan \cup Number \cup {None},
     new : Row \cup {None}]

TypeOK ==
    /\ users \subseteq User
    /\ rows \in [Record -> Row \cup {None}]
    /\ \A k \in Record :
         rows[k] # None => rows[k] \in (IF k \in Client THEN ClientRow ELSE DocumentRow)
    /\ files \subseteq Document
    /\ unlinked \subseteq Document
    /\ task \in [Request -> Task \cup {None}]

Init ==
    /\ users = User
    /\ rows = [k \in Record |-> None]
    /\ files = {}
    /\ unlinked = {}
    /\ task = [r \in Request |-> None]

-----------------------------------------------------------------------------
(* Rows, locks and constraints.                                            *)

Stored == {k \in Record : rows[k] # None}

Active(k) == k \in Stored /\ rows[k].active

(* A row goes with the client it belongs to (ON DELETE CASCADE).           *)
Below(k) == {d \in Stored : rows[d].of = k}

At(r, places) == task[r] # None /\ task[r].at \in places

(* Has issued its writing statement, and holds the locks until it ends.    *)
Wrote(r) == At(r, {"store", "commit"}) /\ task[r].op # "photo"

Locks(r) ==
    IF ~Wrote(r) THEN {}
    ELSE IF task[r].op = "hard" THEN {task[r].key} \cup Below(task[r].key)
    ELSE {task[r].key}

(* An INSERT keeps the row it refers to, and its key, as they are.         *)
KeyShare(r) ==
    IF Wrote(r) /\ task[r].op = "create" THEN {task[r].new.of} \cap Client ELSE {}

(* DELETE, and an UPDATE of the unique PAN, exclude those who refer.       *)
Exclusive(r) ==
    IF Wrote(r) /\ task[r].op \in {"hard", "relabel"} THEN Locks(r) ELSE {}

Locked(r, S) == \E o \in Request \ {r} : Locks(o) \cap S # {}
Referred(r, S) == \E o \in Request \ {r} : KeyShare(o) \cap S # {}
Excluded(r, S) == \E o \in Request \ {r} : Exclusive(o) \cap S # {}

(* The unique indexes: an uncommitted entry, or one that goes with an      *)
(* uncommitted statement, is waited for; a committed one of another row is *)
(* a duplicate.                                                            *)
LabelPending(r, l) ==
    l # None /\ \E o \in Request \ {r} :
      \/ Wrote(o) /\ task[o].new # None /\ task[o].new.label = l
      \/ \E k \in Exclusive(o) \cap Stored : rows[k].label = l

Taken(k, l) == l # None /\ \E j \in Stored \ {k} : rows[j].label = l

Dangling(row, u) ==
    \/ u \notin users
    \/ row.of # None /\ rows[row.of] = None

-----------------------------------------------------------------------------
(* A request begins when its user has been authenticated and permitted,    *)
(* and its first read is done with it.                                     *)

Begin(r, place, op, u, k, l, new) ==
    /\ task[r] = None
    /\ u \in users
    /\ task' = [task EXCEPT ![r] =
                  [at |-> place, op |-> op, by |-> u, key |-> k,
                   saw |-> Active(k), label |-> l, new |-> new]]
    /\ UNCHANGED <<users, rows, files, unlinked>>

(* uuid4.  An id comes back here only when nothing of it is left.          *)
Fresh(k) ==
    /\ rows[k] = None
    /\ k \notin files \cup unlinked
    /\ \A r \in Request : task[r] # None => task[r].key # k

CreateClient(r, u, c, p) ==
    /\ Fresh(c)
    /\ ~Taken(c, p)
    /\ Begin(r, "insert", "create", u, c, p,
             [creator |-> u, label |-> p, of |-> None, active |-> TRUE, path |-> FALSE])

(* Mutant: create forgets the client.                                      *)
CreateDocumentAlone(r, u, d, c, n, scan) ==
    /\ Fresh(d)
    /\ ~Taken(d, n)
    /\ Begin(r, "insert", "create", u, d, n,
             [creator |-> u, label |-> n, of |-> None, active |-> TRUE, path |-> scan])

(* The client is not looked up: the foreign key decides at the INSERT.     *)
CreateDocument(r, u, d, c, n, scan) ==
    /\ Fresh(d)
    /\ ~Taken(d, n)
    /\ Begin(r, "insert", "create", u, d, n,
             [creator |-> u, label |-> n, of |-> c, active |-> TRUE, path |-> scan])

EditClient(r, u, c) ==
    c \in Client /\ Active(c) /\ Begin(r, "update", "edit", u, c, None, None)

(* No look for a duplicate: the unique index decides at the UPDATE.        *)
UpdatePan(r, u, c, p) ==
    Active(c) /\ Begin(r, "update", "relabel", u, c, p, None)

(* The columns beside the number: type, issue and expiry date.             *)
EditDocument(r, u, d) ==
    d \in Document /\ Active(d) /\ Begin(r, "update", "edit", u, d, None, None)

RenumberDocument(r, u, d, n) ==
    /\ Active(d) /\ ~Taken(d, n)
    /\ Begin(r, "update", "relabel", u, d, n, None)

SoftDelete(r, u, k) ==
    Active(k) /\ Begin(r, "update", "deactivate", u, k, None, None)

Inactive(k) == k \in Stored /\ ~rows[k].active

Restore(r, u, k) ==
    Inactive(k) /\ Begin(r, "update", "restore", u, k, None, None)

(* Mutant: hard_delete does not look at is_active.                         *)
HardDeleteAnyClient(r, u, c) ==
    c \in Client \cap Stored /\ Begin(r, "delete", "hard", u, c, None, None)

HardDeleteClient(r, u, c) ==
    c \in Client /\ Inactive(c) /\ Begin(r, "delete", "hard", u, c, None, None)

(* Mutant: the file is forgotten.                                          *)
HardDeleteRowOnly(r, u, d) ==
    d \in Document /\ Inactive(d) /\ Begin(r, "delete", "hard", u, d, None, None)

HardDeleteDocument(r, u, d) ==
    /\ d \in Document /\ Inactive(d)
    /\ Begin(r, IF rows[d].path THEN "unlink" ELSE "delete", "hard", u, d, None, None)

(* get_front_photo and get_photos_batch read the row, then the file.       *)
ReadPhoto(r, u, d) ==
    /\ Active(d) /\ rows[d].path
    /\ Begin(r, "fetch", "photo", u, d, None, None)

-----------------------------------------------------------------------------
(* The writing statements.                                                 *)

End(r) == task' = [task EXCEPT ![r] = None]

Goto(r, place, new) ==
    task' = [task EXCEPT ![r] =
               [at |-> place, op |-> task[r].op, by |-> task[r].by,
                key |-> task[r].key, saw |-> task[r].saw,
                label |-> task[r].label, new |-> new]]

(* Mutant: the path is committed and the file never written.               *)
CommitFirst(row) == "commit"

AfterInsert(row) == IF row.path THEN "store" ELSE "commit"

(* An exception ends a request that broke a constraint.                    *)
Insert(r) ==
    /\ At(r, {"insert"})
    /\ LET t == task[r] IN
         /\ ~LabelPending(r, t.label)
         /\ ~Excluded(r, {t.new.of})
         /\ IF Taken(t.key, t.label) \/ Dangling(t.new, t.by)
            THEN End(r)
            ELSE Goto(r, AfterInsert(t.new), t.new)
    /\ UNCHANGED <<users, rows, files, unlinked>>

StoreFile(r) ==
    /\ At(r, {"store"})
    /\ files' = files \cup {task[r].key}
    /\ Goto(r, "commit", task[r].new)
    /\ UNCHANGED <<users, rows, unlinked>>

(* UPDATE ... SET of the named columns, on the row as it is by then.       *)
Updated(t) ==
    IF t.op = "relabel" THEN [rows[t.key] EXCEPT !.label = t.label]
    ELSE IF t.op = "edit" THEN rows[t.key]
    ELSE [rows[t.key] EXCEPT !.active = (t.op = "restore")]

Update(r) ==
    /\ At(r, {"update"})
    /\ LET t == task[r] IN
         /\ ~Locked(r, {t.key})
         /\ t.op = "relabel" => ~LabelPending(r, t.label) /\ ~Referred(r, {t.key})
         /\ IF \/ rows[t.key] = None
               \/ t.by \notin users
               \/ t.op = "relabel" /\ Taken(t.key, t.label)
            THEN End(r)
            ELSE Goto(r, "commit", Updated(t))
    /\ UNCHANGED <<users, rows, files, unlinked>>

(* hard_delete of a document removes the file before the row.              *)
Unlink(r) ==
    /\ At(r, {"unlink"})
    /\ files' = files \ {task[r].key}
    /\ unlinked' = unlinked \cup {task[r].key}
    /\ Goto(r, "delete", None)
    /\ UNCHANGED <<users, rows>>

(* DELETE ... WHERE id: is_active is not looked at again.                  *)
Delete(r) ==
    /\ At(r, {"delete"})
    /\ LET k == task[r].key IN
         /\ ~Locked(r, {k} \cup Below(k))
         /\ ~Referred(r, {k})
         /\ IF rows[k] = None THEN End(r) ELSE Goto(r, "commit", None)
    /\ UNCHANGED <<users, rows, files, unlinked>>

(* The bytes are returned, or the missing file is an unhandled error.      *)
Fetch(r) ==
    /\ At(r, {"fetch"})
    /\ End(r)
    /\ UNCHANGED <<users, rows, files, unlinked>>

Commit(r) ==
    /\ At(r, {"commit"})
    /\ LET t == task[r] IN
         rows' = [k \in Record |->
                    IF k = t.key THEN t.new
                    ELSE IF t.op = "hard" /\ k \in Below(t.key) THEN None
                    ELSE rows[k]]
    /\ End(r)
    /\ UNCHANGED <<users, files, unlinked>>

(* The process or the connection dies, or a statement or the disk fails.   *)
Abort(r) ==
    /\ task[r] # None
    /\ End(r)
    /\ UNCHANGED <<users, rows, files, unlinked>>

-----------------------------------------------------------------------------
(* The cleanup loop deletes an expired user: created_by_id cascades.       *)

Created(u) == {k \in Stored : rows[k].creator = u}

(* Mutant: the cascade stops at the rows the user created.                 *)
CreatedOnly(u) == Created(u)

TakenWith(u) == Created(u) \cup UNION {Below(k) : k \in Created(u)}

DeleteUser(u) ==
    /\ u \in users
    /\ \A r \in Request :
         /\ Wrote(r) => task[r].by # u
         /\ (Locks(r) \cup KeyShare(r)) \cap TakenWith(u) = {}
    /\ users' = users \ {u}
    /\ rows' = [k \in Record |-> IF k \in TakenWith(u) THEN None ELSE rows[k]]
    /\ UNCHANGED <<files, unlinked, task>>

ClientRequest(r, u) ==
    \E c \in Client :
      \/ \E p \in Pan : CreateClient(r, u, c, p) \/ UpdatePan(r, u, c, p)
      \/ EditClient(r, u, c)
      \/ HardDeleteClient(r, u, c)

DocumentRequest(r, u) ==
    \E d \in Document :
      \/ \E c \in Client, n \in Number \cup {None}, scan \in BOOLEAN :
           CreateDocument(r, u, d, c, n, scan)
      \/ \E n \in Number : RenumberDocument(r, u, d, n)
      \/ EditDocument(r, u, d)
      \/ HardDeleteDocument(r, u, d)
      \/ ReadPhoto(r, u, d)

RecordRequest(r, u) == \E k \in Record : SoftDelete(r, u, k) \/ Restore(r, u, k)

Receive(r, u) == ClientRequest(r, u) \/ DocumentRequest(r, u) \/ RecordRequest(r, u)

Advance(r) ==
    \/ Insert(r)
    \/ StoreFile(r)
    \/ Update(r)
    \/ Unlink(r)
    \/ Delete(r)
    \/ Fetch(r)
    \/ Commit(r)

Next ==
    \/ \E r \in Request : (\E u \in User : Receive(r, u)) \/ Advance(r) \/ Abort(r)
    \/ \E u \in User : DeleteUser(u)

Spec == Init /\ [][Next]_vars

-----------------------------------------------------------------------------
(* What the records promise.                                               *)

(* Every row has its creator, and a document its client, whatever creates, *)
(* hard deletes and cascades overlap (crm/models.py:82-86, 122-127).       *)
NoRowDangles ==
    \A k \in Stored :
      /\ rows[k].creator \in users
      /\ k \in Document => rows[k].of \in Stored

(* An active record disappears with its creator, with its client, or under *)
(* a hard delete that saw it soft-deleted (crm/services.py:133-138, 518).  *)
ActiveRecordsStay ==
    [][\A k \in Stored :
         rows[k].active /\ rows'[k] = None =>
           \/ rows[k].creator \notin users'
           \/ k \in Document /\ rows'[rows[k].of] = None
           \/ \E r \in Request :
                /\ task[r] # None /\ task[r].op = "hard" /\ task[r].key = k
                /\ ~task[r].saw]_vars

(* A row, and a photo request that has read one, never names a file that   *)
(* was not written: only the first half of a hard delete leaves either     *)
(* without its file (crm/services.py:377-384, 525-529, 541-556).           *)
NamedFilesExist ==
    /\ \A d \in Stored \cap Document : rows[d].path => d \in files \cup unlinked
    /\ \A r \in Request : At(r, {"fetch"}) => task[r].key \in files \cup unlinked

Orphan(d) == d \in files /\ rows[d] = None /\ \A r \in Request : task[r] # None => task[r].key # d

(* A file is left without a row only by a create that failed after writing *)
(* it or by a cascade, never by a hard delete of its document.             *)
OrphansComeFromFailures ==
    [][\A d \in Document :
         ~Orphan(d) /\ Orphan(d)' =>
           \/ d \in Stored /\ (rows[d].creator \notin users' \/ rows'[rows[d].of] = None)
           \/ d \notin Stored]_vars

-----------------------------------------------------------------------------
(* What the records amount to.                                             *)

Book == INSTANCE CrmBook

(* Requests that overlap, fail and wait for each other write the book as   *)
(* if each had it to itself at its commit: no edit undoes a column that    *)
(* another has written, no two records get one label, and nothing is       *)
(* entered for a user or a client that is gone (crm/services.py:69-165,    *)
(* 377-530, crm/models.py:82-86, 122-127).                                 *)
ImplementsBook == Book!Spec
=============================================================================
