---------------------------- MODULE CrmRecordsProofs ----------------------------
(***************************************************************************)
(* The properties of CrmRecords for any users, clients, documents, labels  *)
(* and concurrent requests.  What a request has decided or written can     *)
(* still be carried out at its next statement (Possible), because an id is *)
(* drawn once (KeysApart), the locks of two requests do not meet           *)
(* (LocksApart), and a file is only given up by who deletes its row.       *)
(* With unique labels (BookInv) that makes every commit one entry, edit or  *)
(* removal of CrmBook.                                                     *)
(***************************************************************************)
EXTENDS CrmRecords, TLAPS

Edits == {"edit", "relabel", "deactivate", "restore"}

RowOf(k) == IF k \in Client THEN ClientRow ELSE DocumentRow

(* An operation has its statements and its arguments.                      *)
Kind(t) ==
    /\ t.at \in {"insert", "store"} => t.op = "create"
    /\ t.at = "update" => t.op \in Edits
    /\ t.at \in {"unlink", "delete"} => t.op = "hard"
    /\ t.at = "fetch" => t.op = "photo"
    /\ t.at = "commit" => t.op # "photo"
    /\ t.op = "create" =>
         /\ t.new \in RowOf(t.key) /\ t.new.creator = t.by
         /\ t.at = "store" => t.new.path
    /\ t.op = "hard" => t.new = None /\ ~t.saw
    /\ t.op = "relabel" => t.label \in IF t.key \in Client THEN Pan ELSE Number
    /\ t.at \in {"unlink", "fetch"} => t.key \in Document

Possible(t) ==
    /\ t.op = "create" =>
         /\ rows[t.key] = None
         /\ t.key \in files => t.new.path
         /\ t.at \in {"store", "commit"} =>
              t.by \in users /\ (t.new.of # None => rows[t.new.of] # None)
         /\ t.at = "commit" /\ t.new.path => t.key \in files \cup unlinked
    /\ t.op \in Edits /\ t.at = "commit" => rows[t.key] # None /\ t.new = Updated(t)
    /\ t.op = "hard" /\ t.at \in {"delete", "commit"} => t.key \notin files
    /\ t.at = "fetch" => t.key \in files \cup unlinked

TasksInv ==
    \A r \in Request : task[r] # None => Kind(task[r]) /\ Possible(task[r])

KeysApart ==
    \A r, o \in Request :
      r # o /\ task[r] # None /\ task[o] # None /\ task[r].op = "create" =>
        task[o].key # task[r].key

LocksApart ==
    \A r, o \in Request :
      r # o => Locks(r) \cap Locks(o) = {} /\ KeyShare(r) \cap Exclusive(o) = {}

ScansHavePaths == \A d \in files \cap Stored : rows[d].path

IInv ==
    /\ TypeOK
    /\ NoRowDangles
    /\ NamedFilesExist
    /\ ScansHavePaths
    /\ TasksInv
    /\ KeysApart
    /\ LocksApart

-----------------------------------------------------------------------------
(* What the types say of a row and of a task.                              *)

LEMMA RowFacts ==
    ASSUME TypeOK, NEW k \in Record, rows[k] # None
    PROVE  /\ rows[k] \in RowOf(k) /\ rows[k] \in Row
           /\ rows[k].creator \in User /\ rows[k].path \in BOOLEAN
           /\ k \in Client => rows[k].of = None /\ ~rows[k].path
           /\ k \in Document => rows[k].of \in Client /\ k \notin Client
BY KindsAreApart DEF TypeOK, RowOf, Row, ClientRow, DocumentRow, Record

LEMMA TaskFacts ==
    ASSUME IInv, NEW r \in Request, task[r] # None
    PROVE  task[r] \in Task /\ task[r].key \in Record /\ Kind(task[r]) /\ Possible(task[r])
BY DEF IInv, TypeOK, TasksInv, Task

LEMMA UpdatedFacts ==
    ASSUME TypeOK, NEW t \in Task, Kind(t), t.op \in Edits, rows[t.key] # None
    PROVE  /\ Updated(t) \in RowOf(t.key) /\ Updated(t) \in Row /\ Updated(t) # None
           /\ Updated(t).of = rows[t.key].of /\ Updated(t).path = rows[t.key].path
           /\ Updated(t).creator = rows[t.key].creator
<1>1. t.key \in Record
  BY DEF Task
<1>2. rows[t.key] \in RowOf(t.key)
  BY <1>1, RowFacts
<1>3. /\ Updated(t) \in RowOf(t.key)
      /\ Updated(t).of = rows[t.key].of /\ Updated(t).path = rows[t.key].path
      /\ Updated(t).creator = rows[t.key].creator
  BY <1>2 DEF Updated, RowOf, ClientRow, DocumentRow, Edits, Kind
<1> QED
  BY <1>3, NoneIsNoRow DEF RowOf, Row

(* What a request holds depends on its task and on the rows.               *)
LEMMA SameLocks ==
    ASSUME rows' = rows, NEW o \in Request, task'[o] = task[o]
    PROVE  /\ Wrote(o)' = Wrote(o) /\ Locks(o)' = Locks(o)
           /\ KeyShare(o)' = KeyShare(o) /\ Exclusive(o)' = Exclusive(o)
BY DEF Wrote, At, Locks, KeyShare, Exclusive, Below, Stored

LEMMA SilentLocks ==
    ASSUME NEW r \in Request, ~Wrote(r)
    PROVE  Locks(r) = {} /\ KeyShare(r) = {} /\ Exclusive(r) = {}
BY DEF Locks, KeyShare, Exclusive

-----------------------------------------------------------------------------
(* One request moves, the rows stay, and no file is given up that is not   *)
(* remembered as unlinked.                                                 *)
LEMMA MoveInv ==
    ASSUME IInv, TypeOK', UNCHANGED <<users, rows>>, NEW r \in Request,
           \A o \in Request \ {r} : task'[o] = task[o],
           files \cup unlinked \subseteq files' \cup unlinked',
           \A k \in files' \ files :
             task[r] # None /\ task[r].op = "create" /\ k = task[r].key /\ task[r].new.path,
           task'[r] # None => Kind(task[r])' /\ Possible(task[r])',
           \A o \in Request \ {r} : task[o] # None /\ task'[r] # None =>
             /\ task'[r].op = "create" => task[o].key # task'[r].key
             /\ task[o].op = "create" => task'[r].key # task[o].key,
           \A o \in Request \ {r} :
             /\ Locks(r)' \cap Locks(o) = {}
             /\ KeyShare(r)' \cap Exclusive(o) = {}
             /\ KeyShare(o) \cap Exclusive(r)' = {}
    PROVE  IInv'
<1>1. NoRowDangles'
  BY DEF IInv, NoRowDangles, Stored
<1>2. TasksInv'
  <2> SUFFICES ASSUME NEW o \in Request, o # r, task'[o] # None
               PROVE  Kind(task[o])' /\ Possible(task[o])'
    BY DEF TasksInv
  <2>1. task'[o] = task[o] /\ task[o] # None /\ Kind(task[o]) /\ Possible(task[o])
    BY TaskFacts
  <2>2. Kind(task[o])'
    BY <2>1 DEF Kind
  <2>3. task[o].key \in files' \ files => task[o].op \notin {"create", "hard"}
    <3> SUFFICES ASSUME task[o].key \in files' \ files, task[o].op \in {"create", "hard"}
                 PROVE  FALSE
      OBVIOUS
    <3>1. task[r] # None /\ task[r].op = "create" /\ task[o].key = task[r].key
      OBVIOUS
    <3> QED
      BY <2>1, <3>1 DEF IInv, KeysApart
  <2>4. Updated(task[o])' = Updated(task[o])
    BY <2>1 DEF Updated
  <2>5. Possible(task[o])'
    BY <2>1, <2>3, <2>4 DEF Possible
  <2> QED
    BY <2>2, <2>5
<1>3. NamedFilesExist'
  BY <1>2 DEF IInv, NamedFilesExist, Stored, At, TasksInv, Possible
<1>4. ScansHavePaths'
  <2> SUFFICES ASSUME NEW d \in files', rows[d] # None, d \in Record PROVE rows[d].path
    BY DEF ScansHavePaths, Stored
  <2>1. d \in files
    <3> SUFFICES ASSUME d \notin files PROVE FALSE
      OBVIOUS
    <3>1. task[r] # None /\ task[r].op = "create" /\ d = task[r].key
      OBVIOUS
    <3> QED
      BY <3>1, TaskFacts DEF Possible
  <2> QED
    BY <2>1 DEF IInv, ScansHavePaths, Stored
<1>5. KeysApart'
  BY DEF IInv, KeysApart
<1>6. LocksApart'
  BY SameLocks DEF IInv, LocksApart
<1> QED
  BY <1>1, <1>2, <1>3, <1>4, <1>5, <1>6 DEF IInv

(* A request ends and leaves nothing.                                      *)
LEMMA EndInv ==
    ASSUME IInv, NEW r \in Request, End(r), UNCHANGED <<users, rows, files, unlinked>>
    PROVE  IInv'
<1>1. TypeOK'
  BY DEF IInv, TypeOK, End
<1>2. task'[r] = None /\ \A o \in Request \ {r} : task'[o] = task[o]
  BY DEF IInv, TypeOK, End
<1>3. Locks(r)' = {} /\ KeyShare(r)' = {} /\ Exclusive(r)' = {}
  BY <1>2 DEF Locks, KeyShare, Exclusive, Wrote, At
<1> QED
  BY <1>1, <1>2, <1>3, MoveInv

(* A request begins with what it has read.                                 *)
LEMMA BeginInv ==
    ASSUME IInv, NEW r \in Request,
           NEW place \in {"insert", "update", "unlink", "delete", "fetch"},
           NEW op \in Operation, NEW u \in User, NEW k \in Record,
           NEW l \in Pan \cup Number \cup {None}, NEW new \in Row \cup {None},
           Begin(r, place, op, u, k, l, new),
           Kind([at |-> place, op |-> op, by |-> u, key |-> k, saw |-> Active(k),
                 label |-> l, new |-> new]),
           op = "create" => Fresh(k),
           op # "create" => rows[k] # None,
           place = "delete" => k \notin files,
           place = "fetch" => k \in files \cup unlinked
    PROVE  IInv'
<1> DEFINE n == [at |-> place, op |-> op, by |-> u, key |-> k, saw |-> Active(k),
                 label |-> l, new |-> new]
<1>1. n \in Task
  BY DEF Task, Active
<1>2. task'[r] = n /\ \A o \in Request \ {r} : task'[o] = task[o]
  BY DEF IInv, TypeOK, Begin
<1>3. TypeOK'
  <2>1. task' \in [Request -> Task \cup {None}]
    BY <1>1 DEF IInv, TypeOK, Begin
  <2> QED
    BY <2>1 DEF IInv, TypeOK, Begin
<1>4. UNCHANGED <<users, rows, files, unlinked>>
  BY DEF Begin
<1>5. Locks(r)' = {} /\ KeyShare(r)' = {} /\ Exclusive(r)' = {}
  BY <1>2 DEF Locks, KeyShare, Exclusive, Wrote, At
<1>6. Kind(task[r])'
  <2>1. Kind(n)
    OBVIOUS
  <2> HIDE DEF n
  <2> QED
    BY <1>2, <2>1 DEF Kind
<1>7. Possible(task[r])'
  BY <1>2, <1>4 DEF Possible, Fresh, Edits
<1>8. \A o \in Request \ {r} : task[o] # None /\ task'[r] # None =>
        /\ task'[r].op = "create" => task[o].key # task'[r].key
        /\ task[o].op = "create" => task'[r].key # task[o].key
  <2> SUFFICES ASSUME NEW o \in Request, o # r, task[o] # None
               PROVE  /\ op = "create" => task[o].key # k
                      /\ task[o].op = "create" => k # task[o].key
    BY <1>2
  <2>1. op = "create" => task[o].key # k
    BY DEF Fresh
  <2>2. task[o].op = "create" => rows[task[o].key] = None
    BY TaskFacts DEF Possible
  <2> QED
    BY <2>1, <2>2
<1> HIDE DEF n
<1> QED
  BY <1>2, <1>3, <1>4, <1>5, <1>6, <1>7, <1>8, MoveInv

-----------------------------------------------------------------------------
(* A statement of a request that keeps its operation and its arguments.    *)
LEMMA GotoInv ==
    ASSUME IInv, NEW r \in Request, task[r] # None,
           NEW place \in {"store", "delete", "commit"}, NEW new \in Row \cup {None},
           Goto(r, place, new), UNCHANGED <<users, rows>>,
           files' \subseteq Document, unlinked' \subseteq Document,
           files \cup unlinked \subseteq files' \cup unlinked',
           \A k \in files' \ files :
             task[r].op = "create" /\ k = task[r].key /\ task[r].new.path,
           Kind(task[r])', Possible(task[r])',
           \A o \in Request \ {r} :
             /\ Locks(r)' \cap Locks(o) = {}
             /\ KeyShare(r)' \cap Exclusive(o) = {}
             /\ KeyShare(o) \cap Exclusive(r)' = {}
    PROVE  IInv'
<1> DEFINE n == [at |-> place, op |-> task[r].op, by |-> task[r].by,
                 key |-> task[r].key, saw |-> task[r].saw,
                 label |-> task[r].label, new |-> new]
<1>1. n \in Task
  BY TaskFacts DEF Task
<1>2. task' = [task EXCEPT ![r] = n]
  BY DEF Goto
<1>3. TypeOK'
  <2> HIDE DEF n
  <2> QED
    BY <1>1, <1>2 DEF IInv, TypeOK
<1>4. \A o \in Request \ {r} : task'[o] = task[o]
  BY <1>2
<1>5. task'[r].op = task[r].op /\ task'[r].key = task[r].key
  BY <1>2 DEF IInv, TypeOK
<1>6. \A o \in Request \ {r} : task[o] # None /\ task'[r] # None =>
        /\ task'[r].op = "create" => task[o].key # task'[r].key
        /\ task[o].op = "create" => task'[r].key # task[o].key
  BY <1>5 DEF IInv, KeysApart
<1> HIDE DEF n
<1> QED
  BY <1>3, <1>4, <1>6, MoveInv

(* The task after Goto.                                                    *)
LEMMA GotoTask ==
    ASSUME IInv, NEW r \in Request, task[r] # None, NEW place, NEW new,
           Goto(r, place, new)
    PROVE  task'[r] = [at |-> place, op |-> task[r].op, by |-> task[r].by,
                       key |-> task[r].key, saw |-> task[r].saw,
                       label |-> task[r].label, new |-> new]
BY DEF IInv, TypeOK, Goto

LEMMA InsertInv ==
    ASSUME IInv, NEW r \in Request, Insert(r) PROVE IInv'
<1> DEFINE t == task[r]
           place == AfterInsert(t.new)
<1>1. /\ t # None /\ t.at = "insert" /\ t.op = "create" /\ t.key \in Record
      /\ t.new \in RowOf(t.key) /\ t.new.creator = t.by
      /\ rows[t.key] = None /\ (t.key \in files => t.new.path)
  BY TaskFacts DEF Insert, At, Kind, Possible
<1>2. UNCHANGED <<users, rows, files, unlinked>>
  BY DEF Insert
<1>3. CASE End(r)
  BY <1>2, <1>3, EndInv
<1>4. CASE ~End(r)
  <2>1. /\ Goto(r, place, t.new) /\ ~Excluded(r, {t.new.of})
        /\ t.by \in users /\ (t.new.of # None => rows[t.new.of] # None)
    BY <1>4 DEF Insert, Dangling
  <2>2. place \in {"store", "commit"} /\ (place = "store" <=> t.new.path)
    BY DEF AfterInsert
  <2>3. task'[r] = [at |-> place, op |-> "create", by |-> t.by, key |-> t.key,
                    saw |-> t.saw, label |-> t.label, new |-> t.new]
    BY <1>1, <2>1, GotoTask
  <2>4. Kind(task[r])'
    BY <1>1, <2>2, <2>3 DEF Kind, Edits, RowOf
  <2>5. Possible(task[r])'
    BY <1>1, <1>2, <2>1, <2>2, <2>3 DEF Possible, Edits
  <2>6. Locks(r)' \subseteq {t.key} /\ KeyShare(r)' \subseteq {t.new.of}
        /\ Exclusive(r)' = {}
    BY <2>2, <2>3 DEF Locks, KeyShare, Exclusive, Wrote, At
  <2>7. ASSUME NEW o \in Request \ {r}
        PROVE  t.key \notin Locks(o) /\ t.new.of \notin Exclusive(o)
    <3>1. task[o] # None => task[o].key # t.key
      BY <1>1 DEF IInv, KeysApart
    <3>2. \A k : t.key \notin Below(k)
      BY <1>1 DEF Below, Stored
    <3> QED
      BY <2>1, <3>1, <3>2 DEF Locks, Wrote, At, Excluded
  <2>8. t.new \in Row
    BY <1>1 DEF RowOf, Row
  <2>9. files' \subseteq Document /\ unlinked' \subseteq Document
    BY <1>2 DEF IInv, TypeOK
  <2> HIDE DEF place, t
  <2>10. \A o \in Request \ {r} :
           /\ Locks(r)' \cap Locks(o) = {}
           /\ KeyShare(r)' \cap Exclusive(o) = {}
           /\ KeyShare(o) \cap Exclusive(r)' = {}
    BY <2>6, <2>7
  <2> QED
    BY <1>1, <1>2, <2>1, <2>2, <2>4, <2>5, <2>8, <2>9, <2>10, GotoInv DEF t
<1> QED
  BY <1>3, <1>4

LEMMA UpdateInv ==
    ASSUME IInv, NEW r \in Request, Update(r) PROVE IInv'
<1> DEFINE t == task[r]
<1>1. t # None /\ t.at = "update" /\ t.op \in Edits /\ t \in Task /\ Kind(t)
  BY TaskFacts DEF Update, At, Kind
<1>2. UNCHANGED <<users, rows, files, unlinked>>
  BY DEF Update
<1>3. CASE End(r)
  BY <1>2, <1>3, EndInv
<1>4. CASE ~End(r)
  <2>1. /\ Goto(r, "commit", Updated(t)) /\ ~Locked(r, {t.key}) /\ rows[t.key] # None
        /\ t.op = "relabel" => ~Referred(r, {t.key})
    BY <1>4 DEF Update
  <2>2. Updated(t) \in Row
    BY <1>1, <2>1, UpdatedFacts DEF IInv
  <2>3. task'[r] = [at |-> "commit", op |-> t.op, by |-> t.by, key |-> t.key,
                    saw |-> t.saw, label |-> t.label, new |-> Updated(t)]
    BY <1>1, <2>1, GotoTask
  <2>4. Kind(task[r])'
    BY <1>1, <2>3 DEF Kind, Edits
  <2>5. Updated(task[r])' = Updated(t)
    BY <1>2, <2>3 DEF Updated
  <2>6. Possible(task[r])'
    BY <1>1, <1>2, <2>1, <2>3, <2>5 DEF Possible, Edits
  <2>7. /\ Locks(r)' \subseteq {t.key} /\ KeyShare(r)' = {}
        /\ Exclusive(r)' \subseteq IF t.op = "relabel" THEN {t.key} ELSE {}
    BY <1>1, <2>3 DEF Locks, KeyShare, Exclusive, Wrote, At, Edits
  <2>8. \A o \in Request \ {r} :
          /\ Locks(r)' \cap Locks(o) = {}
          /\ KeyShare(r)' \cap Exclusive(o) = {}
          /\ KeyShare(o) \cap Exclusive(r)' = {}
    BY <2>1, <2>7 DEF Locked, Referred
  <2>9. files' \subseteq Document /\ unlinked' \subseteq Document
    BY <1>2 DEF IInv, TypeOK
  <2> HIDE DEF t
  <2> QED
    BY <1>1, <1>2, <2>1, <2>2, <2>4, <2>6, <2>8, <2>9, GotoInv DEF t
<1> QED
  BY <1>3, <1>4

(* What hangs on a record is no client.                                    *)
LEMMA BelowFacts ==
    ASSUME TypeOK, NEW k \in Record, NEW d \in Below(k)
    PROVE  d \in Document /\ d \notin Client /\ rows[d] # None /\ rows[d].of = k
BY RowFacts, KindsAreApart DEF Below, Stored, Record

LEMMA DeleteInv ==
    ASSUME IInv, NEW r \in Request, Delete(r) PROVE IInv'
<1> DEFINE t == task[r]
<1>1. t # None /\ t.at = "delete" /\ t.op = "hard" /\ t.key \in Record /\ Kind(t)
      /\ t.key \notin files
  BY TaskFacts DEF Delete, At, Kind, Possible
<1>2. UNCHANGED <<users, rows, files, unlinked>>
  BY DEF Delete
<1>3. CASE End(r)
  BY <1>2, <1>3, EndInv
<1>4. CASE ~End(r)
  <2>1. /\ Goto(r, "commit", None) /\ ~Locked(r, {t.key} \cup Below(t.key))
        /\ ~Referred(r, {t.key})
    BY <1>4 DEF Delete
  <2>2. task'[r] = [at |-> "commit", op |-> "hard", by |-> t.by, key |-> t.key,
                    saw |-> t.saw, label |-> t.label, new |-> None]
    BY <1>1, <2>1, GotoTask
  <2>3. Kind(task[r])'
    BY <1>1, <2>2 DEF Kind
  <2>4. Possible(task[r])'
    BY <1>1, <1>2, <2>2 DEF Possible, Edits
  <2>5. /\ Locks(r)' \subseteq {t.key} \cup Below(t.key) /\ KeyShare(r)' = {}
        /\ Exclusive(r)' \subseteq {t.key} \cup Below(t.key)
    BY <1>2, <2>2 DEF Locks, KeyShare, Exclusive, Wrote, At, Below, Stored
  <2>6. ASSUME NEW o \in Request \ {r}
        PROVE  /\ Locks(r)' \cap Locks(o) = {}
               /\ KeyShare(r)' \cap Exclusive(o) = {}
               /\ KeyShare(o) \cap Exclusive(r)' = {}
    <3>1. KeyShare(o) \subseteq Client
      BY DEF KeyShare
    <3>2. Below(t.key) \cap Client = {}
      BY <1>1, BelowFacts DEF IInv
    <3> QED
      BY <2>1, <2>5, <3>1, <3>2 DEF Locked, Referred
  <2>7. files' \subseteq Document /\ unlinked' \subseteq Document
    BY <1>2 DEF IInv, TypeOK
  <2> HIDE DEF t
  <2> QED
    BY <1>1, <1>2, <2>1, <2>3, <2>4, <2>6, <2>7, GotoInv DEF t
<1> QED
  BY <1>3, <1>4

LEMMA StoreInv ==
    ASSUME IInv, NEW r \in Request, StoreFile(r) PROVE IInv'
<1> DEFINE t == task[r]
<1>1. /\ t # None /\ t.at = "store" /\ t.op = "create" /\ t.key \in Record /\ Kind(t)
      /\ t.new \in RowOf(t.key) /\ t.new.path /\ Possible(t)
  BY TaskFacts DEF StoreFile, At, Kind
<1>2. /\ UNCHANGED <<users, rows, unlinked>> /\ files' = files \cup {t.key}
      /\ Goto(r, "commit", t.new)
  BY DEF StoreFile
<1>3. t.key \in Document
  BY <1>1 DEF Record, RowOf, ClientRow
<1>4. task'[r] = [at |-> "commit", op |-> "create", by |-> t.by, key |-> t.key,
                  saw |-> t.saw, label |-> t.label, new |-> t.new]
  BY <1>1, <1>2, GotoTask
<1>5. Kind(task[r])'
  BY <1>1, <1>4 DEF Kind, RowOf
<1>6. Possible(task[r])'
  BY <1>1, <1>2, <1>4 DEF Possible, Edits
<1>7. Locks(r)' \subseteq Locks(r) /\ KeyShare(r)' \subseteq KeyShare(r) /\ Exclusive(r)' = {}
  BY <1>1, <1>4 DEF Locks, KeyShare, Exclusive, Wrote, At
<1>8. \A o \in Request \ {r} :
        /\ Locks(r)' \cap Locks(o) = {}
        /\ KeyShare(r)' \cap Exclusive(o) = {}
        /\ KeyShare(o) \cap Exclusive(r)' = {}
  BY <1>7 DEF IInv, LocksApart
<1>9. files' \subseteq Document /\ unlinked' \subseteq Document
  BY <1>2, <1>3 DEF IInv, TypeOK
<1>10. t.new \in Row
  BY <1>1 DEF RowOf, Row
<1> HIDE DEF t
<1> QED
  BY <1>1, <1>2, <1>5, <1>6, <1>8, <1>9, <1>10, GotoInv DEF t

LEMMA UnlinkInv ==
    ASSUME IInv, NEW r \in Request, Unlink(r) PROVE IInv'
<1> DEFINE t == task[r]
<1>1. /\ t # None /\ t.at = "unlink" /\ t.op = "hard" /\ t.key \in Document /\ Kind(t)
  BY TaskFacts DEF Unlink, At, Kind
<1>2. /\ UNCHANGED <<users, rows>> /\ files' = files \ {t.key}
      /\ unlinked' = unlinked \cup {t.key} /\ Goto(r, "delete", None)
  BY DEF Unlink
<1>3. task'[r] = [at |-> "delete", op |-> "hard", by |-> t.by, key |-> t.key,
                  saw |-> t.saw, label |-> t.label, new |-> None]
  BY <1>1, <1>2, GotoTask
<1>4. Kind(task[r])'
  BY <1>1, <1>3 DEF Kind
<1>5. Possible(task[r])'
  BY <1>2, <1>3 DEF Possible, Edits
<1>6. Locks(r)' = {} /\ KeyShare(r)' = {} /\ Exclusive(r)' = {}
  BY <1>3 DEF Locks, KeyShare, Exclusive, Wrote, At
<1>7. \A o \in Request \ {r} :
        /\ Locks(r)' \cap Locks(o) = {}
        /\ KeyShare(r)' \cap Exclusive(o) = {}
        /\ KeyShare(o) \cap Exclusive(r)' = {}
  BY <1>6
<1>8. files' \subseteq Document /\ unlinked' \subseteq Document
      /\ files \cup unlinked \subseteq files' \cup unlinked' /\ files' \subseteq files
  BY <1>1, <1>2 DEF IInv, TypeOK
<1> HIDE DEF t
<1> QED
  BY <1>1, <1>2, <1>4, <1>5, <1>7, <1>8, GotoInv DEF t

-----------------------------------------------------------------------------
(* The rows change, and leave alone what the requests that go on hold.     *)
LEMMA RowsInv ==
    ASSUME IInv, TypeOK', NoRowDangles', UNCHANGED <<files, unlinked>>,
           \A o \in Request : task'[o] # None =>
             /\ task'[o] = task[o]
             /\ \A k \in Locks(o) : rows'[k] = rows[k]
             /\ \A k \in KeyShare(o) : rows'[k] # None
             /\ task[o].op = "create" => rows'[task[o].key] = None
             /\ Wrote(o) /\ task[o].op = "create" => task[o].by \in users'
             /\ \A d \in Record :
                  rows'[d] # None /\ rows'[d].of = task[o].key /\ Wrote(o)
                    /\ task[o].op = "hard" => d \in Below(task[o].key),
           \A d \in Document : rows'[d] # None =>
             /\ rows'[d].path => d \in files \cup unlinked
             /\ d \in files => rows'[d].path
    PROVE  IInv'
<1>1. ASSUME NEW o \in Request, task'[o] # None
      PROVE  Kind(task[o])' /\ Possible(task[o])'
  <2> DEFINE t == task[o]
  <2>1. task'[o] = t /\ t # None /\ t.key \in Record /\ Kind(t) /\ Possible(t)
    BY <1>1, TaskFacts
  <2>2. Kind(task[o])'
    BY <2>1 DEF Kind
  <2>3. t.op \in Edits /\ t.at = "commit" => rows'[t.key] = rows[t.key]
    <3>1. t.op \in Edits /\ t.at = "commit" => t.key \in Locks(o)
      BY <2>1 DEF Locks, Wrote, At, Edits
    <3> QED
      BY <1>1, <3>1
  <2>4. t.op \in Edits /\ t.at = "commit" =>
          rows'[t.key] # None /\ t.new = Updated(task[o])'
    BY <2>1, <2>3 DEF Updated, Possible
  <2>5. t.op = "create" /\ t.at \in {"store", "commit"} =>
          t.by \in users' /\ (t.new.of # None => rows'[t.new.of] # None)
    <3> SUFFICES ASSUME t.op = "create", t.at \in {"store", "commit"}
                 PROVE  t.by \in users' /\ (t.new.of # None => rows'[t.new.of] # None)
      OBVIOUS
    <3>1. Wrote(o)
      BY <2>1 DEF Wrote, At
    <3>2. t.new.of # None => t.new.of \in KeyShare(o)
      BY <2>1, <3>1 DEF KeyShare, Kind, RowOf, ClientRow, DocumentRow
    <3> QED
      BY <1>1, <3>1, <3>2
  <2>6. Possible(task[o])'
    BY <1>1, <2>1, <2>4, <2>5 DEF Possible
  <2> QED
    BY <2>2, <2>6
<1>2. ASSUME NEW o \in Request
      PROVE  /\ Locks(o)' \subseteq Locks(o)
             /\ KeyShare(o)' \subseteq KeyShare(o)
             /\ Exclusive(o)' \subseteq Exclusive(o)
  <2>1. CASE task'[o] = None
    BY <2>1 DEF Locks, KeyShare, Exclusive, Wrote, At
  <2>2. CASE task'[o] # None
    <3>1. task'[o] = task[o]
      BY <2>2
    <3>2. Wrote(o)' = Wrote(o)
      BY <3>1 DEF Wrote, At
    <3>3. Wrote(o) /\ task[o].op = "hard" => Below(task[o].key)' \subseteq Below(task[o].key)
      BY <2>2, <3>1 DEF Below, Stored
    <3>4. Locks(o)' \subseteq Locks(o)
      BY <3>1, <3>2, <3>3 DEF Locks
    <3> QED
      BY <3>1, <3>2, <3>4 DEF KeyShare, Exclusive
  <2> QED
    BY <2>1, <2>2
<1>3. LocksApart'
  BY <1>2 DEF IInv, LocksApart
<1>4. KeysApart'
  BY DEF IInv, KeysApart
<1>5. TasksInv'
  BY <1>1 DEF TasksInv
<1>6. NamedFilesExist'
  BY <1>1 DEF NamedFilesExist, Stored, At, Possible
<1>7. ScansHavePaths'
  BY DEF ScansHavePaths, Stored, IInv, TypeOK
<1> QED
  BY <1>3, <1>4, <1>5, <1>6, <1>7 DEF IInv

LEMMA LocksAreRecords ==
    ASSUME IInv, NEW o \in Request PROVE Locks(o) \subseteq Record
<1>1. task[o] # None => task[o].key \in Record
  BY TaskFacts
<1> QED
  BY <1>1 DEF Locks, Wrote, At, Below, Stored

LEMMA SharedAreStored ==
    ASSUME IInv, NEW o \in Request, NEW k \in KeyShare(o)
    PROVE  k \in Client /\ k \in Record /\ rows[k] # None
<1>1. /\ task[o] # None /\ task[o].at \in {"store", "commit"} /\ task[o].op = "create"
      /\ k = task[o].new.of /\ k \in Client
  BY DEF KeyShare, Wrote, At
<1>2. k \in Record /\ k # None
  BY <1>1, KindsAreApart DEF Record
<1> QED
  BY <1>1, <1>2, TaskFacts DEF Possible

(* What is true at a commit.                                               *)
LEMMA CommitFacts ==
    ASSUME IInv, NEW r \in Request, Commit(r)
    PROVE  LET t == task[r] IN
             /\ t # None /\ t \in Task /\ t.at = "commit" /\ t.key \in Record
             /\ t.op \in {"create", "hard"} \cup Edits /\ Kind(t) /\ Possible(t)
             /\ Wrote(r) /\ t.key \in Locks(r)
             /\ t.op = "hard" => Below(t.key) \subseteq Locks(r)
                                  /\ t.key \in Exclusive(r) /\ t.new = None
             /\ t.op # "hard" => t.new \in RowOf(t.key) /\ t.new # None
             /\ t.op \in Edits =>
                  /\ rows[t.key] # None
                  /\ t.new.of = rows[t.key].of /\ t.new.path = rows[t.key].path
                  /\ t.new.creator = rows[t.key].creator
<1> DEFINE t == task[r]
<1>1. t # None /\ t \in Task /\ t.at = "commit" /\ t.key \in Record /\ Kind(t) /\ Possible(t)
  BY TaskFacts DEF Commit, At
<1>2. t.op \in {"create", "hard"} \cup Edits
  BY <1>1 DEF Task, Operation, Edits, Kind
<1>3. Wrote(r) /\ t.key \in Locks(r)
  BY <1>1, <1>2 DEF Wrote, At, Locks, Edits
<1>4. t.op = "hard" => /\ Below(t.key) \subseteq Locks(r)
                       /\ t.key \in Exclusive(r) /\ t.new = None
  BY <1>1, <1>3 DEF Locks, Exclusive, Kind
<1>5. t.op \in Edits =>
        /\ rows[t.key] # None /\ t.new \in RowOf(t.key) /\ t.new # None
        /\ t.new.of = rows[t.key].of /\ t.new.path = rows[t.key].path
        /\ t.new.creator = rows[t.key].creator
  BY <1>1, UpdatedFacts DEF Possible, IInv
<1>6. t.op = "create" => t.new \in RowOf(t.key) /\ t.new # None
  BY <1>1, NoneIsNoRow DEF Kind, RowOf, Row
<1> QED
  BY <1>1, <1>2, <1>3, <1>4, <1>5, <1>6 DEF Edits

LEMMA CommitInv ==
    ASSUME IInv, NEW r \in Request, Commit(r) PROVE IInv'
<1> DEFINE t == task[r]
           gone == IF t.op = "hard" THEN Below(t.key) ELSE {}
<1>1. /\ t # None /\ t \in Task /\ t.at = "commit" /\ t.key \in Record
      /\ t.op \in {"create", "hard"} \cup Edits /\ Kind(t) /\ Possible(t)
      /\ Wrote(r) /\ t.key \in Locks(r)
      /\ t.op = "hard" => /\ Below(t.key) \subseteq Locks(r)
                          /\ t.key \in Exclusive(r) /\ t.new = None
      /\ t.op # "hard" => t.new \in RowOf(t.key) /\ t.new # None
      /\ t.op \in Edits =>
           /\ rows[t.key] # None
           /\ t.new.of = rows[t.key].of /\ t.new.path = rows[t.key].path
           /\ t.new.creator = rows[t.key].creator
  BY CommitFacts
<1>2. /\ task'[r] = None /\ \A o \in Request \ {r} : task'[o] = task[o]
      /\ task' \in [Request -> Task \cup {None}]
  BY DEF Commit, End, IInv, TypeOK
<1>3. \A k \in Record :
        rows'[k] = IF k = t.key THEN t.new ELSE IF k \in gone THEN None ELSE rows[k]
  BY DEF Commit
<1>4. UNCHANGED <<users, files, unlinked>>
  BY DEF Commit
<1>5. \A d \in gone : d \in Document /\ d \notin Client /\ rows[d] # None
                        /\ rows[d].of = t.key /\ t.op = "hard" /\ d \in Locks(r)
  BY <1>1, BelowFacts DEF IInv
<1>6. TypeOK'
  <2>1. \A k \in Record : rows'[k] # None => rows'[k] \in RowOf(k)
    BY <1>1, <1>3 DEF IInv, TypeOK, RowOf
  <2>2. \A k \in Record : rows'[k] \in Row \cup {None}
    BY <2>1 DEF RowOf, Row
  <2>3. rows' \in [Record -> Row \cup {None}]
    BY <2>2 DEF Commit
  <2> QED
    BY <1>2, <1>4, <2>1, <2>3 DEF IInv, TypeOK, RowOf
<1>7. ASSUME NEW k \in Record, rows'[k] # None
      PROVE  rows'[k].creator \in users /\ (k \in Document => rows'[rows'[k].of] # None)
  <2>1. CASE k = t.key /\ t.op = "create"
    <3>1. rows'[k] = t.new /\ t.new.creator \in users
      BY <1>1, <1>3, <2>1 DEF Kind, Possible
    <3>2. k \in Document =>
            t.new.of \in Record /\ t.new.of # k /\ rows[t.new.of] # None
      BY <1>1, <2>1, KindsAreApart DEF Possible, RowOf, DocumentRow, Record
    <3> QED
      BY <1>3, <1>5, <2>1, <3>1, <3>2
  <2>2. CASE ~(k = t.key /\ t.op = "create")
    <3>1. /\ rows[k] # None /\ rows'[k].of = rows[k].of
          /\ rows'[k].creator = rows[k].creator /\ k \notin gone
          /\ t.op = "hard" => k # t.key
      BY <1>1, <1>3, <1>5, <1>7, <2>2
    <3>2. rows[k].creator \in users /\ (k \in Document => rows[rows[k].of] # None)
      BY <3>1 DEF IInv, NoRowDangles, Stored
    <3>3. k \in Document => rows[k].of \in Client /\ rows[k].of \in Record
      BY <3>1, RowFacts DEF IInv, Record
    <3>4. k \in Document /\ t.op = "hard" => rows[k].of # t.key
      BY <3>1 DEF Below, Stored
    <3> QED
      BY <1>1, <1>3, <1>5, <3>1, <3>2, <3>3, <3>4
  <2> QED
    BY <2>1, <2>2
<1>8. NoRowDangles'
  BY <1>4, <1>6, <1>7, KindsAreApart DEF NoRowDangles, Stored, TypeOK, DocumentRow, Record
<1>9. ASSUME NEW o \in Request \ {r}, task[o] # None
      PROVE  /\ \A k \in Locks(o) : rows'[k] = rows[k]
             /\ \A k \in KeyShare(o) : rows'[k] # None
             /\ task[o].op = "create" => rows'[task[o].key] = None
             /\ Wrote(o) /\ task[o].op = "create" => task[o].by \in users'
             /\ \A d \in Record :
                  rows'[d] # None /\ rows'[d].of = task[o].key /\ Wrote(o)
                    /\ task[o].op = "hard" => d \in Below(task[o].key)
  <2>1. /\ Locks(o) \cap Locks(r) = {}
        /\ KeyShare(o) \cap Exclusive(r) = {} /\ KeyShare(r) \cap Exclusive(o) = {}
    BY DEF IInv, LocksApart
  <2>2. Kind(task[o]) /\ Possible(task[o]) /\ task[o].key \in Record
    BY <1>9, TaskFacts
  <2>3. \A k \in Locks(o) : rows'[k] = rows[k]
    BY <1>1, <1>3, <1>5, <2>1, LocksAreRecords
  <2>4. ASSUME NEW k \in KeyShare(o) PROVE rows'[k] # None
    <3>1. k \in Client /\ k \in Record /\ rows[k] # None
      BY SharedAreStored
    <3>2. t.op = "hard" => k # t.key
      BY <1>1, <2>1
    <3> QED
      BY <1>1, <1>3, <1>5, <3>1, <3>2
  <2>5. task[o].op = "create" => rows'[task[o].key] = None
    <3>1. task[o].op = "create" => rows[task[o].key] = None /\ task[o].key # t.key
      BY <1>1, <1>9, <2>2 DEF Possible, IInv, KeysApart
    <3> QED
      BY <1>3, <2>2, <3>1
  <2>6. Wrote(o) /\ task[o].op = "create" => task[o].by \in users'
    BY <1>4, <2>2 DEF Wrote, At, Possible
  <2>7. ASSUME NEW d \in Record, rows'[d] # None, rows'[d].of = task[o].key, Wrote(o),
               task[o].op = "hard"
        PROVE  d \in Below(task[o].key)
    <3>1. task[o].key \in Exclusive(o) /\ task[o].key # None
      BY <2>2, <2>7, KindsAreApart DEF Exclusive, Locks
    <3>2. ~(d = t.key /\ t.op = "create")
      <4> SUFFICES ASSUME d = t.key, t.op = "create" PROVE FALSE
        OBVIOUS
      <4>1. t.new.of = task[o].key
        BY <1>3, <2>7
      <4>2. t.new.of \in KeyShare(r)
        BY <1>1, <3>1, <4>1 DEF KeyShare, RowOf, ClientRow, DocumentRow
      <4> QED
        BY <2>1, <3>1, <4>1, <4>2
    <3>3. rows[d] # None /\ rows[d].of = rows'[d].of
      BY <1>1, <1>3, <2>7, <3>2
    <3> QED
      BY <2>7, <3>3 DEF Below, Stored
  <2> QED
    BY <2>3, <2>4, <2>5, <2>6, <2>7
<1>10. ASSUME NEW d \in Document, rows'[d] # None
       PROVE  /\ rows'[d].path => d \in files \cup unlinked
              /\ d \in files => rows'[d].path
  <2>1. d \in Record
    BY DEF Record
  <2>2. CASE d = t.key /\ t.op = "create"
    BY <1>1, <1>3, <2>1, <2>2 DEF Possible
  <2>3. CASE ~(d = t.key /\ t.op = "create")
    <3>1. rows[d] # None /\ rows'[d].path = rows[d].path
      BY <1>1, <1>3, <1>10, <2>1, <2>3
    <3> QED
      BY <2>1, <3>1 DEF IInv, NamedFilesExist, ScansHavePaths, Stored
  <2> QED
    BY <2>2, <2>3
<1> HIDE DEF t, gone
<1>11. \A o \in Request : task'[o] # None => o # r /\ task'[o] = task[o]
  BY <1>2
<1> QED
  BY <1>4, <1>6, <1>8, <1>9, <1>10, <1>11, RowsInv

LEMMA DeleteUserInv ==
    ASSUME IInv, NEW u \in User, DeleteUser(u) PROVE IInv'
<1>1. /\ users' = users \ {u} /\ task' = task /\ UNCHANGED <<files, unlinked>>
      /\ \A k \in Record : rows'[k] = IF k \in TakenWith(u) THEN None ELSE rows[k]
      /\ rows' \in [Record -> Row \cup {None}]
      /\ \A o \in Request : Wrote(o) => task[o].by # u
      /\ \A o \in Request : (Locks(o) \cup KeyShare(o)) \cap TakenWith(u) = {}
  BY DEF DeleteUser, IInv, TypeOK
<1>2. TypeOK'
  BY <1>1 DEF IInv, TypeOK
<1>3. ASSUME NEW k \in Record, rows'[k] # None
      PROVE  rows'[k].creator \in users' /\ (k \in Document => rows'[rows'[k].of] # None)
  <2>1. rows'[k] = rows[k] /\ rows[k] # None /\ k \notin TakenWith(u)
    BY <1>1, <1>3
  <2>2. rows[k].creator \in users /\ rows[k].creator # u
    BY <2>1 DEF IInv, NoRowDangles, Stored, TakenWith, Created
  <2>3. ASSUME k \in Document PROVE rows'[rows[k].of] # None
    <3> DEFINE c == rows[k].of
    <3>1. c \in Client /\ c \in Record /\ rows[c] # None
      BY <2>1, <2>3, RowFacts DEF IInv, NoRowDangles, Stored, Record
    <3>2. c \notin Created(u)
      BY <2>1, <3>1 DEF TakenWith, Below, Stored, Created
    <3>3. \A j \in Created(u) : c \notin Below(j)
      BY <3>1, BelowFacts DEF Created, Stored, IInv
    <3> QED
      BY <1>1, <3>1, <3>2, <3>3 DEF TakenWith
  <2> QED
    BY <1>1, <2>1, <2>2, <2>3
<1>4. NoRowDangles'
  BY <1>2, <1>3, KindsAreApart DEF NoRowDangles, Stored, TypeOK, DocumentRow, Record
<1>5. ASSUME NEW o \in Request, task[o] # None
      PROVE  /\ \A k \in Locks(o) : rows'[k] = rows[k]
             /\ \A k \in KeyShare(o) : rows'[k] # None
             /\ task[o].op = "create" => rows'[task[o].key] = None
             /\ Wrote(o) /\ task[o].op = "create" => task[o].by \in users'
             /\ \A d \in Record :
                  rows'[d] # None /\ rows'[d].of = task[o].key /\ Wrote(o)
                    /\ task[o].op = "hard" => d \in Below(task[o].key)
  <2>1. Kind(task[o]) /\ Possible(task[o]) /\ task[o].key \in Record
    BY <1>5, TaskFacts
  <2>2. \A k \in Locks(o) : rows'[k] = rows[k]
    BY <1>1, LocksAreRecords
  <2>3. \A k \in KeyShare(o) : rows'[k] # None
    <3>1. \A k \in KeyShare(o) : k \in Record /\ rows[k] # None
      BY SharedAreStored
    <3> QED
      BY <1>1, <3>1
  <2>4. task[o].op = "create" => rows'[task[o].key] = None
    BY <1>1, <2>1 DEF Possible
  <2>5. Wrote(o) /\ task[o].op = "create" => task[o].by \in users'
    BY <1>1, <2>1 DEF Wrote, At, Possible
  <2>6. \A d \in Record : rows'[d] # None => rows'[d] = rows[d]
    BY <1>1
  <2> QED
    BY <2>2, <2>3, <2>4, <2>5, <2>6 DEF Below, Stored
<1>6. ASSUME NEW d \in Document, rows'[d] # None
      PROVE  /\ rows'[d].path => d \in files \cup unlinked
             /\ d \in files => rows'[d].path
  <2>1. d \in Record
    BY DEF Record
  <2>2. rows'[d] = rows[d]
    BY <1>1, <1>6, <2>1
  <2> QED
    BY <1>6, <2>1, <2>2 DEF IInv, NamedFilesExist, ScansHavePaths, Stored
<1> QED
  BY <1>1, <1>2, <1>4, <1>5, <1>6, RowsInv

-----------------------------------------------------------------------------
(* The operations begin with what they have looked at.                     *)

LEMMA ClientRequestInv ==
    ASSUME IInv, NEW r \in Request, NEW u \in User, ClientRequest(r, u) PROVE IInv'
<1>1. PICK c \in Client :
        \/ \E p \in Pan : CreateClient(r, u, c, p) \/ UpdatePan(r, u, c, p)
        \/ EditClient(r, u, c) \/ HardDeleteClient(r, u, c)
  BY DEF ClientRequest
<1>2. c \in Record /\ c \notin files
  BY KindsAreApart DEF Record, IInv, TypeOK
<1>3. ASSUME NEW p \in Pan, CreateClient(r, u, c, p) PROVE IInv'
  <2> DEFINE new == [creator |-> u, label |-> p, of |-> None, active |-> TRUE,
                     path |-> FALSE]
  <2>1. new \in RowOf(c) /\ new \in Row
    BY DEF RowOf, Row, ClientRow
  <2>2. Begin(r, "insert", "create", u, c, p, new) /\ Fresh(c)
    BY <1>3 DEF CreateClient
  <2>3. new.creator = u
    OBVIOUS
  <2> HIDE DEF new
  <2>4. Kind([at |-> "insert", op |-> "create", by |-> u, key |-> c, saw |-> Active(c),
              label |-> p, new |-> new])
    BY <2>1, <2>3 DEF Kind, RowOf
  <2> QED
    BY <1>2, <2>1, <2>2, <2>4, BeginInv DEF Operation
<1>4. ASSUME NEW p \in Pan, UpdatePan(r, u, c, p) PROVE IInv'
  <2>1. Kind([at |-> "update", op |-> "relabel", by |-> u, key |-> c, saw |-> Active(c),
              label |-> p, new |-> None])
    BY DEF Kind, Edits
  <2> QED
    BY <1>2, <1>4, <2>1, BeginInv DEF UpdatePan, Active, Stored, Operation
<1>5. CASE EditClient(r, u, c)
  <2>1. Kind([at |-> "update", op |-> "edit", by |-> u, key |-> c, saw |-> Active(c),
              label |-> None, new |-> None])
    BY DEF Kind, Edits
  <2> QED
    BY <1>2, <1>5, <2>1, BeginInv DEF EditClient, Active, Stored, Operation
<1>6. CASE HardDeleteClient(r, u, c)
  <2>1. Kind([at |-> "delete", op |-> "hard", by |-> u, key |-> c, saw |-> Active(c),
              label |-> None, new |-> None])
    BY <1>6 DEF Kind, HardDeleteClient, Inactive, Active
  <2> QED
    BY <1>2, <1>6, <2>1, BeginInv DEF HardDeleteClient, Inactive, Stored, Operation
<1> QED
  BY <1>1, <1>3, <1>4, <1>5, <1>6

LEMMA DocumentRequestInv ==
    ASSUME IInv, NEW r \in Request, NEW u \in User, DocumentRequest(r, u) PROVE IInv'
<1>1. PICK d \in Document :
        \/ \E c \in Client, n \in Number \cup {None}, scan \in BOOLEAN :
             CreateDocument(r, u, d, c, n, scan)
        \/ \E n \in Number : RenumberDocument(r, u, d, n)
        \/ EditDocument(r, u, d) \/ HardDeleteDocument(r, u, d) \/ ReadPhoto(r, u, d)
  BY DEF DocumentRequest
<1>2. d \in Record /\ d \notin Client
  BY KindsAreApart DEF Record
<1>3. ASSUME NEW c \in Client, NEW n \in Number \cup {None}, NEW scan \in BOOLEAN,
             CreateDocument(r, u, d, c, n, scan)
      PROVE  IInv'
  <2> DEFINE new == [creator |-> u, label |-> n, of |-> c, active |-> TRUE, path |-> scan]
  <2>1. new \in RowOf(d) /\ new \in Row
    BY <1>2 DEF RowOf, Row, DocumentRow
  <2>2. Begin(r, "insert", "create", u, d, n, new) /\ Fresh(d)
    BY <1>3 DEF CreateDocument
  <2>3. new.creator = u
    OBVIOUS
  <2> HIDE DEF new
  <2>4. Kind([at |-> "insert", op |-> "create", by |-> u, key |-> d, saw |-> Active(d),
              label |-> n, new |-> new])
    BY <2>1, <2>3 DEF Kind, RowOf
  <2> QED
    BY <1>2, <2>1, <2>2, <2>4, BeginInv DEF Operation
<1>4. ASSUME NEW n \in Number, RenumberDocument(r, u, d, n) PROVE IInv'
  <2>1. Kind([at |-> "update", op |-> "relabel", by |-> u, key |-> d, saw |-> Active(d),
              label |-> n, new |-> None])
    BY <1>2 DEF Kind, Edits
  <2> QED
    BY <1>2, <1>4, <2>1, BeginInv DEF RenumberDocument, Active, Stored, Operation
<1>5. CASE EditDocument(r, u, d)
  <2>1. Kind([at |-> "update", op |-> "edit", by |-> u, key |-> d, saw |-> Active(d),
              label |-> None, new |-> None])
    BY DEF Kind, Edits
  <2> QED
    BY <1>2, <1>5, <2>1, BeginInv DEF EditDocument, Active, Stored, Operation
<1>6. CASE HardDeleteDocument(r, u, d)
  <2> DEFINE place == IF rows[d].path THEN "unlink" ELSE "delete"
  <2>1. rows[d] # None /\ ~Active(d) /\ Begin(r, place, "hard", u, d, None, None)
    BY <1>6 DEF HardDeleteDocument, Inactive, Active, Stored
  <2>2. place \in {"unlink", "delete"} /\ (place = "delete" => d \notin files)
    BY <1>2, <2>1 DEF IInv, ScansHavePaths, Stored
  <2> HIDE DEF place
  <2>3. Kind([at |-> place, op |-> "hard", by |-> u, key |-> d, saw |-> Active(d),
              label |-> None, new |-> None])
    BY <2>1, <2>2 DEF Kind
  <2> QED
    BY <1>2, <2>1, <2>2, <2>3, BeginInv DEF Operation
<1>7. CASE ReadPhoto(r, u, d)
  <2>1. Kind([at |-> "fetch", op |-> "photo", by |-> u, key |-> d, saw |-> Active(d),
              label |-> None, new |-> None])
    BY DEF Kind
  <2>2. rows[d] # None /\ d \in files \cup unlinked
    BY <1>7 DEF ReadPhoto, Active, Stored, IInv, NamedFilesExist
  <2> QED
    BY <1>2, <1>7, <2>1, <2>2, BeginInv DEF ReadPhoto, Operation
<1> QED
  BY <1>1, <1>3, <1>4, <1>5, <1>6, <1>7

LEMMA RecordRequestInv ==
    ASSUME IInv, NEW r \in Request, NEW u \in User, RecordRequest(r, u) PROVE IInv'
<1>1. PICK k \in Record : SoftDelete(r, u, k) \/ Restore(r, u, k)
  BY DEF RecordRequest
<1>2. \A op \in {"deactivate", "restore"} :
        Kind([at |-> "update", op |-> op, by |-> u, key |-> k, saw |-> Active(k),
              label |-> None, new |-> None])
  BY DEF Kind, Edits
<1>3. CASE SoftDelete(r, u, k)
  BY <1>2, <1>3, BeginInv DEF SoftDelete, Active, Stored, Operation
<1>4. CASE Restore(r, u, k)
  BY <1>2, <1>4, BeginInv DEF Restore, Inactive, Stored, Operation
<1> QED
  BY <1>1, <1>3, <1>4

-----------------------------------------------------------------------------
LEMMA InitIInv == Init => IInv
<1> SUFFICES ASSUME Init PROVE IInv
  OBVIOUS
<1>1. TypeOK
  BY DEF Init, TypeOK
<1>2. NoRowDangles /\ NamedFilesExist /\ ScansHavePaths
  BY DEF Init, NoRowDangles, NamedFilesExist, ScansHavePaths, Stored, At
<1>3. TasksInv /\ KeysApart /\ LocksApart
  BY DEF Init, TasksInv, KeysApart, LocksApart, Locks, KeyShare, Wrote, At
<1> QED
  BY <1>1, <1>2, <1>3 DEF IInv

LEMMA NextIInv == IInv /\ [Next]_vars => IInv'
<1> SUFFICES ASSUME IInv, [Next]_vars PROVE IInv'
  OBVIOUS
<1>1. ASSUME NEW r \in Request, Fetch(r) \/ Abort(r) PROVE IInv'
  BY <1>1, EndInv DEF Fetch, Abort
<1>2. CASE UNCHANGED vars
  <2>1. TypeOK' /\ NoRowDangles' /\ NamedFilesExist' /\ ScansHavePaths'
    BY <1>2 DEF vars, IInv, TypeOK, NoRowDangles, NamedFilesExist, ScansHavePaths,
       Stored, At
  <2>2. TasksInv' /\ KeysApart'
    BY <1>2 DEF vars, IInv, TasksInv, KeysApart, Kind, Possible, Updated
  <2>3. LocksApart'
    BY <1>2, SameLocks DEF vars, IInv, LocksApart
  <2> QED
    BY <2>1, <2>2, <2>3 DEF IInv
<1>3. ASSUME NEW r \in Request, NEW u \in User, Receive(r, u) PROVE IInv'
  BY <1>3, ClientRequestInv, DocumentRequestInv, RecordRequestInv DEF Receive
<1>4. ASSUME NEW r \in Request, Advance(r) PROVE IInv'
  BY <1>1, <1>4, InsertInv, StoreInv, UpdateInv, UnlinkInv, DeleteInv, CommitInv
     DEF Advance
<1> QED
  BY <1>1, <1>2, <1>3, <1>4, DeleteUserInv DEF Next

THEOREM Invariance == Spec => []IInv
BY InitIInv, NextIInv, PTL DEF Spec

(* Every variable keeps its type: a client's row stays a client's.         *)
THEOREM TypeCorrect == Spec => []TypeOK
BY Invariance, PTL DEF IInv

(* Rows have their creator, documents their client.                        *)
THEOREM NoDanglingRows == Spec => []NoRowDangles
BY Invariance, PTL DEF IInv

(* A file that a row or a reader names was written.                        *)
THEOREM FilesExist == Spec => []NamedFilesExist
BY Invariance, PTL DEF IInv

-----------------------------------------------------------------------------
(* Only a commit and the deletion of a user change rows.  A row goes with  *)
(* its creator, with its client, or by the hard delete that has given up   *)
(* its file before.                                                        *)
LEMMA GoneStep ==
    ASSUME IInv, [Next]_vars, NEW k \in Record, rows[k] # None, rows'[k] = None
    PROVE  \/ rows[k].creator \notin users'
           \/ k \in Document /\ rows'[rows[k].of] = None
           \/ /\ \E r \in Request :
                   /\ task[r] # None /\ task[r].op = "hard" /\ task[r].key = k
                   /\ ~task[r].saw
              /\ k \notin files'
<1>1. (\E r \in Request : Commit(r)) \/ (\E u \in User : DeleteUser(u))
  <2>1. rows' # rows
    OBVIOUS
  <2>2. ASSUME NEW r \in Request, NEW u \in User, Receive(r, u) PROVE rows' = rows
    <3>1. CASE ClientRequest(r, u)
      BY <3>1 DEF ClientRequest, CreateClient, UpdatePan, EditClient, HardDeleteClient,
         Begin
    <3>2. CASE DocumentRequest(r, u)
      BY <3>2 DEF DocumentRequest, CreateDocument, RenumberDocument, EditDocument,
         HardDeleteDocument, ReadPhoto, Begin
    <3>3. CASE RecordRequest(r, u)
      BY <3>3 DEF RecordRequest, SoftDelete, Restore, Begin
    <3> QED
      BY <2>2, <3>1, <3>2, <3>3 DEF Receive
  <2>3. \A r \in Request : Advance(r) \/ Abort(r) => rows' = rows \/ Commit(r)
    BY DEF Advance, Insert, StoreFile, Update, Unlink, Delete, Fetch, Abort
  <2> QED
    BY <2>1, <2>2, <2>3 DEF Next, vars
<1>2. ASSUME NEW r \in Request, Commit(r)
      PROVE  \/ k \in Document /\ rows'[rows[k].of] = None
             \/ /\ task[r] # None /\ task[r].op = "hard" /\ task[r].key = k
                /\ ~task[r].saw /\ k \notin files'
  <2> DEFINE t == task[r]
  <2>1. /\ t # None /\ t.at = "commit" /\ t.key \in Record /\ Kind(t) /\ Possible(t)
        /\ t.op = "hard" => t.new = None
        /\ t.op # "hard" => t.new # None
    BY <1>2, CommitFacts
  <2>2. files' = files /\
        rows'[k] = IF k = t.key THEN t.new
                   ELSE IF t.op = "hard" /\ k \in Below(t.key) THEN None
                   ELSE rows[k]
    BY <1>2 DEF Commit
  <2>3. CASE k = t.key
    BY <2>1, <2>2, <2>3 DEF Kind, Possible
  <2>4. CASE k # t.key
    <3>1. t.op = "hard" /\ k \in Below(t.key)
      BY <2>2, <2>4
    <3>2. k \in Document /\ rows[k].of = t.key
      BY <2>1, <3>1, BelowFacts DEF IInv
    <3>3. rows'[t.key] = None
      BY <1>2, <2>1, <3>1 DEF Commit
    <3> QED
      BY <3>2, <3>3
  <2> QED
    BY <2>3, <2>4
<1>3. ASSUME NEW u \in User, DeleteUser(u)
      PROVE  \/ rows[k].creator \notin users'
             \/ k \in Document /\ rows'[rows[k].of] = None
  <2>1. /\ users' = users \ {u} /\ k \in TakenWith(u)
        /\ \A j \in Record : j \in TakenWith(u) => rows'[j] = None
    BY <1>3 DEF DeleteUser
  <2>2. CASE k \in Created(u)
    BY <2>1, <2>2 DEF Created
  <2>3. CASE k \notin Created(u)
    <3>1. PICK j \in Created(u) : k \in Below(j)
      BY <2>1, <2>3 DEF TakenWith
    <3>2. j \in Record /\ j \in TakenWith(u)
      BY <3>1 DEF Created, Stored, TakenWith
    <3>3. k \in Document /\ rows[k].of = j
      BY <3>1, <3>2, BelowFacts DEF IInv
    <3> QED
      BY <2>1, <3>2, <3>3
  <2> QED
    BY <2>2, <2>3
<1> QED
  BY <1>1, <1>2, <1>3

(* An active record disappears with its creator, with its client, or under *)
(* a hard delete that read it as soft-deleted.                             *)
THEOREM ActiveRecordsAreKept == Spec => ActiveRecordsStay
<1> DEFINE Kept ==
      \A k \in Stored :
         rows[k].active /\ rows'[k] = None =>
           \/ rows[k].creator \notin users'
           \/ k \in Document /\ rows'[rows[k].of] = None
           \/ \E r \in Request :
                /\ task[r] # None /\ task[r].op = "hard" /\ task[r].key = k
                /\ ~task[r].saw
<1>1. IInv /\ [Next]_vars => Kept
  BY GoneStep DEF Stored
<1> QED
  BY <1>1, Invariance, PTL DEF Spec, ActiveRecordsStay

(* A file loses its row to a cascade, or never had one: a hard delete of   *)
(* its document has removed it before.                                     *)
THEOREM HardDeletesLeaveNoFile == Spec => OrphansComeFromFailures
<1> DEFINE Explained ==
      \A d \in Document :
         ~Orphan(d) /\ Orphan(d)' =>
           \/ d \in Stored /\ (rows[d].creator \notin users' \/ rows'[rows[d].of] = None)
           \/ d \notin Stored
<1>1. IInv /\ [Next]_vars => Explained
  <2> SUFFICES ASSUME IInv, [Next]_vars, NEW d \in Document, Orphan(d)', d \in Stored
               PROVE  rows[d].creator \notin users' \/ rows'[rows[d].of] = None
    OBVIOUS
  <2>1. d \in Record /\ rows[d] # None /\ rows'[d] = None /\ d \in files'
    BY DEF Stored, Orphan
  <2> QED
    BY <2>1, GoneStep
<1> QED
  BY <1>1, Invariance, PTL DEF Spec, OrphansComeFromFailures

-----------------------------------------------------------------------------
(* Labels.  What a request has written under its locks is nobody else's    *)
(* label, stored or written: the unique index has made it wait or fail.    *)

Pending(r) ==
    IF Wrote(r) /\ task[r].new # None THEN {task[r].new.label} \ {None} ELSE {}

LabelsAreUnique ==
    \A j, k \in Stored : rows[j].label = rows[k].label /\ rows[j].label # None => j = k

BookInv ==
    /\ LabelsAreUnique
    /\ \A r \in Request : \A k \in Stored :
         rows[k].label \in Pending(r) => k = task[r].key
    /\ \A r, o \in Request : r # o => Pending(r) \cap Pending(o) = {}
    /\ \A r \in Request : task[r] # None /\ task[r].op = "create" =>
         task[r].new.active /\ task[r].new.label = task[r].label

(* One request moves and the rows stay.                                    *)
LEMMA MoveBook ==
    ASSUME BookInv, rows' = rows, NEW r \in Request,
           \A o \in Request \ {r} : task'[o] = task[o],
           \A l \in Pending(r)' :
             /\ \A o \in Request \ {r} : l \notin Pending(o)
             /\ \A k \in Stored : rows[k].label = l => k = task'[r].key,
           task'[r] # None /\ task'[r].op = "create" =>
             task'[r].new.active /\ task'[r].new.label = task'[r].label
    PROVE  BookInv'
<1>1. Stored' = Stored
  BY DEF Stored
<1>2. \A o \in Request \ {r} : Pending(o)' = Pending(o)
  BY DEF Pending, Wrote, At
<1> QED
  BY <1>1, <1>2 DEF BookInv, LabelsAreUnique

LEMMA EndBook ==
    ASSUME IInv, BookInv, NEW r \in Request, End(r), rows' = rows PROVE BookInv'
<1>1. task'[r] = None /\ \A o \in Request \ {r} : task'[o] = task[o]
  BY DEF IInv, TypeOK, End
<1>2. Pending(r)' = {}
  BY <1>1 DEF Pending, Wrote, At
<1> QED
  BY <1>1, <1>2, MoveBook

LEMMA BeginBook ==
    ASSUME IInv, BookInv, NEW r \in Request, NEW place, place \notin {"store", "commit"},
           NEW op, NEW u, NEW k, NEW l, NEW new,
           Begin(r, place, op, u, k, l, new),
           op = "create" => new.active /\ new.label = l
    PROVE  BookInv'
<1>1. /\ task'[r] = [at |-> place, op |-> op, by |-> u, key |-> k, saw |-> Active(k),
                     label |-> l, new |-> new]
      /\ rows' = rows /\ \A o \in Request \ {r} : task'[o] = task[o]
  BY DEF IInv, TypeOK, Begin
<1>2. Pending(r)' = {}
  BY <1>1 DEF Pending, Wrote, At
<1>3. task'[r].op = op /\ task'[r].new = new /\ task'[r].label = l
  BY <1>1
<1> QED
  BY <1>1, <1>2, <1>3, MoveBook

LEMMA ReceiveBook ==
    ASSUME IInv, BookInv, NEW r \in Request, NEW u \in User, Receive(r, u)
    PROVE  BookInv'
<1>1. ASSUME NEW c \in Client, NEW p \in Pan, CreateClient(r, u, c, p) PROVE BookInv'
  <2> DEFINE new == [creator |-> u, label |-> p, of |-> None, active |-> TRUE,
                     path |-> FALSE]
  <2>1. new.active /\ new.label = p /\ Begin(r, "insert", "create", u, c, p, new)
    BY <1>1 DEF CreateClient
  <2> HIDE DEF new
  <2> QED
    BY <2>1, BeginBook
<1>2. ASSUME NEW d \in Document, NEW c \in Client, NEW n \in Number \cup {None},
             NEW scan \in BOOLEAN, CreateDocument(r, u, d, c, n, scan)
      PROVE  BookInv'
  <2> DEFINE new == [creator |-> u, label |-> n, of |-> c, active |-> TRUE,
                     path |-> scan]
  <2>1. new.active /\ new.label = n /\ Begin(r, "insert", "create", u, d, n, new)
    BY <1>2 DEF CreateDocument
  <2> HIDE DEF new
  <2> QED
    BY <2>1, BeginBook
<1>3. ASSUME NEW k \in Record,
             \/ \E l \in Pan \cup Number : UpdatePan(r, u, k, l) \/ RenumberDocument(r, u, k, l)
             \/ EditClient(r, u, k) \/ EditDocument(r, u, k)
             \/ HardDeleteClient(r, u, k) \/ HardDeleteDocument(r, u, k)
             \/ ReadPhoto(r, u, k) \/ SoftDelete(r, u, k) \/ Restore(r, u, k)
      PROVE  BookInv'
  <2>1. \E place \in {"update", "unlink", "delete", "fetch"},
           op \in Operation \ {"create"}, l \in Pan \cup Number \cup {None} :
          Begin(r, place, op, u, k, l, None)
    BY <1>3 DEF UpdatePan, RenumberDocument, EditClient, EditDocument, HardDeleteClient,
       HardDeleteDocument, ReadPhoto, SoftDelete, Restore, Operation
  <2> QED
    BY <2>1, BeginBook
<1> QED
  BY <1>1, <1>2, <1>3
     DEF Receive, ClientRequest, DocumentRequest, RecordRequest, Record

(* The statements that write a label have waited for everybody else's.     *)
LEMMA InsertBook ==
    ASSUME IInv, BookInv, NEW r \in Request, Insert(r) PROVE BookInv'
<1> DEFINE t == task[r]
<1>1. /\ t # None /\ t.at = "insert" /\ t.op = "create" /\ t.key \in Record
      /\ t.new.active /\ t.new.label = t.label /\ rows' = rows
      /\ ~LabelPending(r, t.label)
  BY TaskFacts DEF Insert, At, Kind, BookInv
<1>2. CASE End(r)
  BY <1>1, <1>2, EndBook
<1>3. CASE ~End(r)
  <2>1. Goto(r, AfterInsert(t.new), t.new) /\ ~Taken(t.key, t.label)
    BY <1>3 DEF Insert
  <2>2. task'[r] = [at |-> AfterInsert(t.new), op |-> "create", by |-> t.by,
                    key |-> t.key, saw |-> t.saw, label |-> t.label, new |-> t.new]
    BY <1>1, <2>1, GotoTask
  <2>3. /\ task'[r].key = t.key /\ task'[r].new = t.new /\ task'[r].label = t.label
        /\ \A o \in Request \ {r} : task'[o] = task[o]
    BY <2>1, <2>2 DEF Goto
  <2>4. Pending(r)' \subseteq {t.label} \ {None}
    BY <1>1, <2>3 DEF Pending
  <2>5. \A o \in Request \ {r} : t.label \in Pending(o) => FALSE
    BY <1>1 DEF LabelPending, Pending
  <2>6. t.label # None => \A k \in Stored : rows[k].label = t.label => k = t.key
    BY <2>1 DEF Taken
  <2> QED
    BY <1>1, <2>3, <2>4, <2>5, <2>6, MoveBook
<1> QED
  BY <1>2, <1>3

LEMMA UpdateBook ==
    ASSUME IInv, BookInv, NEW r \in Request, Update(r) PROVE BookInv'
<1> DEFINE t == task[r]
           l == Updated(t).label
<1>1. t # None /\ t.at = "update" /\ t.op \in Edits /\ t \in Task /\ Kind(t)
      /\ t.key \in Record /\ rows' = rows
  BY TaskFacts DEF Update, At, Kind
<1>2. CASE End(r)
  BY <1>1, <1>2, EndBook
<1>3. CASE ~End(r)
  <2>1. /\ Goto(r, "commit", Updated(t)) /\ ~Locked(r, {t.key}) /\ t.key \in Stored
        /\ t.op = "relabel" => ~LabelPending(r, t.label) /\ ~Taken(t.key, t.label)
    BY <1>1, <1>3 DEF Update, Stored
  <2>2. task'[r] = [at |-> "commit", op |-> t.op, by |-> t.by, key |-> t.key,
                    saw |-> t.saw, label |-> t.label, new |-> Updated(t)]
    BY <1>1, <2>1, GotoTask
  <2>3. /\ task'[r].key = t.key /\ task'[r].new = Updated(t) /\ task'[r].op # "create"
        /\ \A o \in Request \ {r} : task'[o] = task[o]
    BY <1>1, <2>1, <2>2 DEF Goto, Edits
  <2>4. Pending(r)' \subseteq {l} \ {None}
    BY <2>3 DEF Pending
  <2>5. CASE t.op = "relabel"
    <3>1. l = t.label
      <4>1. rows[t.key] \in RowOf(t.key)
        BY <1>1, <2>1, RowFacts DEF IInv, Stored
      <4> QED
        BY <2>5, <4>1 DEF Updated, RowOf, ClientRow, DocumentRow
    <3>2. \A o \in Request \ {r} : l # None => l \notin Pending(o)
      BY <2>1, <2>5, <3>1 DEF LabelPending, Pending
    <3>3. l # None => \A k \in Stored : rows[k].label = l => k = t.key
      BY <2>1, <2>5, <3>1 DEF Taken
    <3> HIDE DEF l
    <3> QED
      BY <1>1, <2>3, <2>4, <3>2, <3>3, MoveBook
  <2>6. CASE t.op # "relabel"
    <3>1. l = rows[t.key].label
      <4>1. rows[t.key] \in RowOf(t.key)
        BY <1>1, <2>1, RowFacts DEF IInv, Stored
      <4> QED
        BY <2>6, <4>1 DEF Updated, RowOf, ClientRow, DocumentRow
    <3>2. ASSUME NEW o \in Request \ {r}, l \in Pending(o) PROVE FALSE
      <4>1. t.key = task[o].key
        BY <2>1, <3>1, <3>2 DEF BookInv
      <4>2. t.key \in Locks(o)
        BY <3>2, <4>1 DEF Pending, Locks
      <4> QED
        BY <2>1, <4>2 DEF Locked
    <3>3. l # None => \A k \in Stored : rows[k].label = l => k = t.key
      BY <2>1, <3>1 DEF BookInv, LabelsAreUnique
    <3> HIDE DEF l
    <3> QED
      BY <1>1, <2>3, <2>4, <3>2, <3>3, MoveBook
  <2> QED
    BY <2>5, <2>6
<1> QED
  BY <1>2, <1>3

(* The other statements write no label, or keep the one they have.         *)
LEMMA GotoBook ==
    ASSUME IInv, BookInv, NEW r \in Request, StoreFile(r) \/ Unlink(r) \/ Delete(r)
    PROVE  BookInv'
<1> DEFINE t == task[r]
<1>1. t # None /\ Kind(t) /\ rows' = rows
  BY TaskFacts DEF StoreFile, Unlink, Delete, At
<1>2. CASE StoreFile(r)
  <2>1. Goto(r, "commit", t.new) /\ t.at = "store"
    BY <1>2 DEF StoreFile, At
  <2>2. task'[r] = [at |-> "commit", op |-> t.op, by |-> t.by, key |-> t.key,
                    saw |-> t.saw, label |-> t.label, new |-> t.new]
    BY <1>1, <2>1, GotoTask
  <2>3. /\ task'[r].key = t.key /\ task'[r].new = t.new /\ task'[r].label = t.label
        /\ task'[r].op = t.op /\ \A o \in Request \ {r} : task'[o] = task[o]
    BY <2>1, <2>2 DEF Goto
  <2>4. Pending(r)' \subseteq Pending(r)
    BY <1>1, <2>1, <2>3 DEF Pending, Wrote, At, Kind
  <2>5. \A l \in Pending(r)' :
          /\ \A o \in Request \ {r} : l \notin Pending(o)
          /\ \A k \in Stored : rows[k].label = l => k = task'[r].key
    BY <2>3, <2>4 DEF BookInv
  <2>6. t.op = "create" => t.new.active /\ t.new.label = t.label
    BY <1>1 DEF BookInv
  <2> HIDE DEF t
  <2> QED
    BY <1>1, <2>3, <2>5, <2>6, MoveBook
<1>3. CASE Unlink(r) \/ Delete(r)
  <2>1. CASE End(r)
    BY <1>1, <2>1, EndBook
  <2>2. CASE ~End(r)
    <3>1. PICK place \in {"delete", "commit"} : Goto(r, place, None)
      BY <1>3, <2>2 DEF Unlink, Delete
    <3>2. t.op = "hard"
      BY <1>1, <1>3 DEF Unlink, Delete, At, Kind
    <3>3. task'[r] = [at |-> place, op |-> t.op, by |-> t.by, key |-> t.key,
                      saw |-> t.saw, label |-> t.label, new |-> None]
      BY <1>1, <3>1, GotoTask
    <3>4. /\ task'[r].new = None /\ task'[r].op = "hard"
          /\ \A o \in Request \ {r} : task'[o] = task[o]
      BY <3>1, <3>2, <3>3 DEF Goto
    <3>5. Pending(r)' = {}
      BY <3>4 DEF Pending
    <3> QED
      BY <1>1, <3>4, <3>5, MoveBook
  <2> QED
    BY <2>1, <2>2
<1> QED
  BY <1>2, <1>3

(* Rows go, or one is written with the label its request has held.         *)
LEMMA CommitBook ==
    ASSUME IInv, BookInv, NEW r \in Request, Commit(r) PROVE BookInv'
<1> DEFINE t == task[r]
<1>1. /\ t # None /\ Wrote(r) /\ t.key \in Record
      /\ task'[r] = None /\ \A o \in Request \ {r} : task'[o] = task[o]
  BY CommitFacts DEF Commit, End, IInv, TypeOK
<1>2. \A k \in Stored' : \/ k = t.key /\ rows'[k] = t.new /\ t.new # None
                         \/ k \in Stored /\ k # t.key /\ rows'[k] = rows[k]
  BY DEF Commit, Stored
<1>3. Pending(r)' = {} /\ \A o \in Request \ {r} : Pending(o)' = Pending(o)
  BY <1>1 DEF Pending, Wrote, At
<1>4. t.new # None /\ t.new.label # None => t.new.label \in Pending(r)
  BY <1>1 DEF Pending
<1> HIDE DEF t
<1>5. LabelsAreUnique'
  <2> SUFFICES ASSUME NEW j \in Stored', NEW k \in Stored',
                      rows'[j].label = rows'[k].label, rows'[j].label # None, j # k
               PROVE  FALSE
    BY DEF LabelsAreUnique
  <2>1. CASE j \in Stored /\ rows'[j] = rows[j] /\ k \in Stored /\ rows'[k] = rows[k]
    BY <2>1 DEF BookInv, LabelsAreUnique
  <2>2. CASE j = t.key /\ rows'[j] = t.new /\ t.new # None
    BY <1>2, <1>4, <2>2 DEF BookInv, t
  <2>3. CASE k = t.key /\ rows'[k] = t.new /\ t.new # None
    BY <1>2, <1>4, <2>3 DEF BookInv, t
  <2> QED
    BY <1>2, <2>1, <2>2, <2>3
<1>6. ASSUME NEW o \in Request \ {r}, NEW k \in Stored', rows'[k].label \in Pending(o)
      PROVE  k = task[o].key
  <2>1. CASE k \in Stored /\ rows'[k] = rows[k]
    BY <1>6, <2>1 DEF BookInv
  <2>2. CASE rows'[k] = t.new /\ t.new # None
    <3>1. t.new.label # None
      BY <1>6, <2>2 DEF Pending
    <3> QED
      BY <1>4, <1>6, <2>2, <3>1 DEF BookInv
  <2> QED
    BY <1>2, <2>1, <2>2
<1> QED
  BY <1>1, <1>3, <1>5, <1>6 DEF BookInv

LEMMA NextBook == IInv /\ BookInv /\ [Next]_vars => BookInv'
<1> SUFFICES ASSUME IInv, BookInv, [Next]_vars PROVE BookInv'
  OBVIOUS
<1>1. ASSUME NEW r \in Request, Fetch(r) \/ Abort(r) PROVE BookInv'
  BY <1>1, EndBook DEF Fetch, Abort
<1>2. ASSUME NEW u \in User, DeleteUser(u) PROVE BookInv'
  <2>1. /\ task' = task
        /\ \A k \in Stored' : k \in Stored /\ rows'[k] = rows[k]
    BY <1>2 DEF DeleteUser, Stored
  <2>2. \A o \in Request : Pending(o)' = Pending(o)
    BY <2>1 DEF Pending, Wrote, At
  <2> QED
    BY <2>1, <2>2 DEF BookInv, LabelsAreUnique
<1>3. CASE UNCHANGED vars
  BY <1>3 DEF vars, BookInv, LabelsAreUnique, Stored, Pending, Wrote, At
<1>4. ASSUME NEW r \in Request, Advance(r) PROVE BookInv'
  BY <1>1, <1>4, InsertBook, UpdateBook, GotoBook, CommitBook DEF Advance
<1> QED
  BY <1>1, <1>2, <1>3, <1>4, ReceiveBook DEF Next

LEMMA InitBook == Init => BookInv
BY DEF Init, BookInv, LabelsAreUnique, Stored, Pending, Wrote, At

LEMMA BookInvariance == Spec => []BookInv
<1> QED
  BY NextBook, InitBook, Invariance, PTL DEF Spec

(* No two clients have one PAN, and no two documents one number, whatever  *)
(* creates and updates wait for each other.                                *)
THEOREM UniqueLabels == Spec => []LabelsAreUnique
BY BookInvariance, PTL DEF BookInv

-----------------------------------------------------------------------------
(* CrmRecords implements CrmBook: a commit is one entry, edit or removal,  *)
(* and everything before it leaves the book alone.                         *)

LEMMA Mapping ==
    /\ Book!Record = Record /\ Book!Stored = Stored
    /\ \A k \in Record : Book!Below(k) = Below(k)
    /\ \A u \in User : Book!Made(u) = Created(u)
    /\ Book!ClientEntry = ClientRow /\ Book!DocumentEntry = DocumentRow
BY DEF Book!Record, Record, Book!Stored, Stored, Book!Below, Below, Book!Made, Created,
   Book!ClientEntry, ClientRow, Book!DocumentEntry, DocumentRow

LEMMA CommitIsEntry ==
    ASSUME IInv, BookInv, NEW r \in Request, Commit(r)
    PROVE  [Book!Next]_(Book!bookVars)
<1> DEFINE t == task[r]
<1>1. /\ t # None /\ t \in Task /\ t.at = "commit" /\ t.key \in Record
      /\ t.op \in {"create", "hard"} \cup Edits /\ Kind(t) /\ Possible(t)
      /\ Wrote(r)
      /\ t.op = "hard" => t.new = None
      /\ t.op # "hard" => t.new \in RowOf(t.key) /\ t.new # None
  BY CommitFacts
<1>2. /\ rows' = [k \in Record |->
                    IF k = t.key THEN t.new
                    ELSE IF t.op = "hard" /\ k \in Below(t.key) THEN None
                    ELSE rows[k]]
      /\ users' = users
  BY DEF Commit
<1>3. rows \in [Record -> Row \cup {None}] /\ TypeOK
  BY DEF IInv, TypeOK
<1>4. t.op # "hard" => rows' = [rows EXCEPT ![t.key] = t.new]
  BY <1>1, <1>2, <1>3
<1>5. t.op # "hard" => Book!Free(t.key, t.new.label)
  BY <1>1, Mapping DEF BookInv, Pending, Book!Free
<1>6. CASE t.op = "create"
  <2>1. /\ t.key \notin Stored /\ t.new.active /\ t.new.creator \in users
        /\ t.new.of \in Stored \cup {None}
    <3>1. rows[t.key] = None /\ t.new.creator \in users /\ t.new.active
          /\ (t.new.of # None => rows[t.new.of] # None)
      BY <1>1, <1>6 DEF Possible, Kind, BookInv
    <3>2. t.new.of # None => t.new.of \in Record
      BY <1>1, <1>6 DEF RowOf, ClientRow, DocumentRow, Record
    <3> QED
      BY <3>1, <3>2 DEF Stored
  <2>2. Book!Enter(t.key, t.new)
    BY <1>2, <1>4, <1>5, <1>6, <2>1, Mapping DEF Book!Enter
  <2>3. \/ t.key \in Client /\ t.new \in ClientRow
        \/ t.key \in Document /\ t.new \in DocumentRow
    BY <1>1, <1>6 DEF RowOf, Record
  <2> QED
    BY <2>2, <2>3, Mapping DEF Book!Next
<1>7. CASE t.op \in Edits
  <2>1. rows[t.key] # None /\ t.new = Updated(t) /\ t.key \in Stored
    BY <1>1, <1>7 DEF Possible, Stored
  <2>2. rows[t.key] \in RowOf(t.key) /\ t.op # "hard"
    BY <1>1, <1>3, <1>7, <2>1, RowFacts DEF Edits
  <2>3. CASE t.op = "relabel"
    <3>1. t.new = [rows[t.key] EXCEPT !.label = t.label]
      BY <2>1, <2>3 DEF Updated
    <3>2. t.new.label = t.label
      BY <2>2, <3>1 DEF RowOf, ClientRow, DocumentRow
    <3>3. Book!Relabel(t.key, t.label)
      BY <1>2, <1>4, <1>5, <2>1, <2>2, <3>1, <3>2, Mapping DEF Book!Relabel
    <3>4. \/ t.key \in Client /\ t.label \in Pan
          \/ t.key \in Document /\ t.label \in Number
      BY <1>1, <2>3 DEF Kind, Record
    <3> QED
      BY <3>3, <3>4 DEF Book!Next
  <2>4. CASE t.op = "edit"
    <3>1. t.new = rows[t.key]
      BY <2>1, <2>4 DEF Updated
    <3>2. rows' = rows
      BY <1>1, <1>3, <1>4, <2>2, <3>1
    <3> QED
      BY <1>2, <3>2 DEF Book!bookVars
  <2>5. CASE t.op \in {"deactivate", "restore"}
    <3>1. t.new = [rows[t.key] EXCEPT !.active = (t.op = "restore")]
      BY <2>1, <2>5 DEF Updated
    <3>2. Book!SetActive(t.key, t.op = "restore")
      BY <1>2, <1>4, <2>1, <2>2, <3>1, Mapping DEF Book!SetActive
    <3>3. t.key \in Book!Record /\ (t.op = "restore") \in BOOLEAN
      BY <1>1, Mapping
    <3> QED
      BY <3>2, <3>3 DEF Book!Next
  <2> QED
    BY <1>7, <2>3, <2>4, <2>5 DEF Edits
<1>8. CASE t.op = "hard"
  <2>1. CASE t.key \in Stored
    <3>1. rows' = [k \in Record |-> IF k \in {t.key} \cup Below(t.key) THEN None
                                    ELSE rows[k]]
      BY <1>1, <1>2, <1>8
    <3>2. Book!Remove(t.key)
      BY <1>1, <1>2, <2>1, <3>1, Mapping DEF Book!Remove, Book!Strike
    <3> QED
      BY <1>1, <3>2, Mapping DEF Book!Next
  <2>2. CASE t.key \notin Stored
    <3>1. rows[t.key] = None /\ Below(t.key) = {}
      <4>1. \A d \in Below(t.key) : d \in Document /\ d \in Stored /\ rows[d].of = t.key
        BY <1>1, <1>3, BelowFacts DEF Below
      <4> QED
        BY <1>1, <2>2, <4>1 DEF IInv, NoRowDangles, Stored
    <3>2. rows' = rows
      BY <1>1, <1>2, <1>3, <1>8, <3>1
    <3> QED
      BY <1>2, <3>2 DEF Book!bookVars
  <2> QED
    BY <2>1, <2>2
<1> QED
  BY <1>1, <1>6, <1>7, <1>8

LEMMA DeleteUserIsRemoval ==
    ASSUME NEW u \in User, DeleteUser(u) PROVE Book!Next
<1>1. TakenWith(u) = Book!Made(u) \cup UNION {Book!Below(k) : k \in Book!Made(u)}
  <2>1. \A k \in Created(u) : k \in Record
    BY DEF Created, Stored
  <2> QED
    BY <2>1, Mapping DEF TakenWith
<1>2. Book!RemoveUser(u)
  BY <1>1, Mapping DEF DeleteUser, Book!RemoveUser, Book!Strike
<1> QED
  BY <1>2 DEF Book!Next

THEOREM RecordsAreABook == Spec => ImplementsBook
<1>1. Init => Book!Init
  BY Mapping DEF Init, Book!Init
<1>2. IInv /\ BookInv /\ [Next]_vars => [Book!Next]_(Book!bookVars)
  <2> SUFFICES ASSUME IInv, BookInv, [Next]_vars PROVE [Book!Next]_(Book!bookVars)
    OBVIOUS
  <2>1. ASSUME NEW r \in Request, NEW u \in User, Receive(r, u)
        PROVE  UNCHANGED <<users, rows>>
    <3>1. CASE ClientRequest(r, u)
      BY <3>1 DEF ClientRequest, CreateClient, UpdatePan, EditClient, HardDeleteClient,
         Begin
    <3>2. CASE DocumentRequest(r, u)
      BY <3>2 DEF DocumentRequest, CreateDocument, RenumberDocument, EditDocument,
         HardDeleteDocument, ReadPhoto, Begin
    <3>3. CASE RecordRequest(r, u)
      BY <3>3 DEF RecordRequest, SoftDelete, Restore, Begin
    <3> QED
      BY <2>1, <3>1, <3>2, <3>3 DEF Receive
  <2>2. \A r \in Request : Advance(r) \/ Abort(r) =>
          UNCHANGED <<users, rows>> \/ Commit(r)
    BY DEF Advance, Insert, StoreFile, Update, Unlink, Delete, Fetch, Abort
  <2> QED
    BY <2>1, <2>2, CommitIsEntry, DeleteUserIsRemoval DEF Next, vars, Book!bookVars
<1> QED
  BY <1>1, <1>2, Invariance, BookInvariance, PTL DEF Spec, ImplementsBook, Book!Spec
=============================================================================
