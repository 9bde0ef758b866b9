--------------------------- MODULE TotpCodesProofs ---------------------------
(***************************************************************************)
(* The properties of TotpCodes for any batches, codes and concurrent       *)
(* requests.  What a request has read stays true unless it is overlapped   *)
(* (Read), a row that it has found stays the one it read until it ends     *)
(* (Writes), and a batch of codes belongs to the row of one id (Own,       *)
(* Apart), which never comes back (Unlike): a request that misses its row  *)
(* has not left its code in another.                                       *)
(***************************************************************************)
EXTENDS TotpCodes, TLAPS

BatchesOf(cs) == {b \in Batch : BatchOf(b) \cap cs # {}}

(* The batches whose codes a request presents or is about to write.        *)
Hand(c, cs) == BatchesOf(cs) \cup BatchesOf({c})

Held(t) == Hand(t.code, t.codes)

(* The id of the row that a request writes to, or inserts; an enrolment    *)
(* that has yet to look for one counts as inserting it.                    *)
Target(t) == IF t.id = None THEN t.secret ELSE t.id

(* A recovery forgets the row of its code when it looks for another.       *)
Carrier(t) == t.at = "write" \/ t.op # "recover"

(* A request that has missed the row it read.                              *)
Astray(t) == t.at \notin {"look", "write"} /\ ~t.found

(* An operation has its statements and its arguments.                      *)
Kind(t) ==
    /\ t.id = None => t.op = "enable"
    /\ t.at = "look" => t.op = "enable" /\ t.id = None
    /\ t.at \in {"reread", "delete"} => t.op = "recover"
    /\ t.found => t.at = "commit"
    /\ Astray(t) => t.op # "enable"
    /\ t.code \notin t.codes
    /\ t.op \in {"enable", "regenerate", "wipe"} => t.code = None

(* What was read is what is there, as long as nobody has overlapped.       *)
Read(t) ==
    ~t.overlapped =>
      /\ t.op # "enable" => row # None /\ row.secret = t.secret
      /\ t.op = "enable" => ~Verified

(* The row that was found is there, and locked.                            *)
Writes(r) == task[r].found => task[r].id = Id /\ ~Locked(r)

(* The codes a request has in hand are those of its own row; the code of   *)
(* one that has missed its row is in no other.                             *)
Own(t) ==
    row # None =>
      /\ Carrier(t) /\ Held(t) \cap BatchesOf(row.codes) # {} => Target(t) = row.id
      /\ t.id = None => t.secret # row.id
      /\ Astray(t) => BatchesOf({t.code}) \cap BatchesOf(row.codes) = {}

(* Two requests with codes of one batch write to one row, and nobody can   *)
(* bring back a code whose request has missed its row.                     *)
Apart(t, o) ==
    Carrier(o) =>
      /\ Carrier(t) /\ Held(t) \cap Held(o) # {} => Target(t) = Target(o)
      /\ Astray(t) /\ BatchesOf({t.code}) \cap Held(o) # {} =>
           o.id # None /\ o.id # Id

(* The id of a row to be inserted is nobody else's.                        *)
Unlike(t, o) == t.id = None => Target(o) # t.secret

TasksInv ==
    \A r \in Request : task[r] # None =>
      Kind(task[r]) /\ Read(task[r]) /\ Writes(r) /\ Own(task[r])

PairsInv ==
    \A r, o \in Request : task[r] # None /\ task[o] # None =>
      Apart(task[r], task[o]) /\ (o # r => Unlike(task[r], task[o]))

IInv == TypeOK /\ TasksInv /\ PairsInv

-----------------------------------------------------------------------------
(* Batches and types.                                                      *)

LEMMA BatchFacts ==
    /\ \A cs, ds : cs \subseteq ds => BatchesOf(cs) \subseteq BatchesOf(ds)
    /\ \A b \in Batch : \A cs : cs \subseteq BatchOf(b) => BatchesOf(cs) \subseteq {b}
    /\ \A b \in Batch : \A cs : cs \cap BatchOf(b) = {} => b \notin BatchesOf(cs)
    /\ BatchesOf({None}) = {} /\ BatchesOf({}) = {}
    /\ \A c \in Code : BatchesOf({c}) # {}
<1>1. \A c \in Code : \E b \in Batch : c \in BatchOf(b)
  BY DEF Code, BatchOf
<1>2. \A b \in Batch : BatchOf(b) \subseteq Code
  BY DEF Code, BatchOf
<1>3. \A b, d \in Batch : BatchOf(b) \cap BatchOf(d) # {} => b = d
  BY DEF BatchOf
<1> QED
  BY <1>1, <1>2, <1>3, NoneIsApart DEF BatchesOf

LEMMA RowFacts ==
    ASSUME TypeOK, row # None
    PROVE  /\ row \in Secret /\ row.id \in Batch /\ row.secret \in Batch
           /\ row.verified \in BOOLEAN /\ row.codes \subseteq Code
           /\ Id = row.id
BY DEF TypeOK, Secret, Id

LEMMA IdFacts == ASSUME TypeOK PROVE Id \in Batch \cup {None}
BY RowFacts DEF Id

LEMMA TaskFacts ==
    ASSUME TypeOK, NEW r \in Request, task[r] # None
    PROVE  /\ task[r] \in Task /\ task[r].op \in Operation
           /\ task[r].at \in {"look", "write", "reread", "delete", "commit"}
           /\ task[r].id \in Batch \cup {None} /\ task[r].secret \in Batch
           /\ task[r].code \in Code \cup {None} /\ task[r].codes \subseteq Code
           /\ task[r].found \in BOOLEAN /\ task[r].overlapped \in BOOLEAN
BY DEF TypeOK, Task

-----------------------------------------------------------------------------
(* Steps that leave the row alone.                                         *)

(* One request begins, goes on or ends: v is its task from then on.        *)
LEMMA TaskStepInv ==
    ASSUME IInv, NEW r \in Request, NEW v \in Task \cup {None},
           UNCHANGED <<superuser, row>>, spent' \subseteq Code,
           task' = [task EXCEPT ![r] = v],
           v # None =>
             /\ Kind(v) /\ Read(v) /\ Own(v) /\ Apart(v, v)
             /\ v.found => v.id = Id /\ ~Locked(r)
             /\ \A o \in Request \ {r} : task[o] # None =>
                  /\ Apart(v, task[o]) /\ Apart(task[o], v)
                  /\ Unlike(v, task[o]) /\ Unlike(task[o], v)
    PROVE  IInv'
<1>1. task'[r] = v /\ \A o \in Request \ {r} : task'[o] = task[o]
  BY DEF IInv, TypeOK
<1>2. TypeOK'
  BY DEF IInv, TypeOK
<1>3. UNCHANGED row /\ UNCHANGED Id /\ UNCHANGED Verified
  BY DEF Id, Verified
<1>4. \A o \in Request : task[o] # None =>
        Kind(task[o]) /\ Read(task[o]) /\ Writes(o) /\ Own(task[o])
  BY DEF IInv, TasksInv
<1>5. ASSUME NEW o \in Request, task'[o] # None
      PROVE  Kind(task'[o]) /\ Read(task[o])' /\ Own(task[o])'
  <2>1. Kind(task'[o]) /\ Read(task'[o]) /\ Own(task'[o])
    BY <1>1, <1>4, <1>5
  <2> QED
    BY <1>3, <2>1 DEF Read, Own
<1>6. ASSUME NEW o \in Request, task'[o] # None, task'[o].found
      PROVE  task'[o].id = Id' /\ ~Locked(o)'
  <2>1. CASE o = r
    BY <1>1, <1>3, <1>6, <2>1 DEF Locked, At
  <2>2. CASE o # r
    <3>1. task[o].id = Id /\ ~Locked(o) /\ Kind(task[o]) /\ task[o].found
      BY <1>1, <1>4, <1>6, <2>2 DEF Writes
    <3>2. v # None => ~v.found
      BY <1>1, <1>6, <2>2, <3>1 DEF Locked, At, Kind
    <3> QED
      BY <1>1, <1>3, <2>2, <3>1, <3>2 DEF Locked, At
  <2> QED
    BY <2>1, <2>2
<1>7. TasksInv'
  BY <1>5, <1>6 DEF TasksInv, Writes, Kind
<1>8. ASSUME NEW q \in Request, NEW o \in Request, task'[q] # None, task'[o] # None
      PROVE  Apart(task[q], task[o])' /\ (o # q => Unlike(task'[q], task'[o]))
  <2>1. Apart(task'[q], task'[o]) /\ (o # q => Unlike(task'[q], task'[o]))
    BY <1>1, <1>8 DEF IInv, PairsInv
  <2> QED
    BY <1>3, <2>1 DEF Apart
<1> QED
  BY <1>2, <1>7, <1>8 DEF IInv, PairsInv, Unlike

(* The row a request begins with: an enrolment has yet to look for one.    *)
ReadId(op) == IF op = "enable" THEN None ELSE Id

(* What is left of the invariant for a request that begins: nothing is     *)
(* found, missed or overlapped yet.                                        *)
LEMMA BeginInv ==
    ASSUME IInv, NEW r \in Request, NEW op \in Operation, NEW s \in Batch,
           NEW c \in Code \cup {None}, NEW cs \in SUBSET Code,
           Begin(r, op, ReadId(op), s, c, cs), c \notin cs,
           op \in {"enable", "regenerate", "wipe"} => c = None,
           op # "enable" => row # None /\ row.secret = s,
           op = "enable" => ~Verified,
           row # None /\ Hand(c, cs) \cap BatchesOf(row.codes) # {} => ReadId(op) # None,
           row # None /\ ReadId(op) = None => s # row.id,
           \A o \in Request : task[o] # None =>
             /\ Carrier(task[o]) /\ Hand(c, cs) \cap Held(task[o]) # {} =>
                  Target(task[o]) = (IF ReadId(op) = None THEN s ELSE ReadId(op))
             /\ Astray(task[o]) => BatchesOf({task[o].code}) \cap Hand(c, cs) = {}
             /\ ReadId(op) = None => Target(task[o]) # s /\ task[o].secret # s
    PROVE  IInv'
<1> DEFINE H == Hand(c, cs)
<1> DEFINE id == ReadId(op)
<1> DEFINE v == [at |-> IF op = "enable" THEN "look" ELSE "write", op |-> op, id |-> id, secret |-> s, code |-> c,
                 codes |-> cs, found |-> FALSE, overlapped |-> FALSE]
<1>1. /\ UNCHANGED <<superuser, row, spent>> /\ task' = [task EXCEPT ![r] = v]
      /\ task[r] = None
  BY DEF Begin
<1>2. /\ v.at = (IF op = "enable" THEN "look" ELSE "write") /\ v.op = op /\ v.id = id /\ v.secret = s /\ v.code = c
      /\ v.codes = cs /\ v.found = FALSE /\ v.overlapped = FALSE
  OBVIOUS
<1>3. v \in Task /\ v # None
  <2>1. v \in Task
    BY IdFacts DEF Task, ReadId, IInv
  <2> QED
    BY <2>1, NoneIsNoTask
<1>9. Held(v) = H
  BY <1>2 DEF Held
<1>11. id = IF op = "enable" THEN None ELSE Id
  BY DEF ReadId
<1> HIDE DEF v, H, id
<1>4. ~Astray(v) /\ Carrier(v) /\ Held(v) = H /\ Target(v) = (IF id = None THEN s ELSE id)
  BY <1>2, <1>9 DEF Astray, Carrier, Target
<1>5. row # None => Id = row.id /\ row.id # None
  BY RowFacts, NoneIsApart DEF IInv
<1>6. row = None => Id = None
  BY DEF Id
<1>7. Kind(v) /\ Read(v) /\ Own(v) /\ Apart(v, v)
  BY <1>2, <1>4, <1>5, <1>6, <1>11 DEF Kind, Read, Own, Apart, H, id
<1>8. ASSUME NEW o \in Request, task[o] # None
      PROVE  /\ Apart(v, task[o]) /\ Apart(task[o], v)
             /\ Unlike(v, task[o]) /\ Unlike(task[o], v)
  <2>1. Own(task[o])
    BY <1>8 DEF IInv, TasksInv
  <2>2. Apart(v, task[o])
    BY <1>4, <1>8 DEF Apart, H, id
  <2>3. Apart(task[o], v)
    BY <1>4, <1>8 DEF Apart, H, id
  <2>4. Unlike(v, task[o])
    BY <1>2, <1>8 DEF Unlike, id
  <2>5. Unlike(task[o], v)
    BY <1>2, <1>4, <1>5, <1>6, <1>8, <1>11, <2>1 DEF Unlike, Own, Target, id
  <2> QED
    BY <2>2, <2>3, <2>4, <2>5
<1>10. spent' \subseteq Code
  BY <1>1 DEF IInv, TypeOK
<1> QED
  BY <1>1, <1>2, <1>3, <1>7, <1>8, <1>10, TaskStepInv

(* A request that presents a code of the row, or that resets it.           *)
LEMMA PresentInv ==
    ASSUME IInv, NEW r \in Request, NEW op \in Operation \ {"enable"},
           NEW c \in Code \cup {None}, row # None, NEW cs \in SUBSET row.codes,
           c = None \/ c \in row.codes, c \notin cs,
           op \in {"regenerate", "wipe"} => c = None,
           Begin(r, op, row.id, row.secret, c, cs)
    PROVE  IInv'
<1>1. Hand(c, cs) \subseteq BatchesOf(row.codes)
  BY BatchFacts DEF Hand
<1>2. /\ row.id = Id /\ row.id # None /\ row.secret \in Batch /\ cs \in SUBSET Code
  BY RowFacts, NoneIsApart DEF IInv
<1>3. ASSUME NEW o \in Request, task[o] # None
      PROVE  /\ Carrier(task[o]) /\ Hand(c, cs) \cap Held(task[o]) # {} => Target(task[o]) = row.id
             /\ Astray(task[o]) => BatchesOf({task[o].code}) \cap Hand(c, cs) = {}
  <2>1. Own(task[o])
    BY <1>3 DEF IInv, TasksInv
  <2> QED
    BY <1>1, <2>1 DEF Own
<1>4. \A o \in Request : task[o] # None =>
        /\ Carrier(task[o]) /\ Hand(c, cs) \cap Held(task[o]) # {} =>
             Target(task[o]) = (IF Id = None THEN row.secret ELSE Id)
        /\ Astray(task[o]) => BatchesOf({task[o].code}) \cap Hand(c, cs) = {}
        /\ Id = None => Target(task[o]) # row.secret /\ task[o].secret # row.secret
  BY <1>2, <1>3
<1>5. /\ op \in Operation /\ op # "enable" /\ row.secret \in Batch /\ cs \in SUBSET Code
      /\ op \in {"enable", "regenerate", "wipe"} => c = None
      /\ Id # None /\ Begin(r, op, Id, row.secret, c, cs)
  BY <1>2
<1>6. ReadId(op) = Id
  BY DEF ReadId
<1>7. /\ op # "enable" => row # None /\ row.secret = row.secret
      /\ op = "enable" => ~Verified
      /\ Begin(r, op, ReadId(op), row.secret, c, cs) /\ ReadId(op) # None
  BY <1>5, <1>6
<1>8. \A o \in Request : task[o] # None =>
        /\ Carrier(task[o]) /\ Hand(c, cs) \cap Held(task[o]) # {} =>
             Target(task[o]) = (IF ReadId(op) = None THEN row.secret ELSE ReadId(op))
        /\ Astray(task[o]) => BatchesOf({task[o].code}) \cap Hand(c, cs) = {}
        /\ ReadId(op) = None =>
             Target(task[o]) # row.secret /\ task[o].secret # row.secret
  BY <1>4, <1>6
<1> QED
  BY <1>5, <1>7, <1>8, BeginInv

(* A request that draws a batch, which nobody knows.                       *)
LEMMA DrawInv ==
    ASSUME IInv, NEW r \in Request, NEW b \in Batch, Fresh(b),
           NEW op \in {"enable", "regenerate"}, NEW s \in Batch, NEW cs \in SUBSET BatchOf(b),
           Begin(r, op, ReadId(op), s, None, cs),
           op = "regenerate" => row # None /\ s = row.secret,
           op = "enable" => s = b /\ ~Verified
    PROVE  IInv'
<1>1. Hand(None, cs) \subseteq {b} /\ cs \in SUBSET Code /\ None \notin cs
  BY BatchFacts, NoneIsApart DEF Code, BatchOf, Hand
<1>2. row # None => /\ b # row.id /\ b \notin BatchesOf(row.codes)
                    /\ Id = row.id /\ Id # None
  BY BatchFacts, RowFacts, NoneIsApart DEF Fresh, IInv
<1>3. ASSUME NEW o \in Request, task[o] # None
      PROVE  /\ b \notin Held(task[o]) /\ b \notin BatchesOf({task[o].code})
             /\ Target(task[o]) # b /\ task[o].secret # b
  <2>1. /\ b \notin {task[o].id, task[o].secret}
        /\ ({task[o].code} \cup task[o].codes) \cap BatchOf(b) = {}
    BY <1>3 DEF Fresh
  <2>2. {task[o].code} \cap BatchOf(b) = {} /\ task[o].codes \cap BatchOf(b) = {}
    BY <2>1
  <2> QED
    BY <2>1, <2>2, BatchFacts DEF Held, Hand, Target
<1>4. row = None => Id = None
  BY DEF Id
<1>5. op \in Operation
  BY DEF Operation
<1>6. \A o \in Request : task[o] # None =>
        /\ Carrier(task[o]) /\ Hand(None, cs) \cap Held(task[o]) # {} =>
             Target(task[o]) = (IF ReadId(op) = None THEN s ELSE ReadId(op))
        /\ Astray(task[o]) => BatchesOf({task[o].code}) \cap Hand(None, cs) = {}
        /\ ReadId(op) = None => Target(task[o]) # s /\ task[o].secret # s
  BY <1>1, <1>2, <1>3, <1>4 DEF ReadId
<1>7. /\ row # None /\ Hand(None, cs) \cap BatchesOf(row.codes) # {} => ReadId(op) # None
      /\ row # None /\ ReadId(op) = None => s # row.id
      /\ op # "enable" => row # None /\ row.secret = s
  <2>1. row # None => Hand(None, cs) \cap BatchesOf(row.codes) = {}
    BY <1>1, <1>2
  <2>2. row # None /\ ReadId(op) = None => s # row.id
    BY <1>2 DEF ReadId
  <2>3. op # "enable" => row # None /\ row.secret = s
    OBVIOUS
  <2> QED
    BY <2>1, <2>2, <2>3
<1>8. /\ None \in Code \cup {None} /\ cs \in SUBSET Code /\ None \notin cs
      /\ op = "enable" => ~Verified
  BY <1>1
<1> QED
  BY <1>5, <1>6, <1>7, <1>8, BeginInv

LEMMA ReceiveInv == ASSUME IInv, NEW r \in Request, Receive(r) PROVE IInv'
<1>1. ASSUME NEW op \in {"confirm", "disable", "recover"},
             NEW c \in Code, PresentCode(r, op, c)
      PROVE  IInv'
  <2>1. row # None /\ c \in row.codes /\ Begin(r, op, row.id, row.secret, c, Remaining(c))
    BY <1>1 DEF PresentCode
  <2>2. Remaining(c) \in SUBSET row.codes /\ c \notin Remaining(c)
    BY DEF Remaining
  <2>3. op \in Operation \ {"enable"} /\ op \notin {"regenerate", "wipe"}
    BY DEF Operation
  <2> QED
    BY <2>1, <2>2, <2>3, PresentInv
<1>2. ASSUME NEW op \in {"confirm", "disable", "wipe"}, row # None,
             Begin(r, op, row.id, row.secret, None, {})
      PROVE  IInv'
  <2>1. op \in Operation \ {"enable"} /\ {} \in SUBSET row.codes
    BY DEF Operation
  <2> QED
    BY <1>2, <2>1, PresentInv
<1>3. CASE Enable(r)
  <2>1. PICK b \in Batch :
          Fresh(b) /\ Begin(r, "enable", None, b, None, IF superuser THEN BatchOf(b) ELSE {})
    BY <1>3 DEF Enable
  <2>2. (IF superuser THEN BatchOf(b) ELSE {}) \in SUBSET BatchOf(b)
    OBVIOUS
  <2>3. ReadId("enable") = None
    BY DEF ReadId
  <2> QED
    BY <1>3, <2>1, <2>2, <2>3, DrawInv DEF Enable
<1>4. CASE Regenerate(r)
  <2>1. PICK b \in Batch :
          Fresh(b) /\ Begin(r, "regenerate", row.id, row.secret, None, BatchOf(b))
    BY <1>4 DEF Regenerate
  <2>2. row # None /\ row.id = Id /\ row.secret \in Batch
    BY <1>4, RowFacts DEF Regenerate, IInv
  <2>3. ReadId("regenerate") = Id
    BY DEF ReadId
  <2> QED
    BY <2>1, <2>2, <2>3, DrawInv
<1> QED
  BY <1>1, <1>2, <1>3, <1>4
  DEF Receive, Confirm, Disable, Recover, Wipe, PresentTotp

LEMMA MovedFacts ==
    ASSUME IInv, NEW r \in Request, task[r] # None,
           NEW place \in {"write", "reread", "delete", "commit"},
           NEW id \in Batch \cup {None}, NEW found \in BOOLEAN,
           id = None => task[r].op = "enable",
           place \in {"reread", "delete"} => task[r].op = "recover",
           found => place = "commit",
           place # "write" /\ ~found => task[r].op # "enable",
           NEW v, v = Moved(r, place, id, found)
    PROVE  /\ v \in Task /\ v # None
           /\ v.at = place /\ v.op = task[r].op /\ v.id = id /\ v.found = found
           /\ v.secret = task[r].secret /\ v.code = task[r].code
           /\ Held(v) = Held(task[r]) /\ Kind(v) /\ Read(v)
<1>1. Kind(task[r]) /\ Read(task[r])
  BY DEF IInv, TasksInv
<1>2. v \in Task
  BY TaskFacts DEF Moved, Task, IInv
<1> QED
  BY <1>1, <1>2, NoneIsNoTask DEF Moved, Kind, Read, Held, Astray

(* An enrolment looks for the row.  Nobody has its codes, and nobody is to *)
(* insert a row with its secret, so it may go for the row that is there.   *)
LEMMA LookInv == ASSUME IInv, NEW r \in Request, Look(r) PROVE IInv'
<1> DEFINE t == task[r]
<1> DEFINE v == Moved(r, "write", Id, FALSE)
<1>1. /\ t # None /\ t.at = "look" /\ task' = [task EXCEPT ![r] = v]
      /\ UNCHANGED <<superuser, row>> /\ spent' \subseteq Code
  BY DEF Look, At, Goto, IInv, TypeOK
<1>2. /\ Kind(t) /\ Own(t)
      /\ \A o \in Request \ {r} : task[o] # None =>
           /\ Apart(t, task[o]) /\ Apart(task[o], t) /\ Own(task[o])
           /\ Unlike(t, task[o]) /\ Unlike(task[o], t)
  BY <1>1 DEF IInv, TasksInv, PairsInv
<1>3. t.op = "enable" /\ t.id = None /\ Target(t) = t.secret
  BY <1>1, <1>2 DEF Kind, Target
<1>4. /\ v \in Task /\ v # None /\ v.at = "write" /\ v.op = "enable" /\ v.id = Id
      /\ ~v.found /\ v.secret = t.secret /\ Held(v) = Held(t) /\ Kind(v) /\ Read(v)
  <2>1. Id \in Batch \cup {None}
    BY IdFacts DEF IInv
  <2>2. PICK found \in BOOLEAN, id \in Batch \cup {None} :
          ~found /\ id = Id /\ v = Moved(r, "write", id, found)
    BY <2>1
  <2>3. id = None => task[r].op = "enable"
    BY <1>3
  <2> HIDE DEF v
  <2>4. /\ v \in Task /\ v # None /\ v.at = "write" /\ v.op = task[r].op /\ v.id = id
        /\ v.found = found /\ v.secret = task[r].secret
        /\ Held(v) = Held(task[r]) /\ Kind(v) /\ Read(v)
    BY <1>1, <2>2, <2>3, MovedFacts
  <2> QED
    BY <1>3, <2>2, <2>4
<1> HIDE DEF v
<1>5. /\ ~Astray(v) /\ ~Astray(t) /\ Carrier(v) /\ Carrier(t)
      /\ Target(v) = IF Id = None THEN t.secret ELSE Id
  BY <1>1, <1>3, <1>4 DEF Astray, Carrier, Target
<1>6. row # None => Id = row.id /\ Id # None
  BY RowFacts, NoneIsApart DEF IInv
<1>7. Own(v) /\ Apart(v, v)
  BY <1>4, <1>5, <1>6 DEF Own, Apart, Id
<1>8. ASSUME NEW o \in Request \ {r}, task[o] # None
      PROVE  /\ Apart(v, task[o]) /\ Apart(task[o], v)
             /\ Unlike(v, task[o]) /\ Unlike(task[o], v)
  <2>1. Target(task[o]) # t.secret /\ Own(task[o])
    BY <1>2, <1>3, <1>8 DEF Unlike
  <2>2. Carrier(task[o]) => Held(t) \cap Held(task[o]) = {}
    BY <1>2, <1>3, <1>5, <1>8, <2>1 DEF Apart
  <2>3. Astray(task[o]) => BatchesOf({task[o].code}) \cap Held(t) = {}
    BY <1>2, <1>3, <1>5, <1>8 DEF Apart
  <2>4. Apart(v, task[o])
    BY <1>4, <1>5, <2>2 DEF Apart
  <2>5. Apart(task[o], v)
    BY <1>4, <2>2, <2>3 DEF Apart
  <2>6. Unlike(v, task[o])
    BY <1>4, <2>1 DEF Unlike
  <2>7. Unlike(task[o], v)
    <3>1. CASE row = None
      BY <1>2, <1>3, <1>5, <1>8, <3>1 DEF Unlike, Id
    <3>2. CASE row # None
      BY <1>5, <1>6, <1>8, <2>1, <3>2 DEF Unlike, Own
    <3> QED
      BY <3>1, <3>2
  <2> QED
    BY <2>4, <2>5, <2>6, <2>7
<1> HIDE DEF t
<1> QED
  BY <1>1, <1>4, <1>7, <1>8, TaskStepInv

(* The first writing statement finds the row read, or misses it.           *)
LEMMA WriteInv == ASSUME IInv, NEW r \in Request, Write(r) PROVE IInv'
<1> DEFINE t == task[r]
<1>1. /\ t # None /\ t.at = "write" /\ ~Locked(r)
      /\ UNCHANGED <<superuser, row>> /\ spent' \subseteq Code
  BY DEF Write, At, IInv, TypeOK
<1>2. /\ Kind(t) /\ Read(t) /\ Own(t) /\ Apart(t, t) /\ Carrier(t)
      /\ \A o \in Request \ {r} : task[o] # None =>
           /\ Apart(t, task[o]) /\ Apart(task[o], t)
           /\ Unlike(t, task[o]) /\ Unlike(task[o], t)
  BY <1>1 DEF IInv, TasksInv, PairsInv, Carrier
<1>3. t.id \in Batch \cup {None}
  BY <1>1, TaskFacts DEF IInv
<1>4. CASE Current(r)
  <2>1. PICK place \in {"commit"}, found \in BOOLEAN :
          found /\ task' = [task EXCEPT ![r] = Moved(r, place, t.id, found)]
    BY <1>4 DEF Write, Goto
  <2> DEFINE v == Moved(r, place, t.id, found)
  <2>2. /\ v \in Task /\ v # None /\ v.at = "commit" /\ v.op = t.op /\ v.id = t.id
        /\ v.found = found /\ v.secret = t.secret /\ Held(v) = Held(t) /\ Kind(v) /\ Read(v)
    <3>1. t.id = None => t.op = "enable"
      BY <1>2 DEF Kind
    <3>2. /\ place \in {"reread", "delete", "commit"}
          /\ place \in {"reread", "delete"} => t.op = "recover"
          /\ found => place = "commit"
          /\ ~found => t.op # "enable"
      BY <2>1
    <3>3. t # None /\ t.id \in Batch \cup {None}
      BY <1>1, <1>3
    <3>4. /\ v \in Task /\ v # None /\ v.at = place /\ v.op = t.op /\ v.id = t.id
          /\ v.found = found /\ v.secret = t.secret /\ Held(v) = Held(t)
          /\ Kind(v) /\ Read(v)
      BY <3>1, <3>2, <3>3, MovedFacts
    <3> QED
      BY <3>4
  <2> HIDE DEF v
  <2>3. Target(v) = Target(t) /\ ~Astray(v)
    BY <2>1, <2>2 DEF Target, Astray
  <2>4. /\ Own(v) /\ Apart(v, v)
        /\ \A o \in Request \ {r} : task[o] # None =>
             /\ Apart(v, task[o]) /\ Apart(task[o], v)
             /\ Unlike(v, task[o]) /\ Unlike(task[o], v)
    BY <1>2, <2>2, <2>3 DEF Own, Apart, Unlike
  <2>5. v.id = Id
    BY <1>4, <2>2 DEF Current
  <2> HIDE DEF t
  <2> QED
    BY <1>1, <2>1, <2>2, <2>4, <2>5, TaskStepInv DEF v
<1>5. CASE ~Current(r) /\ t.op = "enable"
  <2>1. task' = [task EXCEPT ![r] = None]
    BY <1>5 DEF Write, End
  <2> QED
    BY <1>1, <2>1, TaskStepInv
<1>6. CASE ~Current(r) /\ t.op # "enable"
  <2>1. PICK place \in {"reread", "commit"}, found \in BOOLEAN :
          /\ task' = [task EXCEPT ![r] = Moved(r, place, t.id, found)]
          /\ ~found
          /\ place = "reread" => t.op = "recover"
    BY <1>6 DEF Write, Goto
  <2> DEFINE v == Moved(r, place, t.id, found)
  <2>2. /\ v \in Task /\ v # None /\ v.at = place /\ v.op = t.op /\ v.id = t.id
        /\ ~v.found /\ v.secret = t.secret /\ v.code = t.code
        /\ Held(v) = Held(t) /\ Kind(v) /\ Read(v)
    <3>1. t.id = None => t.op = "enable"
      BY <1>2 DEF Kind
    <3> QED
      BY <1>1, <1>3, <1>6, <2>1, <3>1, MovedFacts
  <2>3. t.id # None /\ t.id # Id
    BY <1>2, <1>6 DEF Current, Kind
  <2>4. Target(v) = t.id /\ Target(t) = t.id
    BY <2>2, <2>3 DEF Target
  <2>5. BatchesOf({t.code}) \subseteq Held(t)
    BY DEF Held, Hand
  <2> HIDE DEF v
  <2>6. row # None => Id = row.id
    BY DEF Id
  <2>7. Own(v)
    BY <1>2, <2>2, <2>3, <2>4, <2>5, <2>6 DEF Own
  <2>8. Apart(v, v)
    BY <2>2, <2>3 DEF Apart
  <2>9. ASSUME NEW o \in Request \ {r}, task[o] # None
        PROVE  /\ Apart(v, task[o]) /\ Apart(task[o], v)
               /\ Unlike(v, task[o]) /\ Unlike(task[o], v)
    <3>1. /\ Apart(t, task[o]) /\ Apart(task[o], t)
          /\ Unlike(t, task[o]) /\ Unlike(task[o], t)
      BY <1>2, <2>9
    <3>2. Carrier(task[o]) /\ Held(t) \cap Held(task[o]) # {} =>
            task[o].id # None /\ task[o].id = t.id
      BY <1>2, <2>4, <3>1 DEF Apart, Unlike, Target
    <3>3. Apart(v, task[o])
      BY <1>2, <2>2, <2>3, <2>4, <2>5, <3>1, <3>2 DEF Apart
    <3>4. Apart(task[o], v)
      BY <1>2, <2>2, <2>4, <3>1 DEF Apart
    <3> QED
      BY <2>2, <2>4, <3>1, <3>3, <3>4 DEF Unlike
  <2> QED
    BY <1>1, <2>1, <2>2, <2>7, <2>8, <2>9, TaskStepInv DEF v
<1> QED
  BY <1>4, <1>5, <1>6

(* A recovery that has missed its row looks for another, and deletes it.   *)
LEMMA AgainInv ==
    ASSUME IInv, NEW r \in Request, Reread(r) \/ Delete(r) PROVE IInv'
<1> DEFINE t == task[r]
<1>1. /\ t # None /\ t.at \in {"reread", "delete"}
      /\ UNCHANGED <<superuser, row>> /\ spent' \subseteq Code
  BY DEF Reread, Delete, At, IInv, TypeOK
<1>2. /\ Kind(t) /\ Own(t)
      /\ \A o \in Request : task[o] # None => Apart(t, task[o])
      /\ \A o \in Request \ {r} : task[o] # None => Unlike(task[o], t) /\ Own(task[o])
  BY <1>1 DEF IInv, TasksInv, PairsInv
<1>3. t.op = "recover" /\ Astray(t) /\ t.id # None /\ t.id \in Batch
  BY <1>1, <1>2, TaskFacts DEF Kind, Astray, IInv
<1>4. PICK place \in {"delete", "commit"}, id \in Batch, found \in BOOLEAN :
        /\ task' = [task EXCEPT ![r] = Moved(r, place, id, found)]
        /\ id = t.id \/ (row # None /\ id = row.id)
        /\ found => place = "commit" /\ id = Id /\ ~Locked(r)
  <2>1. CASE Reread(r)
    <3>1. row # None => row.id \in Batch
      BY RowFacts DEF IInv
    <3> QED
      BY <1>3, <2>1, <3>1 DEF Reread, Goto
  <2>2. CASE Delete(r)
    <3>1. task' = [task EXCEPT ![r] = Moved(r, "commit", t.id, Current(r))]
          /\ ~Locked(r) /\ Current(r) \in BOOLEAN
      BY <2>2 DEF Delete, Goto, Current
    <3>2. Current(r) => t.id = Id
      BY DEF Current
    <3> QED
      BY <1>3, <3>1, <3>2
  <2> QED
    BY <2>1, <2>2
<1> DEFINE v == Moved(r, place, id, found)
<1>5. id # None
  BY NoneIsApart
<1>6. /\ v \in Task /\ v # None /\ v.at = place /\ v.op = "recover" /\ v.id = id
      /\ v.found = found /\ v.code = t.code /\ Kind(v) /\ Read(v)
  BY <1>1, <1>3, <1>4, <1>5, MovedFacts
<1>7. ~Carrier(v) /\ (Astray(v) => Astray(t)) /\ Target(v) = id
  BY <1>3, <1>5, <1>6 DEF Carrier, Astray, Target
<1> HIDE DEF v
<1>8. Own(v) /\ Apart(v, v)
  BY <1>2, <1>5, <1>6, <1>7 DEF Own, Apart
<1>9. ASSUME NEW o \in Request \ {r}, task[o] # None
      PROVE  /\ Apart(v, task[o]) /\ Apart(task[o], v)
             /\ Unlike(v, task[o]) /\ Unlike(task[o], v)
  <2>1. Apart(t, task[o]) /\ Unlike(task[o], t) /\ Own(task[o])
    BY <1>2, <1>9
  <2>2. Target(t) = t.id
    BY <1>3 DEF Target
  <2> QED
    BY <1>4, <1>5, <1>6, <1>7, <2>1, <2>2 DEF Apart, Unlike, Own
<1> QED
  BY <1>1, <1>4, <1>6, <1>8, <1>9, TaskStepInv DEF v

LEMMA AbortInv == ASSUME IInv, NEW r \in Request, Abort(r) PROVE IInv'
BY TaskStepInv DEF Abort, End, IInv, TypeOK

-----------------------------------------------------------------------------
(* A commit, which is the only step that changes the row.                  *)

(* What a commit does to the row: nothing, or it removes the row, or the   *)
(* row has the id and the codes of the request from then on.               *)
LEMMA RowAfter ==
    ASSUME IInv, NEW r \in Request, At(r, {"commit"})
    PROVE  \/ After(task[r]) = row
           \/ /\ task[r].found /\ After(task[r]) = None
              /\ task[r].op \in {"disable", "recover", "wipe"}
           \/ /\ task[r].found /\ After(task[r]) \in Secret
              /\ After(task[r]).id = Target(task[r])
              /\ task[r].op # "recover"
              /\ \/ After(task[r]).codes = task[r].codes
                 \/ row # None /\ After(task[r]).codes = row.codes
              /\ task[r].id # None => row # None
<1> DEFINE t == task[r]
<1>1. /\ t # None /\ t.secret \in Batch /\ t.codes \subseteq Code
      /\ t.id \in Batch \cup {None}
  BY TaskFacts DEF At, IInv
<1>2. Kind(t) /\ Writes(r)
  BY <1>1 DEF IInv, TasksInv
<1> SUFFICES ASSUME t.found, t.op \notin {"disable", "recover", "wipe"}
             PROVE  /\ Written(t) \in Secret
                    /\ Written(t).id = Target(t)
                    /\ \/ Written(t).codes = t.codes
                       \/ row # None /\ Written(t).codes = row.codes
                    /\ t.id # None => row # None
  BY DEF After
<1>3. t.id = Id
  BY <1>2 DEF Writes
<1>4. t.id # None => row # None /\ row.id = t.id
  BY <1>3 DEF Id
<1>5. CASE t.op = "enable"
  BY <1>1, <1>4, <1>5, NoneIsApart DEF Written, Secret, Target
<1>6. CASE t.op # "enable"
  <2>1. t.id # None
    BY <1>2, <1>6 DEF Kind
  <2>2. /\ row.id \in Batch /\ row.secret \in Batch
        /\ row.verified \in BOOLEAN /\ row.codes \subseteq Code
    BY <1>4, <2>1, RowFacts DEF IInv
  <2>3. Written(t) = [id |-> row.id, secret |-> row.secret,
                      verified |-> row.verified \/ t.op = "confirm",
                      codes |-> IF t.code = None /\ t.op = "confirm"
                                THEN row.codes ELSE t.codes]
    BY <1>6 DEF Written
  <2> QED
    BY <1>1, <1>4, <2>1, <2>2, <2>3 DEF Secret, Target
<1> QED
  BY <1>5, <1>6

(* A request that another one overlaps keeps what it has in hand.          *)
LEMMA OverlapFacts ==
    ASSUME IInv, NEW o \in Request, task[o] # None,
           NEW w, w = Overlap(task[o])
    PROVE  /\ w \in Task /\ w # None /\ w.id = task[o].id /\ w.overlapped = TRUE
           /\ w.found = task[o].found /\ w.at = task[o].at
           /\ Kind(w) /\ Held(w) = Held(task[o]) /\ Target(w) = Target(task[o])
           /\ w.secret = task[o].secret /\ w.code = task[o].code
           /\ Carrier(w) = Carrier(task[o]) /\ Astray(w) = Astray(task[o])
<1>1. Kind(task[o])
  BY DEF IInv, TasksInv
<1>2. w \in Task
  BY TaskFacts DEF Overlap, Task, IInv
<1> QED
  BY <1>1, <1>2, NoneIsNoTask DEF Overlap, Kind, Held, Target, Carrier, Astray

(* What the others may still rely on when the row has changed.             *)
LEMMA ChangeKeeps ==
    ASSUME IInv, NEW r \in Request, Commit(r), After(task[r]) # row,
           NEW o \in Request, o # r, task[o] # None
    PROVE  /\ Own(task[o])'
           /\ Read(task[o])' /\ Kind(task'[o]) /\ Writes(o)'
           /\ \A p \in Request \ {r} : task[p] # None =>
                Apart(task[p], task[o])' /\ (p # o => Unlike(task'[p], task'[o]))
<1> DEFINE t == task[r]
<1>1. /\ At(r, {"commit"}) /\ t # None /\ t.at = "commit" /\ row' = After(t)
      /\ task' = [q \in Request |->
                    IF q = r THEN None
                    ELSE IF task[q] = None \/ After(t) = row THEN task[q]
                    ELSE Overlap(task[q])]
  BY DEF Commit, At
<1>2. t.found
  BY <1>1, RowAfter
<1>3. Kind(t) /\ Writes(r)
  BY <1>1 DEF IInv, TasksInv
<1>4. t.id = Id
  BY <1>2, <1>3 DEF Writes
<1>5. ASSUME NEW q \in Request \ {r}, task[q] # None
      PROVE  /\ task'[q] = Overlap(task[q]) /\ Own(task[q])
             /\ Apart(task[q], t) /\ Apart(t, task[q])
             /\ Unlike(task[q], t) /\ Unlike(t, task[q])
             /\ ~task[q].found
  <2>1. Writes(q)
    BY <1>5 DEF IInv, TasksInv
  <2>2. ~task[q].found
    BY <1>1, <1>2, <2>1 DEF Writes, Locked, At
  <2> QED
    BY <1>1, <1>5, <2>2 DEF IInv, TasksInv, PairsInv
<1>6. row' # None =>
        /\ row'.id = Target(t) /\ t.op # "recover"
        /\ BatchesOf(row'.codes) \subseteq Held(t)
             \/ (row # None /\ row'.codes = row.codes)
        /\ t.id # None => row # None
  <2>1. BatchesOf(t.codes) \subseteq Held(t)
    BY DEF Held, Hand
  <2> QED
    BY <1>1, <2>1, RowAfter
<1>7. row' # None => Carrier(t) /\ Id' = row'.id
  BY <1>6 DEF Carrier, Id
<1>8. row # None => Id = row.id /\ Id # None
  BY RowFacts, NoneIsApart DEF IInv
<1> DEFINE w == task'[o]
<1>9. /\ w # None /\ w.id = task[o].id /\ w.overlapped = TRUE /\ ~w.found
      /\ Kind(w) /\ Held(w) = Held(task[o]) /\ Target(w) = Target(task[o])
      /\ w.secret = task[o].secret /\ w.code = task[o].code
      /\ Carrier(w) = Carrier(task[o]) /\ Astray(w) = Astray(task[o])
  <2>1. w = Overlap(task[o]) /\ ~task[o].found
    BY <1>5
  <2> HIDE DEF w
  <2>2. w.found = task[o].found
    BY <2>1, OverlapFacts
  <2>3. ~w.found
    BY <2>1, <2>2
  <2> QED
    BY <2>1, <2>3, OverlapFacts
<1>10. task[o].id = None /\ row' # None => task[o].secret # row'.id
  BY <1>5, <1>6 DEF Unlike
<1>11. ASSUME row' # None
       PROVE  /\ Carrier(w) /\ Held(w) \cap BatchesOf(row'.codes) # {} => Target(w) = row'.id
              /\ Astray(w) => BatchesOf({w.code}) \cap BatchesOf(row'.codes) = {}
  <2>1. CASE BatchesOf(row'.codes) \subseteq Held(t)
    <3>1. Carrier(w) /\ Held(w) \cap BatchesOf(row'.codes) # {} => Target(w) = row'.id
      BY <1>5, <1>6, <1>7, <1>9, <1>11, <2>1 DEF Apart
    <3>2. Astray(w) => BatchesOf({w.code}) \cap BatchesOf(row'.codes) = {}
      BY <1>4, <1>5, <1>7, <1>9, <1>11, <2>1 DEF Apart
    <3> QED
      BY <3>1, <3>2
  <2>2. CASE row # None /\ row'.codes = row.codes
    <3>1. Own(task[o])
      BY <1>5
    <3>2. row'.id = row.id
      BY <1>4, <1>6, <1>8, <1>11, <2>2 DEF Target
    <3> QED
      BY <1>9, <2>2, <3>1, <3>2 DEF Own
  <2> QED
    BY <1>6, <1>11, <2>1, <2>2
<1>12. Own(task[o])'
  BY <1>9, <1>10, <1>11 DEF Own
<1>13. Read(task[o])'
  BY <1>9 DEF Read
<1>14. Writes(o)'
  BY <1>9 DEF Writes
<1>15. ASSUME NEW p \in Request \ {r}, task[p] # None
       PROVE  Apart(task[p], task[o])' /\ (p # o => Unlike(task'[p], task'[o]))
  <2> DEFINE z == task'[p]
  <2>1. /\ z # None /\ z.id = task[p].id
        /\ Held(z) = Held(task[p]) /\ Target(z) = Target(task[p])
        /\ z.secret = task[p].secret /\ z.code = task[p].code
        /\ Carrier(z) = Carrier(task[p]) /\ Astray(z) = Astray(task[p])
    BY <1>5, <1>15, OverlapFacts
  <2>2. Apart(task[p], task[o]) /\ (p # o => Unlike(task[p], task[o]))
    BY <1>15 DEF IInv, PairsInv
  <2>3. task[o].id # None /\ task[o].id # Id => task[o].id # Id'
    <3>1. CASE row' = None
      BY <3>1 DEF Id
    <3>2. CASE row' # None
      BY <1>4, <1>5, <1>6, <1>7, <3>2 DEF Unlike, Target
    <3> QED
      BY <3>1, <3>2
  <2> HIDE DEF z, w, t
  <2>4. /\ Carrier(w) =>
             /\ Carrier(z) /\ Held(z) \cap Held(w) # {} => Target(z) = Target(w)
             /\ Astray(z) /\ BatchesOf({z.code}) \cap Held(w) # {} =>
                  w.id # None /\ w.id # Id'
        /\ p # o => Unlike(z, w)
    BY <1>9, <2>1, <2>2, <2>3 DEF Apart, Unlike
  <2> QED
    BY <2>4 DEF Apart, z, w
<1> QED
  BY <1>9, <1>12, <1>13, <1>14, <1>15

LEMMA CommitInv == ASSUME IInv, NEW r \in Request, Commit(r) PROVE IInv'
<1> DEFINE t == task[r]
<1>1. /\ At(r, {"commit"}) /\ t # None /\ row' = After(t) /\ UNCHANGED superuser
      /\ spent' = spent \cup (IF t.code = None THEN {} ELSE {t.code})
      /\ task' = [q \in Request |->
                    IF q = r THEN None
                    ELSE IF task[q] = None \/ After(t) = row THEN task[q]
                    ELSE Overlap(task[q])]
  BY DEF Commit, At
<1>2. t.code \in Code \cup {None}
  BY <1>1, TaskFacts DEF IInv
<1>3. spent' \subseteq Code
  BY <1>1, <1>2 DEF IInv, TypeOK
<1> HIDE DEF t
<1>4. CASE After(t) = row
  <2>1. task' = [task EXCEPT ![r] = None]
    BY <1>1, <1>4 DEF IInv, TypeOK
  <2> QED
    BY <1>1, <1>3, <1>4, <2>1, TaskStepInv
<1>5. CASE After(t) # row
  <2>1. \A o \in Request : task'[o] # None => o # r /\ task[o] # None
    BY <1>1
  <2>2. TypeOK'
    <3>1. row' \in Secret \cup {None}
      BY <1>1, RowAfter DEF IInv, TypeOK, t
    <3>2. \A o \in Request : task'[o] \in Task \cup {None}
      BY <1>1, <1>5, OverlapFacts
    <3> QED
      BY <1>1, <1>3, <3>1, <3>2 DEF IInv, TypeOK
  <2>3. TasksInv'
    BY <1>5, <2>1, ChangeKeeps DEF TasksInv, t, Kind
  <2>4. PairsInv'
    <3>1. ASSUME NEW p \in Request, NEW o \in Request, task'[p] # None, task'[o] # None
          PROVE  Apart(task[p], task[o])' /\ (o # p => Unlike(task'[p], task'[o]))
      BY <1>5, <2>1, <3>1, ChangeKeeps DEF t
    <3> QED
      BY <3>1 DEF PairsInv, Unlike
  <2> QED
    BY <2>2, <2>3, <2>4 DEF IInv
<1> QED
  BY <1>4, <1>5

LEMMA NextInv == IInv /\ [Next]_vars => IInv'
<1> SUFFICES ASSUME IInv, [Next]_vars PROVE IInv'
  OBVIOUS
<1>1. CASE UNCHANGED vars
  <2>1. TypeOK'
    BY <1>1 DEF vars, IInv, TypeOK
  <2>2. UNCHANGED <<row, task>> /\ UNCHANGED Id /\ UNCHANGED Verified
    BY <1>1 DEF vars, Id, Verified
  <2>3. \A r \in Request : UNCHANGED Locked(r)
    BY <2>2 DEF Locked, At
  <2>4. TasksInv'
    BY <2>2, <2>3 DEF IInv, TasksInv, Read, Writes, Own
  <2>5. PairsInv'
    BY <2>2 DEF IInv, PairsInv, Apart
  <2> QED
    BY <2>1, <2>4, <2>5 DEF IInv
<1> QED
  BY <1>1, ReceiveInv, LookInv, WriteInv, AgainInv, CommitInv, AbortInv DEF Next

LEMMA InitInv == Init => IInv
BY DEF Init, IInv, TypeOK, TasksInv, PairsInv

-----------------------------------------------------------------------------
(* The theorems.                                                           *)

LEMMA Invariance == Spec => []IInv
BY InitInv, NextInv, PTL DEF Spec

(* Every variable keeps its type, for any batches, codes and requests.     *)
THEOREM TypeCorrect == Spec => []TypeOK
BY Invariance, PTL DEF IInv

(* A step of Next that is no commit leaves the row and the history alone.  *)
LEMMA OnlyCommits ==
    ASSUME [Next]_vars
    PROVE  \/ UNCHANGED <<row, spent>>
           \/ \E r \in Request : At(r, {"commit"}) /\ Commit(r)
BY DEF Next, Receive, Enable, Confirm, Disable, Recover, Regenerate, Wipe, PresentTotp,
       PresentCode, Begin, Look, Write, Reread, Delete, Abort, Commit, vars

(* A code that is gone does not come back.                                 *)
LEMMA GoneStays ==
    ASSUME IInv, [Next]_vars, NEW c \in Code, Gone(c) PROVE Gone(c)'
<1>1. /\ c \in spent /\ (row # None => c \notin row.codes)
      /\ \A r \in Request : task[r] # None => c \notin {task[r].code} \cup task[r].codes
      /\ c # None
  BY NoneIsApart DEF Gone, Stored, Carried
<1>2. ASSUME NEW r \in Request, NEW op, NEW id, NEW s, NEW d, NEW cs,
             Begin(r, op, id, s, d, cs), c # d, c \notin cs
      PROVE  Gone(c)'
  <2>1. \A o \in Request : task'[o] # None => c \notin {task'[o].code} \cup task'[o].codes
    BY <1>1, <1>2 DEF Begin, IInv, TypeOK
  <2> QED
    BY <1>1, <1>2, <2>1 DEF Begin, Gone, Stored, Carried
<1>3. ASSUME NEW b \in Batch, Fresh(b) PROVE c \notin BatchOf(b)
  BY <1>1, <1>3 DEF Fresh
<1>4. ASSUME NEW r \in Request, Receive(r) PROVE Gone(c)'
  <2>1. ASSUME NEW op, NEW d, PresentCode(r, op, d) PROVE Gone(c)'
    BY <1>1, <1>2, <2>1 DEF PresentCode, Remaining
  <2>2. ASSUME NEW op, PresentTotp(r, op) PROVE Gone(c)'
    BY <1>1, <1>2, <2>2 DEF PresentTotp
  <2>3. CASE Enable(r)
    <3>1. PICK b \in Batch :
            Fresh(b) /\ Begin(r, "enable", None, b, None, IF superuser THEN BatchOf(b) ELSE {})
      BY <2>3 DEF Enable
    <3>2. c \notin (IF superuser THEN BatchOf(b) ELSE {})
      BY <1>3, <3>1
    <3> QED
      BY <1>1, <1>2, <3>1, <3>2
  <2>4. CASE Regenerate(r)
    BY <1>1, <1>2, <1>3, <2>4 DEF Regenerate
  <2>5. CASE Wipe(r)
    BY <1>1, <1>2, <2>5 DEF Wipe
  <2> QED
    BY <1>4, <2>1, <2>2, <2>3, <2>4, <2>5 DEF Receive, Confirm, Disable, Recover
<1>5. ASSUME NEW r \in Request, Look(r) \/ Write(r) \/ Reread(r) \/ Delete(r) \/ Abort(r)
      PROVE  Gone(c)'
  <2>1. task[r] # None /\ UNCHANGED <<row, spent>>
    BY <1>5 DEF Look, Write, Reread, Delete, Abort, At
  <2>2. \/ task' = [task EXCEPT ![r] = None]
        \/ \E place, id, found : task' = [task EXCEPT ![r] = Moved(r, place, id, found)]
    BY <1>5 DEF Look, Write, Reread, Delete, Abort, Goto, End
  <2>3. \A place, id, found : /\ Moved(r, place, id, found).codes = task[r].codes
                              /\ Moved(r, place, id, found).code = task[r].code
    BY DEF Moved
  <2>4. \A o \in Request : task'[o] # None =>
          task[o] # None /\ task'[o].codes = task[o].codes /\ task'[o].code = task[o].code
    BY <2>1, <2>2, <2>3 DEF IInv, TypeOK
  <2> QED
    BY <1>1, <2>1, <2>4 DEF Gone, Stored, Carried
<1>6. ASSUME NEW r \in Request, Commit(r) PROVE Gone(c)'
  <2>1. /\ At(r, {"commit"}) /\ task[r] # None /\ row' = After(task[r])
        /\ spent \subseteq spent'
    BY <1>6 DEF Commit, At
  <2>2. \A o \in Request : task'[o] # None =>
          task[o] # None /\ task'[o].codes = task[o].codes /\ task'[o].code = task[o].code
    BY <1>6 DEF Commit, Overlap
  <2>3. row' # None => c \notin row'.codes
    BY <1>1, <2>1, RowAfter
  <2> QED
    BY <1>1, <2>1, <2>2, <2>3 DEF Gone, Stored, Carried
<1>7. CASE UNCHANGED vars
  BY <1>7 DEF vars, Gone, Stored, Carried
<1> QED
  BY <1>4, <1>5, <1>6, <1>7 DEF Next

(* A code that is accepted goes, wherever its row is by then.              *)
LEMMA AcceptedGoes ==
    ASSUME IInv, NEW r \in Request, Commit(r), NEW c \in Code, c \in spent' \ spent
    PROVE  Gone(c)' \/ Carried(c)'
<1> DEFINE t == task[r]
<1>1. /\ At(r, {"commit"}) /\ t # None /\ t.at = "commit" /\ row' = After(t)
      /\ t.code = c
  BY DEF Commit, At
<1>2. Kind(t) /\ Own(t)
  BY <1>1 DEF IInv, TasksInv
<1>3. c \notin t.codes /\ t.op \notin {"enable", "regenerate", "wipe"}
  BY <1>1, <1>2, NoneIsApart DEF Kind
<1>4. row' # None => c \notin row'.codes
  <2>1. CASE ~t.found
    <3>1. row' = row
      BY <1>1, <2>1 DEF After
    <3>2. row # None => BatchesOf({c}) \cap BatchesOf(row.codes) = {}
      BY <1>1, <1>2, <2>1 DEF Own, Astray
    <3>3. row # None /\ c \in row.codes => BatchesOf({c}) \subseteq BatchesOf(row.codes)
      BY BatchFacts
    <3> QED
      BY <3>1, <3>2, <3>3, BatchFacts
  <2>2. CASE t.found
    <3>1. t.op = "confirm" \/ row' = None
      BY <1>1, <1>3, <2>2, TaskFacts DEF After, Operation, IInv
    <3>2. t.op = "confirm" => row'.codes = t.codes
      BY <1>1, <2>2, NoneIsApart DEF After, Written
    <3> QED
      BY <1>3, <3>1, <3>2
  <2> QED
    BY <2>1, <2>2
<1> QED
  BY <1>4 DEF Gone, Stored

(* A backup code that has been accepted, and that nobody presents or       *)
(* carries any more, is gone for good, however many requests read,         *)
(* shorten, write, replace and miss the list it was in.                    *)
THEOREM UsedCodesStayGone == Spec => GoneCodesStayGone
<1>1. IInv /\ [Next]_vars =>
        \A c \in Code : /\ Gone(c) => Gone(c)'
                        /\ c \in spent' \ spent => Gone(c)' \/ Carried(c)'
  BY GoneStays, AcceptedGoes, OnlyCommits
<1> QED
  BY <1>1, Invariance, PTL DEF Spec, GoneCodesStayGone

(* What a commit does to whether the row is verified.                      *)
LEMMA CommitFacts ==
    ASSUME IInv, NEW r \in Request, At(r, {"commit"}), Commit(r), row' # row
    PROVE  \/ row' = None /\ task[r].op \in {"disable", "recover", "wipe"}
           \/ /\ row' # None /\ task[r].op = "enable" /\ ~row'.verified
           \/ /\ row' # None /\ row # None /\ row'.secret = row.secret
              /\ row'.verified <=> row.verified \/ task[r].op = "confirm"
<1> DEFINE t == task[r]
<1>1. t # None /\ row' = After(t) /\ t.found
  BY DEF Commit, At, After
<1>2. t.id = Id /\ Kind(t)
  BY <1>1 DEF IInv, TasksInv, Writes
<1>3. CASE t.op \in {"disable", "recover", "wipe"}
  BY <1>1, <1>3 DEF After
<1>6. t.op \notin {"disable", "recover", "wipe"} => row' # None /\ row' = Written(t)
  BY <1>1, RowAfter, NoneIsNoSecret DEF After
<1>4. CASE t.op = "enable"
  BY <1>4, <1>6 DEF Written
<1>5. CASE t.op \in {"confirm", "regenerate"}
  <2>1. row # None
    BY <1>2, <1>5 DEF Kind, Id
  <2>2. /\ row' # None /\ row'.secret = row.secret
        /\ row'.verified = (row.verified \/ t.op = "confirm")
    BY <1>5, <1>6 DEF Written
  <2>3. row'.verified <=> row.verified \/ t.op = "confirm"
    BY <2>2, Zenon
  <2> QED
    BY <2>1, <2>2, <2>3, Zenon
<1> QED
  BY <1>1, <1>3, <1>4, <1>5, TaskFacts DEF Operation, IInv

(* Only a confirmation verifies, and it verifies the secret whose code was *)
(* presented, unless a commit has come between.                            *)
THEOREM ConfirmedArePresented == Spec => ConfirmedIsPresented
<1>1. IInv /\ [Next]_vars =>
        \A r \in Request :
          At(r, {"commit"}) /\ Commit(r) /\ ~Verified /\ Verified' =>
            /\ task[r].op = "confirm"
            /\ row'.secret = task[r].secret \/ task[r].overlapped
  <2> SUFFICES ASSUME IInv, NEW r \in Request, At(r, {"commit"}), Commit(r),
                      ~Verified, Verified'
               PROVE  /\ task[r].op = "confirm"
                      /\ row'.secret = task[r].secret \/ task[r].overlapped
    OBVIOUS
  <2>1. row' # row /\ row' # None /\ row'.verified /\ (row # None => ~row.verified)
    BY DEF Verified
  <2>2. task[r].op = "confirm" /\ row # None /\ row'.secret = row.secret
    BY <2>1, CommitFacts
  <2>3. Read(task[r])
    BY DEF IInv, TasksInv, At
  <2> QED
    BY <2>2, <2>3 DEF Read
<1> QED
  BY <1>1, Invariance, PTL DEF Spec, ConfirmedIsPresented

(* A verified second factor goes, or changes its secret, only by who       *)
(* presented a code of it, by an administrator, or by who was overlapped.  *)
THEOREM VerifiedLeavesByProofOnly == Spec => VerifiedLeavesByProof
<1>1. IInv /\ [Next]_vars =>
        (Verified /\ ~(Verified' /\ row'.secret = row.secret) =>
           \E r \in Request :
             /\ At(r, {"commit"}) /\ Commit(r)
             /\ \/ task[r].op \in {"disable", "recover"} /\ task[r].secret = row.secret
                \/ task[r].op = "wipe"
                \/ task[r].overlapped)
  <2> SUFFICES ASSUME IInv, [Next]_vars, Verified,
                      ~(Verified' /\ row'.secret = row.secret)
               PROVE  \E r \in Request :
                        /\ At(r, {"commit"}) /\ Commit(r)
                        /\ \/ task[r].op \in {"disable", "recover"}
                              /\ task[r].secret = row.secret
                           \/ task[r].op = "wipe"
                           \/ task[r].overlapped
    OBVIOUS
  <2>1. row # None /\ row.verified /\ row' # row
    BY DEF Verified
  <2>2. PICK r \in Request : At(r, {"commit"}) /\ Commit(r)
    BY <2>1, OnlyCommits
  <2>3. Read(task[r])
    BY <2>2 DEF IInv, TasksInv, At
  <2>4. task[r].op \in {"disable", "recover", "wipe", "enable"}
    BY <2>1, <2>2, CommitFacts DEF Verified
  <2> QED
    BY <2>2, <2>3, <2>4 DEF Read
<1> QED
  BY <1>1, Invariance, PTL DEF Spec, VerifiedLeavesByProof
=============================================================================
