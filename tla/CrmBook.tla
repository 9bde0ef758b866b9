--------------------------------- MODULE CrmBook ---------------------------------
(***************************************************************************)
(* What the CRM promises of its records: a book in which one entry is made *)
(* at a time.  An entry is made by a user who exists, about a client who   *)
(* is in the book, under a label nobody else has; an edit changes what it  *)
(* is about and nothing else; and an entry goes with its documents, or     *)
(* with the user who made it.                                              *)
(*                                                                         *)
(* No requests, locks, constraints, files or rollbacks: CrmRecords has     *)
(* those, and implements this.                                             *)
(***************************************************************************)
CONSTANTS User, Client, Document, Pan, Number, None

Record == Client \cup Document

ClientEntry ==
    [creator : User, label : Pan, of : {None}, active : BOOLEAN, path : {FALSE}]

DocumentEntry ==
    [creator : User, label : Number \cup {None}, of : Client,
     active : BOOLEAN, path : BOOLEAN]

VARIABLES
    users,   \* users that exist
    rows     \* rows[k]: the entry k, or None

bookVars == <<users, rows>>

Stored == {k \in Record : rows[k] # None}

Below(k) == {d \in Stored : rows[d].of = k}

Made(u) == {k \in Stored : rows[k].creator = u}

(* A label is nobody else's; a document may have none.                     *)
Free(k, label) == label = None \/ \A j \in Stored \ {k} : rows[j].label # label

Init ==
    /\ users = User
    /\ rows = [k \in Record |-> None]

Enter(k, entry) ==
    /\ k \notin Stored
    /\ entry.active
    /\ entry.creator \in users
    /\ entry.of \in Stored \cup {None}
    /\ Free(k, entry.label)
    /\ rows' = [rows EXCEPT ![k] = entry]
    /\ UNCHANGED users

Relabel(k, label) ==
    /\ k \in Stored
    /\ Free(k, label)
    /\ rows' = [rows EXCEPT ![k].label = label]
    /\ UNCHANGED users

SetActive(k, active) ==
    /\ k \in Stored
    /\ rows' = [rows EXCEPT ![k].active = active]
    /\ UNCHANGED users

Strike(S) == rows' = [k \in Record |-> IF k \in S THEN None ELSE rows[k]]

Remove(k) ==
    /\ k \in Stored
    /\ Strike({k} \cup Below(k))
    /\ UNCHANGED users

RemoveUser(u) ==
    /\ u \in users
    /\ users' = users \ {u}
    /\ Strike(Made(u) \cup UNION {Below(k) : k \in Made(u)})

Next ==
    \/ \E c \in Client :
         \/ \E entry \in ClientEntry : Enter(c, entry)
         \/ \E p \in Pan : Relabel(c, p)
    \/ \E d \in Document :
         \/ \E entry \in DocumentEntry : Enter(d, entry)
         \/ \E n \in Number : Relabel(d, n)
    \/ \E k \in Record : Remove(k) \/ \E active \in BOOLEAN : SetActive(k, active)
    \/ \E u \in User : RemoveUser(u)

Spec == Init /\ [][Next]_bookVars
=============================================================================
