---------------------------- MODULE KeyRotationProofs ----------------------------
(***************************************************************************)
(* The properties of KeyRotation for any keys, clients, PANs and length of *)
(* the script's batches.  They rest on three facts: no KEK is configured   *)
(* twice, what the script has written and not committed is of rows that it *)
(* has read and that stay stored (its locks), and a row that it has left   *)
(* behind has the new scheme.  That no two hashes are equal needs one more: *)
(* nor are any two as they will be once the script has committed.          *)
(***************************************************************************)
EXTENDS KeyRotation, SequenceTheorems, TLAPS

KeksApart ==
    \A i, j \in 1..Len(keks) : keks[i] = keks[j] => i = j

ScriptInv ==
    script # None =>
      /\ script.written \subseteq Stored
      /\ \A c \in script.left \cup script.written : script.read[c] # None
      /\ \A c \in Stored \ (script.left \cup script.written) :
           script.read[c] # None => rows[c].hash.scheme = "hmac"

IInv == TypeOK /\ KeksApart /\ ScriptInv

-----------------------------------------------------------------------------
(* What the types say.                                                     *)

LEMMA RowFacts ==
    ASSUME TypeOK, NEW c \in Client, rows[c] # None
    PROVE  /\ rows[c] \in Row /\ rows[c].pan \in Pan /\ rows[c].key \in Kek
           /\ rows[c].id \in Nat /\ rows[c].hash \in Hash
BY DEF TypeOK, Row

LEMMA ScriptFacts ==
    ASSUME TypeOK, script # None
    PROVE  /\ script \in Script
           /\ script.left \subseteq Client /\ script.written \subseteq Client
           /\ script.done \in Nat
           /\ \A c \in Client : script.read[c] # None =>
                script.read[c] \in Row /\ script.read[c].pan \in Pan
BY DEF TypeOK, Script, Row

LEMMA KekFacts ==
    ASSUME TypeOK
    PROVE  /\ keks \in Seq(Kek) /\ Len(keks) \in Nat /\ Len(keks) >= 1
           /\ CurrentKek \in Kek
           /\ \A i \in 1..Len(keks) : keks[i] \in Kek
<1>1. keks \in Seq(Kek) /\ keks # <<>>
  BY DEF TypeOK
<1>2. Len(keks) \in Nat /\ Len(keks) # 0
  BY <1>1
<1> QED
  BY <1>1, <1>2 DEF CurrentKek

LEMMA EncryptedFacts ==
    ASSUME TypeOK, NEW p \in Pan
    PROVE  /\ Encrypted(p) \in Row /\ Encrypted(p) # None
           /\ Encrypted(p).pan = p /\ Encrypted(p).hash = Hmac(p)
           /\ Hmac(p) \in Hash /\ Hmac(p).scheme = "hmac" /\ Hmac(p).of = p
BY KekFacts, NoneIsApart DEF Encrypted, Row, Hash, Hmac

(* A key is found under an id if and only if the id is its position.       *)
LEMMA ReadableFacts ==
    ASSUME TypeOK, NEW c \in Client
    PROVE  Readable(c) <=> /\ rows[c] # None
                           /\ rows[c].id \in 1..Len(keks)
                           /\ keks[rows[c].id] = rows[c].key
<1>1. rows[c] # None => rows[c].key # None
  BY RowFacts, NoneIsApart
<1> QED
  BY <1>1 DEF Readable, GetKey

-----------------------------------------------------------------------------
(* Every step is of one of these kinds.                                    *)

(* The rows and the script stay.                                           *)
ConfigurationStep ==
    /\ UNCHANGED <<rows, script>>
    /\ \/ UNCHANGED keks
       \/ \E k \in Kek : RotateKek(k)
       \/ DropOldestKek
    /\ signing' \in Signing
    /\ tokens' \subseteq [key : SigningKey, kid : KeyId]

(* One statement of the application about one client's PAN.                *)
Store(c, row) ==
    /\ rows' = [rows EXCEPT ![c] = row]
    /\ c \notin Held
    /\ UNCHANGED <<keks, signing, tokens, script>>

LEMMA ConfigurationInv ==
    ASSUME IInv, ConfigurationStep PROVE IInv'
<1>1. ScriptInv'
  BY DEF IInv, ScriptInv, ConfigurationStep, Stored
<1>2. CASE UNCHANGED keks
  BY <1>1, <1>2 DEF IInv, TypeOK, KeksApart, ConfigurationStep
<1>3. ASSUME NEW k \in Kek, RotateKek(k) PROVE IInv'
  <2>1. /\ keks' = Append(keks, k) /\ k \notin Range(keks)
        /\ keks \in Seq(Kek) /\ Len(keks) \in Nat
    BY <1>3, KekFacts DEF RotateKek, IInv
  <2>2. /\ keks' \in Seq(Kek) /\ keks' # <<>> /\ Len(keks') = Len(keks) + 1
        /\ \A i \in 1..Len(keks) : keks'[i] = keks[i]
        /\ keks'[Len(keks) + 1] = k
    BY <2>1
  <2>3. \A i \in 1..Len(keks) : keks[i] # k
    BY <2>1 DEF Range
  <2>4. KeksApart'
    BY <2>1, <2>2, <2>3 DEF IInv, KeksApart
  <2> QED
    BY <1>1, <2>2, <2>4 DEF IInv, TypeOK, ConfigurationStep
<1>4. CASE DropOldestKek
  <2>1. /\ keks' = Tail(keks) /\ Len(keks) > 1
        /\ keks \in Seq(Kek) /\ keks # <<>> /\ Len(keks) \in Nat
    BY <1>4, KekFacts DEF DropOldestKek, IInv, TypeOK
  <2>2. /\ keks' \in Seq(Kek) /\ Len(keks') = Len(keks) - 1
        /\ \A i \in 1..Len(keks') : keks'[i] = keks[i + 1]
    BY <2>1, HeadTailProperties
  <2>3. keks' # <<>>
    BY <2>1, <2>2
  <2>4. KeksApart'
    BY <2>1, <2>2 DEF IInv, KeksApart
  <2> QED
    BY <1>1, <2>2, <2>3, <2>4 DEF IInv, TypeOK, ConfigurationStep
<1> QED
  BY <1>2, <1>3, <1>4 DEF ConfigurationStep

LEMMA StoreInv ==
    ASSUME IInv, NEW c \in Client, NEW row \in Row \cup {None}, Store(c, row),
           row # None => row.hash.scheme = "hmac"
    PROVE  IInv'
<1>1. /\ \A d \in Client : rows'[d] = IF d = c THEN row ELSE rows[d]
      /\ rows' \in [Client -> Row \cup {None}]
  BY DEF IInv, TypeOK, Store
<1>2. UNCHANGED <<keks, signing, tokens, script>>
  BY DEF Store
<1>3. TypeOK' /\ KeksApart'
  BY <1>1, <1>2 DEF IInv, TypeOK, KeksApart
<1>4. ScriptInv'
  BY <1>1, <1>2, ScriptFacts DEF IInv, ScriptInv, Stored, Store, Held
<1> QED
  BY <1>3, <1>4 DEF IInv

(* The script at its row: the hashes it has to commit, and its own state.  *)
LEMMA RehashInv ==
    ASSUME IInv, NEW c \in Client, RehashRow(c) PROVE IInv'
<1> DEFINE written == script.written \cup ({c} \cap Stored)
           moved == IF CommitsWith(c) THEN written ELSE {}
           Move(d) == [pan |-> rows[d].pan, key |-> rows[d].key, id |-> rows[d].id,
                       hash |-> Hmac(script.read[d].pan)]
<1>1. /\ script # None /\ c \in script.left /\ UNCHANGED <<keks, signing, tokens>>
      /\ rows' = IF CommitsWith(c) THEN Rehashed(written) ELSE rows
      /\ script' =
           IF script.left = {c} THEN None
           ELSE [script EXCEPT !.left = @ \ {c},
                                !.written = IF CommitsWith(c) THEN {} ELSE written,
                                !.done = @ + 1]
  BY DEF RehashRow
<1>2. /\ written \subseteq Stored /\ written \subseteq Client
      /\ \A d \in written : script.read[d] # None /\ script.read[d].pan \in Pan
  BY <1>1, ScriptFacts DEF IInv, ScriptInv, Stored
<1>3. rows' = [d \in Client |-> IF d \in moved THEN Move(d) ELSE rows[d]]
  <2>1. CASE CommitsWith(c)
    BY <1>1, <2>1 DEF Rehashed
  <2>2. CASE ~CommitsWith(c)
    BY <1>1, <2>2 DEF IInv, TypeOK
  <2> QED
    BY <2>1, <2>2
<1>4. ASSUME NEW d \in moved
      PROVE  /\ d \in Client /\ rows[d] # None
             /\ Move(d) \in Row /\ Move(d) # None /\ Move(d).hash.scheme = "hmac"
  <2>1. d \in Client /\ rows[d] # None /\ script.read[d].pan \in Pan
    BY <1>2 DEF Stored
  <2>2. Hmac(script.read[d].pan) \in Hash /\ Hmac(script.read[d].pan).scheme = "hmac"
    BY <2>1 DEF Hmac, Hash
  <2>3. rows[d].pan \in Pan /\ rows[d].key \in Kek /\ rows[d].id \in Nat
    BY <2>1, RowFacts DEF IInv
  <2> QED
    BY <2>1, <2>2, <2>3, NoneIsApart DEF Row
<1>5. script' \in Script \cup {None}
  <2> DEFINE kept == IF CommitsWith(c) THEN {} ELSE written
  <2>1. /\ script \in Script /\ kept \subseteq Client
        /\ script.left \ {c} \subseteq Client /\ script.done + 1 \in Nat
    BY <1>1, <1>2, ScriptFacts DEF IInv
  <2>2. script' = None \/
          script' = [script EXCEPT !.left = @ \ {c}, !.written = kept, !.done = @ + 1]
    BY <1>1
  <2> HIDE DEF kept
  <2> QED
    BY <2>1, <2>2 DEF Script
<1>6. moved \subseteq written /\ (CommitsWith(c) => moved = written)
  OBVIOUS
<1> HIDE DEF Move, moved, written
<1>7. /\ rows' \in [Client -> Row \cup {None}]
      /\ \A d \in Client : rows'[d] # None <=> rows[d] # None
  BY <1>3, <1>4 DEF IInv, TypeOK
<1>8. ScriptInv'
  <2> SUFFICES ASSUME script' # None PROVE ScriptInv'
    BY DEF ScriptInv
  <2>1. script'.read = script.read /\ script'.left = script.left \ {c}
        /\ script'.written = IF CommitsWith(c) THEN {} ELSE written
    BY <1>1
  <2>2. \A d \in script'.left \cup script'.written : script'.read[d] # None
    BY <1>1, <1>2, <2>1 DEF IInv, ScriptInv
  <2>3. ASSUME NEW d \in Stored', d \notin script'.left \cup script'.written,
               script'.read[d] # None
        PROVE  rows'[d].hash.scheme = "hmac"
    <3>1. d \in Client /\ d \in Stored /\ rows[d] # None
      BY <1>7 DEF Stored
    <3>2. CASE d \in moved
      BY <1>3, <1>4, <3>1, <3>2
    <3>3. CASE d \notin moved
      <4>1. rows'[d] = rows[d] /\ d \notin written
        BY <1>3, <1>6, <2>1, <2>3, <3>1, <3>3
      <4>2. d \notin script.written /\ d # c
        BY <3>1, <4>1 DEF written
      <4> QED
        BY <1>1, <2>1, <2>3, <3>1, <4>1, <4>2 DEF IInv, ScriptInv
    <3> QED
      BY <3>2, <3>3
  <2>4. script'.written \subseteq Stored'
    BY <1>2, <1>7, <2>1 DEF Stored
  <2> QED
    BY <2>2, <2>3, <2>4 DEF ScriptInv
<1> QED
  BY <1>1, <1>5, <1>7, <1>8 DEF IInv, TypeOK, KeksApart

(* What the script reads at its start, it has still to do.                 *)
LEMMA StartInv == ASSUME IInv, StartScript PROVE IInv'
<1>1. /\ script' = [kek |-> CurrentKek, read |-> rows, left |-> Stored,
                   written |-> {}, done |-> 0]
      /\ UNCHANGED <<keks, signing, tokens, rows>>
  BY DEF StartScript
<1>2. script' \in Script
  BY <1>1, KekFacts DEF IInv, TypeOK, Script, Stored
<1>3. ScriptInv'
  BY <1>1 DEF ScriptInv, Stored
<1> QED
  BY <1>1, <1>2, <1>3 DEF IInv, TypeOK, KeksApart

LEMMA StopInv ==
    ASSUME IInv, script' = None, UNCHANGED <<keks, signing, tokens, rows>> PROVE IInv'
BY DEF IInv, TypeOK, KeksApart, ScriptInv

-----------------------------------------------------------------------------
(* The steps of Next, one kind at a time.                                  *)

LEMMA OperatorStep ==
    ASSUME IInv, Operator PROVE ConfigurationStep \/ StartScript
<1>1. signing \in Signing /\ tokens \subseteq [key : SigningKey, kid : KeyId]
  BY DEF IInv, TypeOK
<1>2. ASSUME NEW k \in Kek, RotateKek(k) PROVE ConfigurationStep
  BY <1>1, <1>2 DEF RotateKek, ConfigurationStep
<1>3. CASE DropOldestKek
  BY <1>1, <1>3 DEF DropOldestKek, ConfigurationStep
<1>4. ASSUME NEW k \in SigningKey, NEW i \in KeyId, RotateSigningKey(k, i)
      PROVE  ConfigurationStep
  BY <1>1, <1>4 DEF RotateSigningKey, ConfigurationStep, Signing
<1>5. CASE DropSigningKeys
  BY <1>1, <1>5 DEF DropSigningKeys, ConfigurationStep, Signing
<1> QED
  BY <1>2, <1>3, <1>4, <1>5 DEF Operator

LEMMA ApplicationStep ==
    ASSUME IInv, Application
    PROVE  \/ ConfigurationStep
           \/ \E c \in Client, p \in Pan : c \notin Stored /\ Store(c, Encrypted(p))
           \/ \E c \in Client, p \in Pan : c \in Stored /\ Store(c, Encrypted(p))
           \/ \E c \in Client : Store(c, None)
<1>1. CASE Issue
  <2>1. \A k \in Keyring(signing.id) : k \in SigningKey
    BY DEF IInv, TypeOK, Signing, Keyring
  <2> QED
    BY <1>1, <2>1 DEF Issue, ConfigurationStep, IInv, TypeOK, Signing
<1>2. ASSUME NEW t \in tokens, ExpireToken(t) PROVE ConfigurationStep
  BY <1>2 DEF ExpireToken, ConfigurationStep, IInv, TypeOK
<1>3. ASSUME NEW c \in Client, NEW p \in Pan, CreateClient(c, p)
      PROVE  c \notin Stored /\ Store(c, Encrypted(p))
  BY <1>3 DEF CreateClient, Store, IInv, ScriptInv, Held
<1>4. ASSUME NEW c \in Client, NEW p \in Pan, UpdatePan(c, p)
      PROVE  c \in Stored /\ Store(c, Encrypted(p))
  BY <1>4 DEF UpdatePan, Store
<1>5. ASSUME NEW c \in Client, HardDelete(c) PROVE Store(c, None)
  BY <1>5 DEF HardDelete, Store
<1> QED
  BY <1>1, <1>2, <1>3, <1>4, <1>5 DEF Application

LEMMA RunningStep ==
    ASSUME Running
    PROVE  \/ \E c \in Client : RehashRow(c)
           \/ script' = None /\ UNCHANGED <<keks, signing, tokens, rows>>
BY DEF Running, FailAtRow, KillScript

-----------------------------------------------------------------------------
LEMMA InitIInv == Init => IInv
<1> SUFFICES ASSUME Init PROVE IInv
  OBVIOUS
<1>1. PICK k \in Kek : keks = <<k>> /\ rows \in [Client -> Legacy(k) \cup {None}]
  BY DEF Init
<1>2. Legacy(k) \subseteq Row
  BY DEF Legacy, Row, Hash
<1>3. rows \in [Client -> Row \cup {None}]
  BY <1>1, <1>2
<1>4. keks \in Seq(Kek) \ {<<>>} /\ Len(keks) = 1
  BY <1>1
<1>5. signing \in Signing /\ tokens = {} /\ script = None
  BY DEF Init, Signing
<1> QED
  BY <1>3, <1>4, <1>5 DEF IInv, TypeOK, KeksApart, ScriptInv

LEMMA NextIInv == IInv /\ [Next]_vars => IInv'
<1> SUFFICES ASSUME IInv, [Next]_vars PROVE IInv'
  OBVIOUS
<1>1. CASE Operator
  BY <1>1, OperatorStep, ConfigurationInv, StartInv
<1>2. CASE Application
  <2>1. ASSUME NEW c \in Client, NEW p \in Pan, Store(c, Encrypted(p)) PROVE IInv'
    BY <2>1, EncryptedFacts, StoreInv DEF IInv
  <2> QED
    BY <1>2, <2>1, ApplicationStep, ConfigurationInv, StoreInv
<1>3. CASE Running
  BY <1>3, RunningStep, RehashInv, StopInv
<1>4. CASE UNCHANGED vars
  BY <1>4 DEF vars, IInv, TypeOK, KeksApart, ScriptInv, Stored
<1> QED
  BY <1>1, <1>2, <1>3, <1>4 DEF Next

THEOREM Invariance == Spec => []IInv
BY InitIInv, NextIInv, PTL DEF Spec

(* Every variable keeps its type, through rotations and the script's runs. *)
THEOREM TypeCorrect == Spec => []TypeOK
BY Invariance, PTL DEF IInv

-----------------------------------------------------------------------------
(* What a step does to one row, and to the list of KEKs.                   *)

(* The script's commit keeps the PAN and its key, and the hash is that of  *)
(* the PAN that it has read.                                               *)
LEMMA RehashStep ==
    ASSUME IInv, NEW c \in Client, RehashRow(c), NEW d \in Client
    PROVE  /\ UNCHANGED keks /\ script # None
           /\ \/ rows'[d] = rows[d]
              \/ /\ rows'[d].pan = rows[d].pan
                 /\ rows'[d].hash = Hmac(script.read[d].pan)
<1> DEFINE written == script.written \cup ({c} \cap Stored)
<1>1. /\ script # None /\ UNCHANGED keks
      /\ rows' = IF CommitsWith(c) THEN Rehashed(written) ELSE rows
  BY DEF RehashRow
<1>2. CASE CommitsWith(c)
  BY <1>1, <1>2 DEF Rehashed
<1>3. CASE ~CommitsWith(c)
  BY <1>1, <1>3
<1> QED
  BY <1>1, <1>2, <1>3

LEMMA RowStep ==
    ASSUME IInv, [Next]_vars, NEW c \in Client, rows[c] # None
    PROVE  \/ rows'[c] = rows[c]
           \/ rows'[c] = None
           \/ \E p \in Pan : rows'[c] = Encrypted(p)
           \/ /\ script # None /\ rows'[c].pan = rows[c].pan
              /\ rows'[c].hash = Hmac(script.read[c].pan)
<1>1. CASE Operator
  BY <1>1, OperatorStep DEF ConfigurationStep, StartScript
<1>2. CASE Application
  BY <1>2, ApplicationStep DEF ConfigurationStep, Store, IInv, TypeOK
<1>3. CASE Running
  BY <1>3, RunningStep, RehashStep
<1> QED
  BY <1>1, <1>2, <1>3 DEF Next, vars

(* A row appears with the hash that the application computes.              *)
LEMMA AppearStep ==
    ASSUME IInv, [Next]_vars, NEW c \in Client, rows[c] = None, rows'[c] # None
    PROVE  \E p \in Pan : rows'[c] = Encrypted(p)
<1>1. ~ Operator
  BY OperatorStep DEF ConfigurationStep, StartScript
<1>2. CASE Application
  BY <1>2, ApplicationStep DEF ConfigurationStep, Store, IInv, TypeOK
<1>3. ASSUME NEW d \in Client, RehashRow(d) PROVE FALSE
  <2>1. c \notin script.written \cup ({d} \cap Stored)
    BY <1>3 DEF RehashRow, IInv, ScriptInv, Stored
  <2> QED
    BY <1>3, <2>1 DEF RehashRow, Rehashed
<1>4. CASE Running
  BY <1>3, <1>4, RunningStep
<1> QED
  BY <1>1, <1>2, <1>4 DEF Next, vars

LEMMA KeksStep ==
    ASSUME IInv, [Next]_vars
    PROVE  \/ UNCHANGED keks
           \/ \E k \in Kek : RotateKek(k)
           \/ DropOldestKek
<1>1. CASE Operator
  BY <1>1, OperatorStep DEF ConfigurationStep, StartScript
<1>2. CASE Application
  BY <1>2, ApplicationStep DEF ConfigurationStep, Store
<1>3. CASE Running
  BY <1>3, RunningStep DEF RehashRow
<1> QED
  BY <1>1, <1>2, <1>3 DEF Next, vars

(* A PAN is readable while the list of KEKs grows, and unreadable as soon  *)
(* as the positions in it have moved.                                      *)
THEOREM ReadableUntilAKekIsDropped == Spec => ReadableUntilDrop
<1> DEFINE Kept ==
      \A c \in Client :
         Readable(c) /\ rows'[c] # None /\ rows'[c].key = rows[c].key
           /\ rows'[c].id = rows[c].id =>
             (Readable(c)' <=> Len(keks') >= Len(keks))
<1>1. IInv /\ IInv' /\ [Next]_vars => Kept
  <2> SUFFICES ASSUME IInv, IInv', [Next]_vars, NEW c \in Client, Readable(c),
                      rows'[c] # None, rows'[c].key = rows[c].key,
                      rows'[c].id = rows[c].id
               PROVE  Readable(c)' <=> Len(keks') >= Len(keks)
    OBVIOUS
  <2> DEFINE i == rows[c].id
             k == rows[c].key
  <2>1. /\ i \in 1..Len(keks) /\ keks[i] = k /\ i \in Nat
        /\ Len(keks) \in Nat /\ keks \in Seq(Kek) /\ keks # <<>>
    BY ReadableFacts, KekFacts, RowFacts DEF IInv, TypeOK
  <2>2. Readable(c)' <=> i \in 1..Len(keks') /\ keks'[i] = k
    <3>1. rows'[c].key # None
      <4>1. rows'[c] \in Row
        BY DEF IInv, TypeOK
      <4> QED
        BY <4>1, NoneIsApart DEF Row
    <3> QED
      BY <3>1 DEF Readable, GetKey
  <2> HIDE DEF i, k
  <2>3. CASE UNCHANGED keks
    BY <2>1, <2>2, <2>3
  <2>4. ASSUME NEW new \in Kek, RotateKek(new)
        PROVE  Readable(c)' <=> Len(keks') >= Len(keks)
    <3>1. keks' = Append(keks, new)
      BY <2>4 DEF RotateKek
    <3>2. Len(keks') = Len(keks) + 1 /\ keks'[i] = keks[i]
      BY <2>1, <3>1
    <3> QED
      BY <2>1, <2>2, <3>2
  <2>5. CASE DropOldestKek
    <3>1. keks' = Tail(keks)
      BY <2>5 DEF DropOldestKek
    <3>2. /\ Len(keks') = Len(keks) - 1
          /\ \A j \in 1..Len(keks') : keks'[j] = keks[j + 1]
      BY <2>1, <3>1, HeadTailProperties
    <3>3. i \in 1..Len(keks') => keks'[i] # k
      BY <2>1, <3>2 DEF IInv, KeksApart
    <3> QED
      BY <2>1, <2>2, <3>2, <3>3
  <2> QED
    BY <2>3, <2>4, <2>5, KeksStep
<1> QED
  BY <1>1, Invariance, PTL DEF Spec, ReadableUntilDrop

(* Only the script separates a hash from its PAN: it commits the hash of   *)
(* the PAN that it has read.                                               *)
THEOREM HashesFollowPans == Spec => HashFollowsPan
<1> DEFINE Follows ==
      \A c \in Stored :
         rows'[c] # None /\ Agrees(rows[c]) /\ ~Agrees(rows'[c]) =>
           script # None /\ script.read[c].pan # rows[c].pan
<1>1. IInv /\ [Next]_vars => Follows
  <2> SUFFICES ASSUME IInv, [Next]_vars, NEW c \in Client, rows[c] # None,
                      rows'[c] # None, Agrees(rows[c]), ~Agrees(rows'[c])
               PROVE  script # None /\ script.read[c].pan # rows[c].pan
    BY DEF Stored
  <2>1. \A p \in Pan : Agrees(Encrypted(p))
    BY EncryptedFacts DEF IInv, Agrees
  <2>2. Hmac(script.read[c].pan).of = script.read[c].pan
    BY DEF Hmac
  <2> QED
    BY <2>1, <2>2, RowStep DEF Agrees
<1> QED
  BY <1>1, Invariance, PTL DEF Spec, HashFollowsPan

(* What a run has committed has the keyed hash, and at its end all it read. *)
THEOREM RunsMoveTheirRows == Spec => RunsKeepTheirBatches
<1> DEFINE Kept ==
      \A d \in Client :
         /\ script # None /\ script.read[d] # None /\ rows'[d] # None
         /\ \/ d \notin script.left \cup script.written
            \/ \E c \in Client : script.left = {c} /\ RehashRow(c)
         => rows'[d].hash.scheme = "hmac"
<1>1. IInv /\ [Next]_vars => Kept
  <2> SUFFICES ASSUME IInv, [Next]_vars, NEW d \in Client, script # None,
                      script.read[d] # None, rows'[d] # None,
                      \/ d \notin script.left \cup script.written
                      \/ \E c \in Client : script.left = {c} /\ RehashRow(c)
               PROVE  rows'[d].hash.scheme = "hmac"
    OBVIOUS
  <2>1. CASE rows[d] = None
    BY <2>1, AppearStep, EncryptedFacts DEF IInv
  <2>2. ASSUME rows[d] # None, d \notin script.left \cup script.written
        PROVE  rows'[d].hash.scheme = "hmac"
    <3>1. rows[d].hash.scheme = "hmac"
      BY <2>2 DEF IInv, ScriptInv, Stored
    <3>2. \A p \in Pan : Encrypted(p).hash.scheme = "hmac"
      BY EncryptedFacts DEF IInv
    <3>3. Hmac(script.read[d].pan).scheme = "hmac"
      BY DEF Hmac
    <3> QED
      BY <2>2, <3>1, <3>2, <3>3, RowStep
  <2>3. ASSUME NEW c \in Client, script.left = {c}, RehashRow(c), rows[d] # None
        PROVE  rows'[d].hash.scheme = "hmac"
    <3> DEFINE written == script.written \cup ({c} \cap Stored)
    <3>1. rows' = Rehashed(written)
      BY <2>3 DEF RehashRow, CommitsWith
    <3>2. CASE d \in written
      BY <3>1, <3>2 DEF Rehashed, Hmac
    <3>3. CASE d \notin written
      BY <2>3, <3>1, <3>3 DEF Rehashed, IInv, ScriptInv, Stored
    <3> QED
      BY <3>2, <3>3
  <2> QED
    BY <2>1, <2>2, <2>3
<1> QED
  BY <1>1, Invariance, PTL DEF Spec, RunsKeepTheirBatches

-----------------------------------------------------------------------------
(* Hashes.  Beside the committed ones, the hashes as they will be when the *)
(* script commits have to be apart.                                        *)

HashesAreUnique ==
    \A c, d \in Stored : rows[c].hash = rows[d].hash => c = d

Coming(c) == IF c \in Held THEN Hmac(script.read[c].pan) ELSE rows[c].hash

UniqueInv ==
    /\ HashesAreUnique
    /\ \A c, d \in Stored : Coming(c) = Coming(d) => c = d

LEMMA KeepUnique ==
    ASSUME UniqueInv, rows' = rows, Held' = {} \/ script' = script
    PROVE  UniqueInv'
BY DEF UniqueInv, HashesAreUnique, Coming, Held, Stored

LEMMA StoreUnique ==
    ASSUME IInv, UniqueInv, NEW c \in Client, NEW row \in Row \cup {None}, Store(c, row),
           row # None => \A d \in Stored \ {c} :
                           row.hash # rows[d].hash /\ row.hash # Coming(d)
    PROVE  UniqueInv'
<1>1. /\ \A d \in Client : rows'[d] = IF d = c THEN row ELSE rows[d]
      /\ Held' = Held /\ c \notin Held /\ script' = script
  BY DEF IInv, TypeOK, Store, Held
<1>2. ASSUME NEW d \in Stored'
      PROVE  \/ d = c /\ row # None /\ rows'[d].hash = row.hash /\ Coming(d)' = row.hash
             \/ d # c /\ d \in Stored /\ rows'[d] = rows[d] /\ Coming(d)' = Coming(d)
  BY <1>1, <1>2 DEF Stored, Coming
<1> QED
  BY <1>2 DEF UniqueInv, HashesAreUnique

LEMMA ApplicationUnique ==
    ASSUME IInv, UniqueInv, Application PROVE UniqueInv'
<1>1. CASE Issue \/ \E t \in tokens : ExpireToken(t)
  BY <1>1, KeepUnique DEF Issue, ExpireToken
<1>2. ASSUME NEW p \in Pan, NEW c \in Client, Available(Hmac(p))
      PROVE  \A d \in Stored \ {c} :
               Encrypted(p).hash # rows[d].hash /\ Encrypted(p).hash # Coming(d)
  BY <1>2, EncryptedFacts DEF Available, Pending, Coming, IInv
<1>3. ASSUME NEW c \in Client, NEW p \in Pan, CreateClient(c, p) PROVE UniqueInv'
  <2>1. Store(c, Encrypted(p)) /\ Available(Hmac(p))
    BY <1>3 DEF CreateClient, Store, IInv, ScriptInv, Held
  <2> QED
    BY <1>2, <2>1, EncryptedFacts, StoreUnique DEF IInv
<1>4. ASSUME NEW c \in Client, NEW p \in Pan, UpdatePan(c, p) PROVE UniqueInv'
  <2>1. Store(c, Encrypted(p)) /\ c \in Stored /\ c \notin Held
    BY <1>4 DEF UpdatePan, Store
  <2>2. CASE Available(Hmac(p))
    BY <1>2, <2>1, <2>2, EncryptedFacts, StoreUnique DEF IInv
  <2>3. CASE Unchanged(c, p)
    <3>1. Encrypted(p).hash = rows[c].hash /\ Encrypted(p).hash = Coming(c)
      BY <2>1, <2>3, EncryptedFacts DEF Unchanged, Coming, IInv
    <3>2. \A d \in Stored \ {c} :
            Encrypted(p).hash # rows[d].hash /\ Encrypted(p).hash # Coming(d)
      BY <2>1, <3>1 DEF UniqueInv, HashesAreUnique
    <3> QED
      BY <2>1, <3>2, EncryptedFacts, StoreUnique DEF IInv
  <2> QED
    BY <1>4, <2>2, <2>3 DEF UpdatePan
<1>5. ASSUME NEW c \in Client, HardDelete(c) PROVE UniqueInv'
  <2>1. Store(c, None)
    BY <1>5 DEF HardDelete, Store
  <2> QED
    BY <2>1, StoreUnique
<1> QED
  BY <1>1, <1>3, <1>4, <1>5 DEF Application

(* The script's own transaction sees what it has written, so a batch that  *)
(* commits has no clash within it.                                         *)
LEMMA RehashUnique ==
    ASSUME IInv, UniqueInv, NEW c \in Client, RehashRow(c) PROVE UniqueInv'
<1> DEFINE written == script.written \cup ({c} \cap Stored)
           New(d) == IF d \in written THEN Hmac(script.read[d].pan) ELSE rows[d].hash
<1>1. /\ script # None /\ c \in script.left /\ ~(c \in Stored /\ Clashes(c))
      /\ rows' = IF CommitsWith(c) THEN Rehashed(written) ELSE rows
      /\ script' =
           IF script.left = {c} THEN None
           ELSE [script EXCEPT !.left = @ \ {c},
                                !.written = IF CommitsWith(c) THEN {} ELSE written,
                                !.done = @ + 1]
  BY DEF RehashRow
<1>2. Held = script.written /\ script.written \subseteq Stored
  BY <1>1 DEF Held, IInv, ScriptInv
<1>3. \A d \in Stored : New(d) = New(c) /\ c \in Stored => d = c
  BY <1>1, <1>2 DEF Clashes
<1>4. \A d \in Stored \ {c} : New(d) = Coming(d)
  BY <1>2 DEF Coming
<1>5. \A d, e \in Stored : New(d) = New(e) => d = e
  BY <1>3, <1>4 DEF UniqueInv
<1>6. CASE CommitsWith(c)
  <2>1. rows' = Rehashed(written) /\ Held' = {}
    <3>1. script' # None => script'.written = {}
      BY <1>1, <1>6
    <3> QED
      BY <1>1, <1>6, <3>1 DEF Held
  <2>2. written \subseteq Stored
    BY <1>2
  <2> HIDE DEF written
  <2>3. \A d \in Stored' : d \in Stored /\ rows'[d].hash = New(d) /\ Coming(d)' = New(d)
    BY <2>1, <2>2 DEF Rehashed, Stored, Coming
  <2> HIDE DEF New
  <2> QED
    BY <1>5, <2>3 DEF UniqueInv, HashesAreUnique
<1>7. CASE ~CommitsWith(c)
  <2>1. script'.written = written /\ script'.read = script.read /\ rows' = rows
    BY <1>1, <1>7 DEF CommitsWith
  <2>2. CASE Held' = {}
    BY <2>1, <2>2, KeepUnique
  <2>3. CASE Held' = written
    <3>1. \A d \in Stored' : d \in Stored /\ rows'[d] = rows[d] /\ Coming(d)' = New(d)
      BY <2>1, <2>3 DEF Stored, Coming
    <3> HIDE DEF New, written
    <3> QED
      BY <1>5, <3>1 DEF UniqueInv, HashesAreUnique
  <2> QED
    BY <2>1, <2>2, <2>3 DEF Held
<1> QED
  BY <1>6, <1>7

(* No two clients ever have one hash, whatever the script writes over what *)
(* the application stores: a clash ends the script or refuses the request. *)
THEOREM UniqueHashes == Spec => []HashesAreUnique
<1>1. Init => UniqueInv
  <2> SUFFICES ASSUME Init PROVE UniqueInv
    OBVIOUS
  <2>1. PICK k \in Kek : rows \in [Client -> Legacy(k) \cup {None}]
    BY DEF Init
  <2>2. ASSUME NEW c \in Stored, NEW d \in Stored, rows[c].hash = rows[d].hash
        PROVE  c = d
    <3>1. /\ rows[c] \in Legacy(k) /\ rows[d] \in Legacy(k) /\ c \in Client /\ d \in Client
          /\ rows[c] # None
      BY <2>1 DEF Stored
    <3>2. rows[c] = rows[d]
      BY <2>2, <3>1 DEF Legacy
    <3> QED
      BY <3>1, <3>2 DEF Init
  <2>3. \A c \in Stored : Coming(c) = rows[c].hash
    BY DEF Init, Coming, Held
  <2> QED
    BY <2>2, <2>3 DEF UniqueInv, HashesAreUnique
<1>2. IInv /\ UniqueInv /\ [Next]_vars => UniqueInv'
  <2> SUFFICES ASSUME IInv, UniqueInv, [Next]_vars PROVE UniqueInv'
    OBVIOUS
  <2>1. CASE Operator
    <3>1. rows' = rows /\ (script' = script \/ Held' = {})
      BY <2>1 DEF Operator, RotateKek, DropOldestKek, RotateSigningKey, DropSigningKeys,
         StartScript, Held
    <3> QED
      BY <3>1, KeepUnique
  <2>2. CASE Application
    BY <2>2, ApplicationUnique
  <2>3. CASE Running
    <3>1. CASE script' = None /\ rows' = rows
      BY <3>1, KeepUnique DEF Held
    <3> QED
      BY <2>3, <3>1, RunningStep, RehashUnique
  <2>4. CASE UNCHANGED vars
    BY <2>4, KeepUnique DEF vars
  <2> QED
    BY <2>1, <2>2, <2>3, <2>4 DEF Next
<1>3. UniqueInv => HashesAreUnique
  BY DEF UniqueInv
<1> QED
  BY <1>1, <1>2, <1>3, Invariance, PTL DEF Spec
=============================================================================
