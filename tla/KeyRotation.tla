------------------------------- MODULE KeyRotation -------------------------------
(***************************************************************************)
(* Keys that change under what was made with them: the KEKs of KEKManager  *)
(* under which clients' PANs are stored, the signing keys of JWTManager,   *)
(* and the move of the PAN hashes from SHA-256 to HMAC by                  *)
(* scripts/rehash_pans.py, which runs beside the application.              *)
(*                                                                         *)
(* The operator rotates by configuration: the old key joins the list of    *)
(* previous ones and the processes restart, taken here as one step.  A     *)
(* statement of the application that writes a PAN writes all of its        *)
(* columns and is one step; the script holds the rows that it has updated  *)
(* until it commits.                                                       *)
(***************************************************************************)
EXTENDS Sequences, SequencesExt

CONSTANTS
    Kek,
    SigningKey,
    KeyId,          \* values of jwt_key_id
    PreviousId(_),  \* the id that the i-th previous signing key gets
    Client,
    Pan,
    CommitEvery,    \* rows between two commits of the script (100)
    None

ASSUME CommitEveryIsPositive == CommitEvery \in Nat \ {0}

VARIABLES
    keks,      \* previous KEKs, oldest first, and the current one at the end
    signing,   \* the configured signing keys
    tokens,    \* unexpired JWTs that somebody holds
    rows,      \* crm.clients
    script     \* a run of rehash_pans, or None

vars == <<keks, signing, tokens, rows, script>>

Hash == [scheme : {"sha", "hmac"}, of : Pan]

(* id: pan_encryption_key_id, a position (kek_0 is 1) in the list of KEKs. *)
Row == [pan : Pan, key : Kek, id : Nat, hash : Hash]

(* kek: what DHANADA_AUTH_KEK_BASE64 was at the start; read: the result of *)
(* the SELECT; left: rows still to do; written: updated and not committed; *)
(* done: rows counted.                                                     *)
Script ==
    [kek : Kek, read : [Client -> Row \cup {None}], left : SUBSET Client,
     written : SUBSET Client, done : Nat]

ASSUME NoneIsApart == None \notin Kek \cup Row \cup Script

Signing == [id : KeyId, key : SigningKey, previous : Seq(SigningKey)]

TypeOK ==
    /\ keks \in Seq(Kek) \ {<<>>}
    /\ signing \in Signing
    /\ tokens \subseteq [key : SigningKey, kid : KeyId]
    /\ rows \in [Client -> Row \cup {None}]
    /\ script \in Script \cup {None}

Hmac(p) == [scheme |-> "hmac", of |-> p]

(* Rows from before the script was written, under the only KEK.            *)
Legacy(k) ==
    {[pan |-> p, key |-> k, id |-> 1, hash |-> [scheme |-> "sha", of |-> p]] : p \in Pan}

Init ==
    /\ \E k \in Kek :
         /\ keks = <<k>>
         /\ rows \in [Client -> Legacy(k) \cup {None}]
    /\ \A c, d \in Client : c # d /\ rows[c] # None => rows[c] # rows[d]
    /\ \E s \in SigningKey, i \in KeyId :
         signing = [id |-> i, key |-> s, previous |-> <<>>]
    /\ tokens = {}
    /\ script = None

-----------------------------------------------------------------------------
(* KEKManager and EnvelopeEncryption.                                      *)

Stored == {c \in Client : rows[c] # None}

CurrentKek == keks[Len(keks)]

(* Mutant: the current key is always kek_0.                                *)
NewestFirst(i) == IF i \in 1..Len(keks) THEN keks[Len(keks) + 1 - i] ELSE None

(* get_key: ids are positions.                                             *)
GetKey(i) == IF i \in 1..Len(keks) THEN keks[i] ELSE None

(* decrypt: another key than the one that wrapped it fails to authenticate. *)
Readable(c) == rows[c] # None /\ GetKey(rows[c].id) = rows[c].key

Encrypted(p) == [pan |-> p, key |-> CurrentKek, id |-> Len(keks), hash |-> Hmac(p)]

RotateKek(k) ==
    /\ k \notin Range(keks) \cup {rows[c].key : c \in Stored}
    /\ keks' = Append(keks, k)
    /\ UNCHANGED <<signing, tokens, rows, script>>

(* Mutant: the current key can be dropped as well.                         *)
DropAnyKek ==
    /\ keks' = Tail(keks)
    /\ UNCHANGED <<signing, tokens, rows, script>>

DropOldestKek ==
    /\ Len(keks) > 1
    /\ keks' = Tail(keks)
    /\ UNCHANGED <<signing, tokens, rows, script>>

-----------------------------------------------------------------------------
(* JWTManager.                                                             *)

PreviousIds == {PreviousId(i) : i \in 1..Len(signing.previous)}

(* self._keys: the current key under its id, then the previous ones under  *)
(* theirs, which overwrite it.                                             *)
Keyring(kid) ==
    IF kid \in PreviousIds
    THEN {signing.previous[i] : i \in {i \in 1..Len(signing.previous) : PreviousId(i) = kid}}
    ELSE IF kid = signing.id THEN {signing.key} ELSE {}

Issue ==
    /\ \E k \in Keyring(signing.id) : tokens' = tokens \cup {[key |-> k, kid |-> signing.id]}
    /\ UNCHANGED <<keks, signing, rows, script>>

(* _decode_token: the key that the header names must have signed.          *)
Accepted(t) == t.key \in Keyring(t.kid)

ExpireToken(t) ==
    /\ t \in tokens
    /\ tokens' = tokens \ {t}
    /\ UNCHANGED <<keks, signing, rows, script>>

(* The id may be changed or kept.                                          *)
RotateSigningKey(k, i) ==
    /\ k \notin Range(signing.previous) \cup {signing.key} \cup {t.key : t \in tokens}
    /\ signing' = [id |-> i, key |-> k, previous |-> Append(signing.previous, signing.key)]
    /\ UNCHANGED <<keks, tokens, rows, script>>

DropSigningKeys ==
    /\ signing.previous # <<>>
    /\ signing' = [id |-> signing.id, key |-> signing.key, previous |-> <<>>]
    /\ UNCHANGED <<keks, tokens, rows, script>>

-----------------------------------------------------------------------------
(* The clients service.                                                    *)

Held == IF script = None THEN {} ELSE script.written

Pending == {Hmac(script.read[c].pan) : c \in Held}

(* pan_number_hash is unique; an uncommitted hash has to be waited for.    *)
Available(h) == h \notin Pending /\ \A c \in Stored : rows[c].hash # h

CreateClient(c, p) ==
    /\ c \notin Stored
    /\ script # None => script.read[c] = None
    /\ Available(Hmac(p))
    /\ rows' = [rows EXCEPT ![c] = Encrypted(p)]
    /\ UNCHANGED <<keks, signing, tokens, script>>

Unchanged(c, p) == rows[c].hash = Hmac(p)

(* Mutant: the hash stays that of the PAN before.                          *)
UpdatePanAlone(c, p) ==
    /\ c \in Stored \ Held
    /\ rows' = [rows EXCEPT ![c] =
                  [pan |-> p, key |-> CurrentKek, id |-> Len(keks), hash |-> rows[c].hash]]
    /\ UNCHANGED <<keks, signing, tokens, script>>

UpdatePan(c, p) ==
    /\ c \in Stored \ Held
    /\ Unchanged(c, p) \/ Available(Hmac(p))
    /\ rows' = [rows EXCEPT ![c] = Encrypted(p)]
    /\ UNCHANGED <<keks, signing, tokens, script>>

HardDelete(c) ==
    /\ c \in Stored \ Held
    /\ rows' = [rows EXCEPT ![c] = None]
    /\ UNCHANGED <<keks, signing, tokens, script>>

-----------------------------------------------------------------------------
(* rehash_pans.                                                            *)

StartScript ==
    /\ script = None
    /\ Stored # {}
    /\ script' = [kek |-> CurrentKek, read |-> rows, left |-> Stored,
                  written |-> {}, done |-> 0]
    /\ UNCHANGED <<keks, signing, tokens, rows>>

(* The script knows one KEK, and keeps it over a rotation.                 *)
Decrypts(c) == script.read[c].key = script.kek

(* The hash of another row, as the script's own transaction sees them.     *)
Clashes(c) ==
    \E d \in Stored \ {c} :
      Hmac(script.read[c].pan) =
        IF d \in script.written THEN Hmac(script.read[d].pan) ELSE rows[d].hash

(* Mutant: no commit after the loop.                                       *)
CommitsFull(c) == (script.done + 1) % CommitEvery = 0

CommitsWith(c) == script.left = {c} \/ (script.done + 1) % CommitEvery = 0

Rehashed(cs) ==
    [c \in Client |->
       IF c \in cs
       THEN [pan |-> rows[c].pan, key |-> rows[c].key, id |-> rows[c].id,
             hash |-> Hmac(script.read[c].pan)]
       ELSE rows[c]]

(* One row; the last one ends the run.                                     *)
RehashRow(c) ==
    /\ script # None /\ c \in script.left
    /\ Decrypts(c) /\ ~(c \in Stored /\ Clashes(c))
    /\ LET written == script.written \cup ({c} \cap Stored) IN
         /\ rows' = IF CommitsWith(c) THEN Rehashed(written) ELSE rows
         /\ script' =
              IF script.left = {c} THEN None
              ELSE [script EXCEPT
                      !.left = @ \ {c},
                      !.written = IF CommitsWith(c) THEN {} ELSE written,
                      !.done = @ + 1]
    /\ UNCHANGED <<keks, signing, tokens>>

(* An exception ends the script and rolls its last batch back.             *)
FailAtRow(c) ==
    /\ script # None /\ c \in script.left
    /\ ~Decrypts(c) \/ (c \in Stored /\ Clashes(c))
    /\ script' = None
    /\ UNCHANGED <<keks, signing, tokens, rows>>

KillScript ==
    /\ script # None
    /\ script' = None
    /\ UNCHANGED <<keks, signing, tokens, rows>>

-----------------------------------------------------------------------------
Operator ==
    \/ \E k \in Kek : RotateKek(k)
    \/ DropOldestKek
    \/ \E k \in SigningKey, i \in KeyId : RotateSigningKey(k, i)
    \/ DropSigningKeys
    \/ StartScript

Application ==
    \/ Issue
    \/ \E t \in tokens : ExpireToken(t)
    \/ \E c \in Client :
         \/ \E p \in Pan : CreateClient(c, p) \/ UpdatePan(c, p)
         \/ HardDelete(c)

Running == \/ \E c \in Client : RehashRow(c) \/ FailAtRow(c)
           \/ KillScript

Next == Operator \/ Application \/ Running

Spec == Init /\ [][Next]_vars

-----------------------------------------------------------------------------
(* What rotation keeps, and what it does not.                              *)

(* A stored PAN stays readable until a previous KEK is dropped, and is     *)
(* lost then, whichever key it is under, the current one included          *)
(* (auth/crypto/keys.py:41-46).                                            *)
ReadableUntilDrop ==
    [][\A c \in Client :
         Readable(c) /\ rows'[c] # None /\ rows'[c].key = rows[c].key
           /\ rows'[c].id = rows[c].id =>
             (Readable(c)' <=> Len(keks') >= Len(keks))]_vars

Agrees(row) == row.hash.of = row.pan

(* The hash of a PAN stops being its hash only when the script commits     *)
(* what it computed from a PAN that has been replaced since it read        *)
(* (scripts/rehash_pans.py:68-108).                                        *)
HashFollowsPan ==
    [][\A c \in Stored :
         rows'[c] # None /\ Agrees(rows[c]) /\ ~Agrees(rows'[c]) =>
           script # None /\ script.read[c].pan # rows[c].pan]_vars

(* Rows that a run has done and committed have the new scheme, at each of  *)
(* its steps and when an exception or a kill ends it in a later batch; a   *)
(* run that comes to its end has moved every row that it read and that is  *)
(* still there, the rows of its last batch and of a short one included     *)
(* (scripts/rehash_pans.py:82-108).                                        *)
RunsKeepTheirBatches ==
    [][\A d \in Client :
         /\ script # None /\ script.read[d] # None /\ rows'[d] # None
         /\ \/ d \notin script.left \cup script.written
            \/ \E c \in Client : script.left = {c} /\ RehashRow(c)
         => rows'[d].hash.scheme = "hmac"]_vars

(* What the repository says of rotation.                                   *)

(* .env.example:20-21 "Change during rotation to identify which key signed *)
(* each token so old tokens can still be verified."                        *)
OldTokensVerify ==
    \A t \in tokens :
      t.key \in Range(signing.previous) /\ t.kid # signing.id => Accepted(t)
=============================================================================
