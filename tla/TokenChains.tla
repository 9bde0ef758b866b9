------------------------------- MODULE TokenChains -------------------------------
(***************************************************************************)
(* What refresh tokens promise to those who hold them: a family is a chain *)
(* (or, when refreshes overlap, a tree) that starts with a login.  A token *)
(* is handed out in two steps, offered and settled, or withdrawn; settling *)
(* it spends its parent in the same step.  Revoked, spent and expired are  *)
(* for good, and a user goes with all tokens.                              *)
(*                                                                         *)
(* No requests, statements, locks or rollbacks: RefreshSessions has those, *)
(* and implements this.                                                    *)
(***************************************************************************)
CONSTANTS User, Token, NoToken, NoRow

Row == [owner : User, family : Token, parent : Token \cup {NoToken}]

VARIABLES
    users,     \* users that exist
    chain,     \* chain[t]: the row of a settled token, or NoRow
    offered,   \* offered[t]: the row of a token not settled yet, or NoRow
    spent,     \* tokens that have been exchanged for a child
    revoked,
    expired

chainVars == <<users, chain, offered, spent, revoked, expired>>

Settled == {t \in Token : chain[t] # NoRow}

OwnedBy(u) == {t \in Settled : chain[t].owner = u}

Init ==
    /\ users = User
    /\ chain = [t \in Token |-> NoRow]
    /\ offered = [t \in Token |-> NoRow]
    /\ spent = {}
    /\ revoked = {}
    /\ expired = {}

OfferRow(n, columns) ==
    /\ chain[n] = NoRow /\ offered[n] = NoRow
    /\ offered' = [offered EXCEPT ![n] = columns]
    /\ UNCHANGED <<users, chain, spent, revoked, expired>>

(* A login starts a family.                                                *)
OfferFirst(u, n) ==
    u \in users /\ OfferRow(n, [owner |-> u, family |-> n, parent |-> NoToken])

(* A refresh: the token presented is good when it is presented.            *)
OfferNext(t, n) ==
    /\ t \in Settled \ (spent \cup revoked \cup expired)
    /\ OfferRow(n, [owner |-> chain[t].owner, family |-> chain[t].family, parent |-> t])

(* What was offered is handed out, and its parent spent with it.           *)
Settle(n) ==
    /\ offered[n] # NoRow
    /\ offered[n].owner \in users
    /\ offered[n].parent \in Settled \cup {NoToken}
    /\ chain' = [chain EXCEPT ![n] = offered[n]]
    /\ offered' = [offered EXCEPT ![n] = NoRow]
    /\ spent' = spent \cup ({offered[n].parent} \cap Token)
    /\ UNCHANGED <<users, revoked, expired>>

Withdraw(n) ==
    /\ offered[n] # NoRow
    /\ offered' = [offered EXCEPT ![n] = NoRow]
    /\ UNCHANGED <<users, chain, spent, revoked, expired>>

(* One session or several sessions of one user.                            *)
Revoke(u, S) ==
    /\ S \subseteq OwnedBy(u)
    /\ revoked' = revoked \cup S
    /\ UNCHANGED <<users, chain, offered, spent, expired>>

Expire(t) ==
    /\ t \in Settled
    /\ expired' = expired \cup {t}
    /\ UNCHANGED <<users, chain, offered, spent, revoked>>

RemoveUser(u) ==
    /\ u \in users
    /\ users' = users \ {u}
    /\ chain' = [t \in Token |-> IF t \in OwnedBy(u) THEN NoRow ELSE chain[t]]
    /\ spent' = spent \ OwnedBy(u)
    /\ revoked' = revoked \ OwnedBy(u)
    /\ expired' = expired \ OwnedBy(u)
    /\ UNCHANGED offered

Next ==
    \/ \E n \in Token :
         \/ \E u \in User : OfferFirst(u, n)
         \/ \E t \in Token : OfferNext(t, n)
         \/ Settle(n) \/ Withdraw(n) \/ Expire(n)
    \/ \E u \in User : RemoveUser(u) \/ \E S \in SUBSET Token : Revoke(u, S)

Spec == Init /\ [][Next]_chainVars
=============================================================================
