------------------------------- MODULE ApiClient -------------------------------
(***************************************************************************)
(* The browser side of a session: the axios interceptors of useApi.ts, the *)
(* auth store's use of them, and localStorage, which all pages share.      *)
(*                                                                         *)
(* JavaScript runs to the end between two awaits, so an action is one such *)
(* stretch: sending a request, or everything its reply sets off.  Requests *)
(* of one page overlap, and so do pages.  The server answers each request  *)
(* at some moment between the two, one at a time; how its own transactions *)
(* overlap is RefreshSessions.                                             *)
(*                                                                         *)
(* A pair of tokens is the number of its issue; 0 is no token.             *)
(***************************************************************************)
EXTENDS Naturals, FiniteSets

CONSTANTS
    Page,       \* open pages (tabs); a page also names its own refresh request
    Call,       \* slots for the other requests of the pages
    PageOf,     \* PageOf[c]: the page that call c belongs to
    Kind,       \* which kinds of call are made
    Adversity,  \* what may go wrong around the client
    MaxPairs    \* bound: the pairs of tokens the server issues

Request == Call \cup Page

ASSUME ClientAssumption ==
    /\ Call \cap Page = {} /\ IsFiniteSet(Call)
    /\ PageOf \in [Call -> Page]
    /\ Kind \subseteq {"plain", "me", "logout", "login"}
    /\ Adversity \subseteq {"network", "session_end", "reload"}
    /\ MaxPairs \in Nat \ {0}

VARIABLES
    access,     \* localStorage: the access token
    refresh,    \* localStorage: the refresh token
    req,        \* req[q]: a request and how far it has come
    refreshing, \* refreshing[p]: isRefreshing of page p
    leaving,    \* leaving[p]: page p has set window.location
    issued,     \* server: how many pairs it has issued
    spent,      \* server: refresh tokens it no longer takes
    stale       \* server: access tokens that have expired

vars == <<access, refresh, req, refreshing, leaving, issued, spent, stale>>
storage == <<access, refresh>>
server == <<issued, spent, stale>>

Pair == 1 .. MaxPairs
State == [phase : {"idle", "sent", "replied", "queued", "leading", "dropped"},
          kind : Kind \cup {"refresh"}, bearer : Pair \cup {0}, retry : BOOLEAN,
          reply : {"none", "ok", "unauthorized", "error"},
          granted : Pair \cup {0}]

TypeOK ==
    /\ access \in Pair \cup {0}
    /\ refresh \in Pair \cup {0}
    /\ req \in [Request -> State]
    /\ \A c \in Call : req[c].phase # "idle" => req[c].kind \in Kind
    /\ refreshing \in [Page -> BOOLEAN]
    /\ leaving \in [Page -> BOOLEAN]
    /\ issued \in Pair
    /\ spent \subseteq Pair
    /\ stale \subseteq Pair

Outgoing(kind, token, retry) ==
    [phase |-> "sent", kind |-> kind, bearer |-> token, retry |-> retry,
     reply |-> "none", granted |-> 0]

Idle == [Outgoing("refresh", 0, FALSE) EXCEPT !.phase = "idle"]

(* One pair has been issued, which the browser still holds or does not.    *)
Init ==
    /\ access \in {0, 1}
    /\ refresh = access
    /\ req = [q \in Request |-> Idle]
    /\ refreshing = [p \in Page |-> FALSE]
    /\ leaving = [p \in Page |-> FALSE]
    /\ issued = 1
    /\ spent = {}
    /\ stale = {}

Home(q) == IF q \in Page THEN q ELSE PageOf[q]
Requests(p) == {q \in Request : Home(q) = p}
Queued(p) == {q \in Requests(p) : req[q].phase = "queued"}
Leaders(p) == {c \in Requests(p) : req[c].phase = "leading"}

-----------------------------------------------------------------------------
(* The server.                                                             *)

Answer(q, reply, granted) ==
    /\ req[q].phase = "sent"
    /\ req' = [req EXCEPT ![q].phase = "replied", ![q].reply = reply,
                          ![q].granted = granted]
    /\ UNCHANGED <<storage, refreshing, leaving>>

(* Any endpoint behind get_current_user.  logout-all revokes every refresh *)
(* token of the user; access tokens stay good until they expire.           *)
ServeCall(c) ==
    /\ req[c].kind \in {"plain", "me", "logout"}
    /\ IF req[c].bearer # 0 /\ req[c].bearer \notin stale
       THEN /\ Answer(c, "ok", 0)
            /\ spent' = IF req[c].kind = "logout" THEN 1 .. issued ELSE spent
       ELSE /\ Answer(c, "unauthorized", 0)
            /\ UNCHANGED spent
    /\ UNCHANGED <<issued, stale>>

(* /login and the codes after it, right or wrong.                          *)
ServeLogin(c) ==
    /\ req[c].kind = "login"
    /\ \/ /\ issued < MaxPairs
          /\ Answer(c, "ok", issued + 1)
          /\ issued' = issued + 1
       \/ /\ Answer(c, "unauthorized", 0)
          /\ UNCHANGED issued
    /\ UNCHANGED <<spent, stale>>

(* /refresh rotates: the token it is given is spent, and a new pair issued.*)
ServeRefresh(p) ==
    /\ IF req[p].bearer \in spent
       THEN /\ Answer(p, "unauthorized", 0)
            /\ UNCHANGED <<issued, spent>>
       ELSE /\ issued < MaxPairs
            /\ Answer(p, "ok", issued + 1)
            /\ issued' = issued + 1
            /\ spent' = spent \cup {req[p].bearer}
    /\ UNCHANGED stale

(* The network or the server fails, before the request was handled or when *)
(* its reply is already on the way.                                        *)
Fail(q) ==
    /\ "network" \in Adversity
    /\ req[q].phase \in {"sent", "replied"}
    /\ req' = [req EXCEPT ![q].phase = "replied", ![q].reply = "error",
                          ![q].granted = 0]
    /\ UNCHANGED <<storage, refreshing, leaving, server>>

(* Bound: as many pairs as there are calls are left unexpired, so that     *)
(* each late 401 still finds a pair to be issued.                          *)
Expire(g) ==
    /\ g \in 1 .. issued \ stale
    /\ g + Cardinality(Call) < MaxPairs
    /\ stale' = stale \cup {g}
    /\ UNCHANGED <<storage, req, refreshing, leaving, issued, spent>>

(* The refresh token expires, or is revoked from elsewhere.                *)
EndSession(g) ==
    /\ "session_end" \in Adversity
    /\ g \in 1 .. issued \ spent
    /\ spent' = spent \cup {g}
    /\ UNCHANGED <<storage, req, refreshing, leaving, issued, stale>>

-----------------------------------------------------------------------------
(* The client.                                                             *)

(* The request interceptor adds the access token stored now.               *)
Send(c, kind) ==
    /\ req[c].phase = "idle"
    /\ req' = [req EXCEPT ![c] = Outgoing(kind, access, FALSE)]
    /\ UNCHANGED <<storage, refreshing, leaving, server>>

Replied(q, reply) == req[q].phase = "replied" /\ req[q].reply = reply
Unauthorized(q) == Replied(q, "unauthorized") /\ ~req[q].retry

Store(g) == access' = g /\ refresh' = g

(* The caller gets its data: setTokens after a login, clearTokens after a  *)
(* logout.                                                                 *)
Resolve(c) ==
    /\ Replied(c, "ok")
    /\ req' = [req EXCEPT ![c] = Idle]
    /\ CASE req[c].kind = "login" -> Store(req[c].granted)
         [] req[c].kind = "logout" -> Store(0)
         [] OTHER -> UNCHANGED storage
    /\ UNCHANGED <<refreshing, leaving, server>>

(* Not a 401, or the 401 of a replay.  fetchUser and logout drop the       *)
(* tokens whatever the error was.                                          *)
Reject(c) ==
    /\ Replied(c, "error") \/ (Replied(c, "unauthorized") /\ req[c].retry)
    /\ req' = [req EXCEPT ![c] = Idle]
    /\ IF req[c].kind \in {"me", "logout"} THEN Store(0) ELSE UNCHANGED storage
    /\ UNCHANGED <<refreshing, leaving, server>>

NoRefreshToken(c) ==
    /\ Unauthorized(c)
    /\ refresh = 0
    /\ req' = [req EXCEPT ![c] = Idle]
    /\ Store(0)
    /\ leaving' = [leaving EXCEPT ![Home(c)] = TRUE]
    /\ UNCHANGED <<refreshing, server>>

(* A 401 while the page refreshes waits for that refresh.  The refresh     *)
(* request goes through the same interceptor: its own 401 comes here too.  *)
Enqueue(q) ==
    /\ Unauthorized(q)
    /\ refresh # 0
    /\ refreshing[Home(q)]
    /\ req' = [req EXCEPT ![q].phase = "queued"]
    /\ UNCHANGED <<storage, refreshing, leaving, server>>

(* Mutant: no look at isRefreshing.                                        *)
LeadAlways(c) ==
    /\ Unauthorized(c)
    /\ refresh # 0
    /\ req' = [req EXCEPT ![c].phase = "leading", ![c].retry = TRUE,
                          ![Home(c)] = Outgoing("refresh", refresh, FALSE)]
    /\ refreshing' = [refreshing EXCEPT ![Home(c)] = TRUE]
    /\ UNCHANGED <<storage, leaving, server>>

Lead(c) ==
    /\ Unauthorized(c)
    /\ refresh # 0
    /\ ~refreshing[Home(c)]
    /\ req' = [req EXCEPT ![c].phase = "leading", ![c].retry = TRUE,
                          ![Home(c)] = Outgoing("refresh", refresh, FALSE)]
    /\ refreshing' = [refreshing EXCEPT ![Home(c)] = TRUE]
    /\ UNCHANGED <<storage, leaving, server>>

(* Mutant: the replay repeats the configuration of the refresh request.    *)
ReplayRefresh(q, token) == Outgoing("refresh", token, req[q].retry)

(* Mutant: the queue is replayed before the new pair is stored.            *)
ReplayBeforeStore(q, token) == Outgoing(req[q].kind, access, req[q].retry)

Replay(q, token) == Outgoing(req[q].kind, token, req[q].retry)

(* Mutant: setRefreshToken is forgotten.                                   *)
RefreshKeepsOldToken(p) ==
    /\ Replied(p, "ok")
    /\ access' = req[p].granted
    /\ req' = [q \in Request |->
                 IF q = p THEN Idle
                 ELSE IF q \in Queued(p) \cup Leaders(p)
                      THEN Replay(q, req[p].granted)
                      ELSE req[q]]
    /\ refreshing' = [refreshing EXCEPT ![p] = FALSE]
    /\ UNCHANGED <<refresh, leaving, server>>

(* Mutant: pendingRequests is emptied before it is replayed.               *)
RefreshForgetsQueue(p) ==
    /\ Replied(p, "ok")
    /\ Store(req[p].granted)
    /\ req' = [q \in Request |->
                 IF q = p THEN Idle
                 ELSE IF q \in Leaders(p) THEN Replay(q, req[p].granted)
                 ELSE IF q \in Queued(p) THEN [req[q] EXCEPT !.phase = "dropped"]
                      ELSE req[q]]
    /\ refreshing' = [refreshing EXCEPT ![p] = FALSE]
    /\ UNCHANGED <<leaving, server>>

(* The await of refreshTokens is over: new pair stored, the queue and the  *)
(* leader replayed, each with the token the interceptor finds in storage.  *)
RefreshSucceeds(p) ==
    /\ Replied(p, "ok")
    /\ Store(req[p].granted)
    /\ req' = [q \in Request |->
                 IF q = p THEN Idle
                 ELSE IF q \in Queued(p) \cup Leaders(p)
                      THEN Replay(q, req[p].granted)
                      ELSE req[q]]
    /\ refreshing' = [refreshing EXCEPT ![p] = FALSE]
    /\ UNCHANGED <<leaving, server>>

(* Mutant: no finally.                                                     *)
RefreshFailsUnfinished(p) ==
    /\ Replied(p, "error") \/ (Unauthorized(p) /\ refresh = 0)
    /\ Store(0)
    /\ req' = [q \in Request |->
                 IF q \in Leaders(p) \cup {p} THEN Idle
                 ELSE IF q \in Queued(p) THEN [req[q] EXCEPT !.phase = "dropped"]
                      ELSE req[q]]
    /\ leaving' = [leaving EXCEPT ![p] = TRUE]
    /\ UNCHANGED <<refreshing, server>>

(* The catch: the leader is rejected, the queue forgotten unsettled.       *)
RefreshFails(p) ==
    /\ Replied(p, "error") \/ (Unauthorized(p) /\ refresh = 0)
    /\ Store(0)
    /\ req' = [q \in Request |->
                 IF q \in Leaders(p) \cup {p} THEN Idle
                 ELSE IF q \in Queued(p) THEN [req[q] EXCEPT !.phase = "dropped"]
                      ELSE req[q]]
    /\ refreshing' = [refreshing EXCEPT ![p] = FALSE]
    /\ leaving' = [leaving EXCEPT ![p] = TRUE]
    /\ UNCHANGED server

(* The page goes: its requests are cancelled and its module starts afresh. *)
Reload(p) ==
    /\ leaving[p] \/ "reload" \in Adversity
    /\ req' = [q \in Request |-> IF q \in Requests(p) THEN Idle ELSE req[q]]
    /\ refreshing' = [refreshing EXCEPT ![p] = FALSE]
    /\ leaving' = [leaving EXCEPT ![p] = FALSE]
    /\ UNCHANGED <<storage, server>>

-----------------------------------------------------------------------------
Serve(q) == \/ q \in Call /\ (ServeCall(q) \/ ServeLogin(q))
            \/ q \in Page /\ ServeRefresh(q)

Receive(q) ==
    \/ Enqueue(q)
    \/ q \in Call /\ (Resolve(q) \/ Reject(q) \/ NoRefreshToken(q) \/ Lead(q))
    \/ q \in Page /\ (RefreshSucceeds(q) \/ RefreshFails(q))

Next ==
    \/ \E c \in Call, kind \in Kind : Send(c, kind)
    \/ \E q \in Request : Serve(q) \/ Receive(q) \/ Fail(q)
    \/ \E g \in Pair : Expire(g) \/ EndSession(g)
    \/ \E p \in Page : Reload(p)

Spec == Init /\ [][Next]_vars

(* Requests are answered, replies handled, and a page that navigates goes. *)
FairSpec ==
    /\ Spec
    /\ \A q \in Request : WF_vars(Serve(q)) /\ WF_vars(Receive(q))
    /\ \A p \in Page : WF_vars(leaving[p] /\ Reload(p))

-----------------------------------------------------------------------------
(* A page refreshes with one request for one leader, and nobody queues     *)
(* behind a refresh that is not running: isRefreshing, pendingRequests and *)
(* the requests under way agree at every await (useApi.ts:37-66).          *)
RefreshIsShared ==
    \A p \in Page :
      /\ Cardinality(Leaders(p)) = IF refreshing[p] THEN 1 ELSE 0
      /\ refreshing[p] <=> req[p].phase # "idle"
      /\ Queued(p) # {} => refreshing[p]

(* The stored refresh token is one that the server still takes, or the     *)
(* page that spent it holds the reply that will replace or clear it; and   *)
(* no reply on its way carries a spent token.                              *)
InGoodHands ==
    /\ refresh \in spent =>
         \E p \in Page : /\ Replied(p, "ok") \/ Replied(p, "error")
                        /\ req[p].bearer = refresh
    /\ \A q \in Request : Replied(q, "ok") => req[q].granted \notin spent

(* What strands a browser with a spent token: a page that goes while its   *)
(* refresh is under way, and a session ended from elsewhere.  No order of  *)
(* replies, logins, failures and refreshes of any number of pages does     *)
(* (useApi.ts:50-66, utils/token.ts:13-25).                                *)
StrandedByLossOnly ==
    [][InGoodHands /\ ~InGoodHands' =>
         \/ \E p \in Page : Reload(p) /\ refreshing[p]
         \/ \E g \in Pair : EndSession(g)
         \/ \E c \in Call : ServeCall(c) /\ req[c].kind = "logout"]_vars

(* A request that is replayed carries a newer token than the one that was  *)
(* refused, although the request interceptor overwrites the header that    *)
(* the replay sets (useApi.ts:13-19, 40, 57).                              *)
ReplayIsNewer ==
    [][\A p \in Page : RefreshSucceeds(p) =>
         \A q \in Queued(p) \cup Leaders(p) : req'[q].bearer > req[q].bearer]_vars

(* A page whose refresh was refused waits for itself: its refresh request  *)
(* is in its own queue, and neither it nor any call that joins it is       *)
(* settled before the page is loaded again (useApi.ts:37-44, 50).          *)
Wedged(p) == req[p].phase = "queued"

WedgedUntilReload ==
    [][\A p \in Page : Wedged(p) /\ ~Reload(p) =>
         /\ Wedged(p)'
         /\ Queued(p) \cup Leaders(p) \subseteq (Queued(p) \cup Leaders(p))']_vars

(* Every call of a page is settled, or its page goes to /login: a refresh  *)
(* replays its whole queue, also when another page has refreshed between.  *)
(* The one exception is the wedged page.                                   *)
EveryCallEnds ==
    \A c \in Call :
      req[c].phase # "idle" ~> req[c].phase = "idle" \/ Wedged(Home(c))
=============================================================================
