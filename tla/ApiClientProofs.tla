---------------------------- MODULE ApiClientProofs ----------------------------
(***************************************************************************)
(* The properties of ApiClient for any pages, calls and number of issued   *)
(* pairs.  A page is either free (nobody leads, nobody queues, no refresh  *)
(* request) or it refreshes for exactly one leader; where nobody logs in,  *)
(* the server takes the newest pair at most (NewestInv); and whatever      *)
(* happens, a pair on its way to a page is nobody else's (FreshInv).       *)
(***************************************************************************)
EXTENDS ApiClient, FiniteSetTheorems, TLAPS

Waiting == {"queued", "leading"}

Free(p) ==
    /\ req[p].phase = "idle"
    /\ \A q \in Requests(p) : req[q].phase \notin Waiting

Refreshing(p) ==
    /\ req[p].phase # "idle" /\ req[p].bearer # 0
    /\ \E c \in Call : Leaders(p) = {c}

SharedInv ==
    \A p \in Page :
      /\ req[p].phase \in {"idle", "sent", "replied", "queued"}
      /\ req[p].kind = "refresh" /\ ~req[p].retry
      /\ IF refreshing[p] THEN Refreshing(p) ELSE Free(p)

IInv == TypeOK /\ SharedInv

-----------------------------------------------------------------------------
LEMMA HomeFacts ==
    ASSUME NEW q \in Request
    PROVE  Home(q) \in Page /\ q \in Requests(Home(q))
BY ClientAssumption DEF Request, Home, Requests

LEMMA PageFacts ==
    ASSUME NEW p \in Page
    PROVE  p \in Request /\ Home(p) = p /\ p \in Requests(p) /\ p \notin Call
BY ClientAssumption DEF Request, Home, Requests

LEMMA StateFacts ==
    ASSUME TypeOK, NEW q \in Request
    PROVE  /\ req[q] \in State /\ DOMAIN req = Request
           /\ req[q].kind \in Kind \cup {"refresh"} /\ req[q].bearer \in Pair \cup {0}
           /\ req[q].granted \in Pair \cup {0} /\ req[q].retry \in BOOLEAN
BY DEF TypeOK, State

LEMMA OutgoingFacts ==
    ASSUME NEW kind \in Kind \cup {"refresh"}, NEW token \in Pair \cup {0},
           NEW retry \in BOOLEAN
    PROVE  /\ Outgoing(kind, token, retry) \in State
           /\ Outgoing(kind, token, retry).phase = "sent"
           /\ Outgoing(kind, token, retry).kind = kind
           /\ Outgoing(kind, token, retry).bearer = token
           /\ Outgoing(kind, token, retry).retry = retry
BY DEF Outgoing, State

LEMMA IdleFacts ==
    /\ Idle \in State /\ Idle.phase = "idle" /\ Idle.kind = "refresh" /\ ~Idle.retry
    /\ Idle.reply = "none" /\ Idle.bearer = 0
BY DEF Idle, Outgoing, State

-----------------------------------------------------------------------------
(* One request moves and no page begins or ends a refresh.                 *)
LEMMA MoveShared ==
    ASSUME IInv, NEW q \in Request, refreshing' = refreshing,
           \A o \in Request \ {q} : req'[o] = req[o],
           req[q].phase # "leading", req'[q].phase # "leading",
           req'[q].phase = "queued" => refreshing[Home(q)],
           q \in Page =>
             /\ req[q].phase # "idle" /\ req'[q].phase \in {"sent", "replied", "queued"}
             /\ req'[q].kind = "refresh" /\ ~req'[q].retry
             /\ req'[q].bearer = req[q].bearer
    PROVE  SharedInv'
<1> SUFFICES ASSUME NEW p \in Page
             PROVE  /\ req'[p].phase \in {"idle", "sent", "replied", "queued"}
                    /\ req'[p].kind = "refresh" /\ ~req'[p].retry
                    /\ IF refreshing[p] THEN Refreshing(p)' ELSE Free(p)'
  BY DEF SharedInv
<1>1. /\ req[p].phase \in {"idle", "sent", "replied", "queued"}
      /\ req[p].kind = "refresh" /\ ~req[p].retry
      /\ IF refreshing[p] THEN Refreshing(p) ELSE Free(p)
  BY DEF IInv, SharedInv
<1>2. p \in Request
  BY PageFacts
<1>3. Requests(p)' = Requests(p) /\ Requests(p) \subseteq Request
  BY DEF Requests
<1>4. Leaders(p)' = Leaders(p)
  BY <1>3 DEF Leaders
<1>5. /\ req'[p].phase = "idle" <=> req[p].phase = "idle"
      /\ req'[p].bearer = req[p].bearer
  BY <1>2
<1>6. ~refreshing[p] => \A o \in Requests(p) : req'[o].phase \notin Waiting
  BY <1>1, <1>3 DEF Free, Waiting, Requests
<1> QED
  BY <1>1, <1>2, <1>3, <1>4, <1>5, <1>6 DEF Refreshing, Free

(* A page's refresh is over, or its page has gone.                         *)
LEMMA EndShared ==
    ASSUME IInv, NEW p \in Page,
           refreshing' = [refreshing EXCEPT ![p] = FALSE],
           req'[p] = Idle,
           \A q \in Requests(p) : req'[q].phase \notin Waiting,
           \A q \in Request \ Requests(p) : req'[q] = req[q]
    PROVE  SharedInv'
<1> SUFFICES ASSUME NEW o \in Page
             PROVE  /\ req'[o].phase \in {"idle", "sent", "replied", "queued"}
                    /\ req'[o].kind = "refresh" /\ ~req'[o].retry
                    /\ IF refreshing'[o] THEN Refreshing(o)' ELSE Free(o)'
  BY DEF SharedInv
<1>1. /\ req[o].phase \in {"idle", "sent", "replied", "queued"}
      /\ req[o].kind = "refresh" /\ ~req[o].retry
      /\ IF refreshing[o] THEN Refreshing(o) ELSE Free(o)
  BY DEF IInv, SharedInv
<1>2. Requests(o)' = Requests(o)
  BY DEF Requests
<1>3. CASE o = p
  <2>1. refreshing'[o] = FALSE
    BY <1>3 DEF IInv, TypeOK
  <2> QED
    BY <1>2, <1>3, <2>1, IdleFacts DEF Free
<1>4. CASE o # p
  <2>1. refreshing'[o] = refreshing[o]
    BY <1>4 DEF IInv, TypeOK
  <2>2. Requests(o) \cap Requests(p) = {} /\ Requests(o) \subseteq Request
    BY <1>4 DEF Requests
  <2>3. \A q \in Requests(o) : req'[q] = req[q]
    BY <2>2
  <2>4. o \in Requests(o)
    BY PageFacts
  <2>5. Leaders(o)' = Leaders(o)
    BY <1>2, <2>3 DEF Leaders
  <2> QED
    BY <1>1, <1>2, <2>1, <2>3, <2>4, <2>5 DEF Refreshing, Free
<1> QED
  BY <1>3, <1>4

-----------------------------------------------------------------------------
(* Every action, as what becomes of one request.                           *)

LEMMA AnswerMoves ==
    ASSUME TypeOK, NEW q \in Request, NEW reply \in {"ok", "unauthorized"},
           NEW g \in Pair \cup {0}, Answer(q, reply, g)
    PROVE  /\ req[q].phase = "sent" /\ req'[q].phase = "replied"
           /\ req'[q].kind = req[q].kind /\ req'[q].bearer = req[q].bearer
           /\ req'[q].retry = req[q].retry
           /\ req'[q].reply = reply /\ req'[q].granted = g
           /\ req'[q] \in State /\ req' \in [Request -> State]
           /\ \A o \in Request \ {q} : req'[o] = req[o]
           /\ UNCHANGED <<storage, refreshing, leaving>>
<1>1. req[q] \in State /\ req \in [Request -> State]
  BY DEF TypeOK
<1>2. /\ req' = [req EXCEPT ![q].phase = "replied", ![q].reply = reply, ![q].granted = g]
      /\ req[q].phase = "sent" /\ UNCHANGED <<storage, refreshing, leaving>>
  BY DEF Answer
<1>3. req'[q] = [req[q] EXCEPT !.phase = "replied", !.reply = reply, !.granted = g]
  BY <1>1, <1>2
<1>4. [req[q] EXCEPT !.phase = "replied", !.reply = reply, !.granted = g] \in State
  BY <1>1 DEF State
<1>5. req' \in [Request -> State] /\ \A o \in Request \ {q} : req'[o] = req[o]
  BY <1>1, <1>2, <1>3, <1>4
<1> QED
  BY <1>1, <1>2, <1>3, <1>4, <1>5 DEF State

(* What a served request leaves of the server.                             *)
LEMMA ServeStep ==
    ASSUME IInv, NEW q \in Request, Serve(q)
    PROVE  /\ \E reply \in {"ok", "unauthorized"}, g \in Pair \cup {0} : Answer(q, reply, g)
           /\ issued' \in Pair /\ spent' \subseteq Pair /\ stale' = stale
           /\ q \in Call => req[q].kind \in Kind
<1>1. issued \in Pair /\ spent \subseteq Pair /\ TypeOK
  BY DEF IInv, TypeOK
<1>2. issued < MaxPairs => issued + 1 \in Pair
  BY <1>1, ClientAssumption DEF Pair
<1>3. 1 .. issued \subseteq Pair
  BY <1>1, ClientAssumption DEF Pair
<1>4. req[q].phase = "sent" /\ q \in Call => req[q].kind \in Kind
  BY <1>1 DEF TypeOK
<1>5. CASE q \in Call /\ ServeCall(q)
  BY <1>1, <1>3, <1>4, <1>5 DEF ServeCall, Answer
<1>6. CASE q \in Call /\ ServeLogin(q)
  BY <1>1, <1>2, <1>4, <1>6 DEF ServeLogin, Answer
<1>7. CASE q \in Page /\ ServeRefresh(q)
  <2>1. req[q].bearer \in Pair \cup {0}
    BY <1>1, StateFacts
  <2>2. req[q].phase = "sent" => req[q].bearer # 0
    BY <1>7 DEF IInv, SharedInv, Refreshing, Free
  <2>3. CASE req[q].bearer \in spent
    BY <1>1, <1>7, <2>3, PageFacts DEF ServeRefresh
  <2>4. CASE req[q].bearer \notin spent
    <3>1. issued + 1 \in Pair /\ Answer(q, "ok", issued + 1) /\ issued' = issued + 1
          /\ spent' = spent \cup {req[q].bearer} /\ stale' = stale
      BY <1>2, <1>7, <2>4 DEF ServeRefresh
    <3>2. req[q].phase = "sent"
      BY <3>1 DEF Answer
    <3> QED
      BY <1>1, <1>7, <2>1, <2>2, <3>1, <3>2, PageFacts
  <2> QED
    BY <2>3, <2>4
<1> QED
  BY <1>5, <1>6, <1>7 DEF Serve

(* A request whose record is replaced, with what it does to the tokens.    *)
LEMMA MoveInv ==
    ASSUME IInv, NEW q \in Request, refreshing' = refreshing,
           req' \in [Request -> State],
           \A o \in Request \ {q} : req'[o] = req[o],
           req[q].phase # "leading", req'[q].phase # "leading",
           req'[q].phase = "queued" => refreshing[Home(q)],
           q \in Page =>
             /\ req[q].phase # "idle" /\ req'[q].phase \in {"sent", "replied", "queued"}
             /\ req'[q].kind = "refresh" /\ ~req'[q].retry
             /\ req'[q].bearer = req[q].bearer,
           q \in Call /\ req'[q].phase # "idle" => req'[q].kind \in Kind,
           access' \in Pair \cup {0}, refresh' \in Pair \cup {0},
           leaving' \in [Page -> BOOLEAN],
           issued' \in Pair, spent' \subseteq Pair, stale' \subseteq Pair
    PROVE  IInv'
<1>1. SharedInv'
  BY MoveShared
<1>2. \A c \in Call : req'[c].phase # "idle" => req'[c].kind \in Kind
  <2> SUFFICES ASSUME NEW c \in Call, c # q, req'[c].phase # "idle"
               PROVE  req'[c].kind \in Kind
    OBVIOUS
  <2>1. c \in Request
    BY DEF Request
  <2> QED
    BY <2>1 DEF IInv, TypeOK
<1> QED
  BY <1>1, <1>2 DEF IInv, TypeOK

LEMMA TypesOf ==
    ASSUME IInv
    PROVE  /\ TypeOK /\ req \in [Request -> State]
           /\ access \in Pair \cup {0} /\ refresh \in Pair \cup {0} /\ 0 \in Pair \cup {0}
           /\ refreshing \in [Page -> BOOLEAN] /\ leaving \in [Page -> BOOLEAN]
           /\ issued \in Pair /\ spent \subseteq Pair /\ stale \subseteq Pair
           /\ \A c \in Call : c \in Request /\ c \notin Page
           /\ \A c \in Call : req[c].phase # "idle" => req[c].kind \in Kind
           /\ \A p \in Page : /\ req[p].kind = "refresh" /\ ~req[p].retry
                              /\ req[p].phase \in {"idle", "sent", "replied", "queued"}
BY ClientAssumption DEF IInv, TypeOK, SharedInv, Request

LEMMA FailedFacts ==
    ASSUME NEW s \in State, NEW n,
           n = [s EXCEPT !.phase = "replied", !.reply = "error", !.granted = 0]
    PROVE  /\ n \in State /\ n.phase = "replied" /\ n.kind = s.kind
           /\ n.retry = s.retry /\ n.bearer = s.bearer /\ n.reply = "error"
BY DEF State

LEMMA DroppedFacts ==
    ASSUME NEW s \in State, NEW n, n = [s EXCEPT !.phase = "dropped"]
    PROVE  n \in State /\ n.phase = "dropped" /\ n.kind = s.kind
BY DEF State

LEMMA LeadingFacts ==
    ASSUME NEW s \in State, NEW n, n = [s EXCEPT !.phase = "leading", !.retry = TRUE]
    PROVE  /\ n \in State /\ n.phase = "leading" /\ n.kind = s.kind
           /\ n.bearer = s.bearer
BY DEF State

LEMMA ServeInv ==
    ASSUME IInv, NEW q \in Request, Serve(q) PROVE IInv'
<1>1. PICK reply \in {"ok", "unauthorized"}, g \in Pair \cup {0} : Answer(q, reply, g)
  BY ServeStep
<1>2. /\ req[q].phase = "sent" /\ req'[q].phase = "replied"
      /\ req'[q].kind = req[q].kind /\ req'[q].bearer = req[q].bearer
      /\ req'[q].retry = req[q].retry
      /\ req' \in [Request -> State]
      /\ \A o \in Request \ {q} : req'[o] = req[o]
      /\ UNCHANGED <<access, refresh, refreshing, leaving>>
  BY <1>1, AnswerMoves, TypesOf DEF storage
<1>3. issued' \in Pair /\ spent' \subseteq Pair /\ stale' \subseteq Pair
  BY ServeStep, TypesOf
<1>4. q \in Call => req[q].kind \in Kind
  BY ServeStep
<1>5. q \in Page => req[q].kind = "refresh" /\ ~req[q].retry
  BY TypesOf
<1>6. access' \in Pair \cup {0} /\ refresh' \in Pair \cup {0} /\ leaving' \in [Page -> BOOLEAN]
  BY <1>2, TypesOf
<1> QED
  BY <1>2, <1>3, <1>4, <1>5, <1>6, MoveInv

LEMMA FailInv ==
    ASSUME IInv, NEW q \in Request, Fail(q) PROVE IInv'
<1>1. /\ req[q].phase \in {"sent", "replied"} /\ req[q] \in State
      /\ req' = [req EXCEPT ![q].phase = "replied", ![q].reply = "error", ![q].granted = 0]
      /\ UNCHANGED <<access, refresh, refreshing, leaving, issued, spent, stale>>
  BY TypesOf DEF Fail, storage, server
<1>2. req'[q] = [req[q] EXCEPT !.phase = "replied", !.reply = "error", !.granted = 0]
  BY <1>1, TypesOf
<1>3. /\ req'[q] \in State /\ req'[q].phase = "replied" /\ req'[q].kind = req[q].kind
      /\ req'[q].retry = req[q].retry /\ req'[q].bearer = req[q].bearer
  BY <1>1, <1>2, FailedFacts
<1>4. req' \in [Request -> State] /\ \A o \in Request \ {q} : req'[o] = req[o]
  BY <1>1, <1>2, <1>3, TypesOf
<1>5. q \in Call => req[q].kind \in Kind
  BY <1>1, TypesOf
<1>6. q \in Page => req[q].kind = "refresh" /\ ~req[q].retry
  BY TypesOf
<1> QED
  BY <1>1, <1>3, <1>4, <1>5, <1>6, MoveInv, TypesOf

LEMMA SendInv ==
    ASSUME IInv, NEW c \in Call, NEW kind \in Kind, Send(c, kind) PROVE IInv'
<1>1. /\ req[c].phase = "idle" /\ req' = [req EXCEPT ![c] = Outgoing(kind, access, FALSE)]
      /\ UNCHANGED <<access, refresh, refreshing, leaving, issued, spent, stale>>
  BY DEF Send, storage, server
<1>2. /\ Outgoing(kind, access, FALSE) \in State
      /\ Outgoing(kind, access, FALSE).phase = "sent"
      /\ Outgoing(kind, access, FALSE).kind = kind
  <2>1. kind \in Kind \cup {"refresh"} /\ access \in Pair \cup {0} /\ FALSE \in BOOLEAN
    BY TypesOf
  <2> QED
    BY <2>1, OutgoingFacts
<1>3. /\ req' \in [Request -> State] /\ \A o \in Request \ {c} : req'[o] = req[o]
      /\ req'[c].phase = "sent" /\ req'[c].kind = kind /\ c \in Request /\ c \notin Page
  BY <1>1, <1>2, TypesOf
<1> QED
  BY <1>1, <1>3, MoveInv, TypesOf

(* A call is over, whatever that does to the tokens.                       *)
LEMMA OverInv ==
    ASSUME IInv, NEW c \in Call, req[c].phase = "replied",
           req' = [req EXCEPT ![c] = Idle],
           access' \in Pair \cup {0}, refresh' \in Pair \cup {0},
           leaving' \in [Page -> BOOLEAN], UNCHANGED <<refreshing, issued, spent, stale>>
    PROVE  IInv'
<1>1. /\ req' \in [Request -> State] /\ \A o \in Request \ {c} : req'[o] = req[o]
      /\ req'[c].phase = "idle" /\ c \in Request /\ c \notin Page
  BY TypesOf, IdleFacts
<1> QED
  BY <1>1, MoveInv, TypesOf

LEMMA EnqueueInv ==
    ASSUME IInv, NEW q \in Request, Enqueue(q) PROVE IInv'
<1>1. /\ req[q].phase = "replied" /\ req[q] \in State /\ refreshing[Home(q)]
      /\ req' = [req EXCEPT ![q].phase = "queued"]
      /\ UNCHANGED <<access, refresh, refreshing, leaving, issued, spent, stale>>
  BY TypesOf DEF Enqueue, Unauthorized, Replied, storage, server
<1>2. req'[q] = [req[q] EXCEPT !.phase = "queued"]
  BY <1>1, TypesOf
<1>3. /\ req'[q] \in State /\ req'[q].phase = "queued" /\ req'[q].kind = req[q].kind
      /\ req'[q].retry = req[q].retry /\ req'[q].bearer = req[q].bearer
  BY <1>1, <1>2 DEF State
<1>4. req' \in [Request -> State] /\ \A o \in Request \ {q} : req'[o] = req[o]
  BY <1>1, <1>2, <1>3, TypesOf
<1>5. q \in Call => req[q].kind \in Kind
  BY <1>1, TypesOf
<1>6. q \in Page => req[q].kind = "refresh" /\ ~req[q].retry
  BY TypesOf
<1> QED
  BY <1>1, <1>3, <1>4, <1>5, <1>6, MoveInv, TypesOf

(* A call leads: its page was free, and has one leader now.                *)
LEMMA LeadFacts ==
    ASSUME IInv, NEW c \in Call, Lead(c)
    PROVE  LET p == Home(c) IN
           /\ p \in Page /\ p # c /\ c \in Request /\ ~refreshing[p] /\ refresh # 0
           /\ req' \in [Request -> State]
           /\ req'[c].phase = "leading" /\ req'[c].kind = req[c].kind
           /\ req'[c].bearer = req[c].bearer
           /\ req'[p] = Outgoing("refresh", refresh, FALSE)
           /\ \A o \in Request \ {c, p} : req'[o] = req[o]
           /\ req[c].phase = "replied"
           /\ refreshing' = [refreshing EXCEPT ![p] = TRUE]
           /\ UNCHANGED <<access, refresh, leaving, issued, spent, stale>>
<1> DEFINE p == Home(c)
           n == [req[c] EXCEPT !.phase = "leading", !.retry = TRUE]
<1>1. p \in Page /\ p # c /\ c \in Request /\ p \in Request
  BY HomeFacts, TypesOf, PageFacts
<1>2. /\ req' = [req EXCEPT ![c].phase = "leading", ![c].retry = TRUE,
                           ![p] = Outgoing("refresh", refresh, FALSE)]
      /\ req[c].phase = "replied" /\ refresh # 0 /\ ~refreshing[p]
      /\ refreshing' = [refreshing EXCEPT ![p] = TRUE]
      /\ UNCHANGED <<access, refresh, leaving, issued, spent, stale>>
  BY DEF Lead, Unauthorized, Replied, storage, server
<1>3. n \in State /\ n.phase = "leading" /\ n.kind = req[c].kind
      /\ n.bearer = req[c].bearer
  BY <1>1, TypesOf, LeadingFacts
<1>4. Outgoing("refresh", refresh, FALSE) \in State
  BY OutgoingFacts, TypesOf
<1> HIDE DEF p
<1>5. req'[c] = n /\ req'[p] = Outgoing("refresh", refresh, FALSE)
      /\ \A o \in Request \ {c, p} : req'[o] = req[o]
  BY <1>1, <1>2, TypesOf
<1>6. req' \in [Request -> State]
  <2>1. DOMAIN req' = Request /\ req' = [o \in DOMAIN req' |-> req'[o]]
    BY <1>2, TypesOf
  <2> HIDE DEF n
  <2> QED
    BY <1>3, <1>4, <1>5, <2>1, TypesOf
<1> HIDE DEF n
<1> QED
  BY <1>1, <1>2, <1>3, <1>5, <1>6 DEF p

LEMMA LeadInv ==
    ASSUME IInv, NEW c \in Call, Lead(c) PROVE IInv'
<1> DEFINE p == Home(c)
<1>1. /\ p \in Page /\ p # c /\ c \in Request /\ ~refreshing[p] /\ refresh # 0
      /\ req' \in [Request -> State]
      /\ req'[c].phase = "leading" /\ req'[c].kind = req[c].kind
      /\ req'[p] = Outgoing("refresh", refresh, FALSE)
      /\ \A o \in Request \ {c, p} : req'[o] = req[o]
      /\ req[c].phase = "replied"
      /\ refreshing' = [refreshing EXCEPT ![p] = TRUE]
      /\ UNCHANGED <<access, refresh, leaving, issued, spent, stale>>
  BY LeadFacts
<1>2. /\ req'[p].phase = "sent" /\ req'[p].kind = "refresh" /\ ~req'[p].retry
      /\ req'[p].bearer = refresh
  <2> HIDE DEF p
  <2> QED
    BY <1>1 DEF Outgoing
<1>3. Home(c)' = p /\ \A o \in Page : Requests(o)' = Requests(o)
  BY DEF Requests, Home
<1> HIDE DEF p
<1>4. ASSUME NEW o \in Page
      PROVE  /\ req'[o].phase \in {"idle", "sent", "replied", "queued"}
             /\ req'[o].kind = "refresh" /\ ~req'[o].retry
             /\ IF refreshing'[o] THEN Refreshing(o)' ELSE Free(o)'
  <2>1. IF refreshing[o] THEN Refreshing(o) ELSE Free(o)
    BY DEF IInv, SharedInv
  <2>2. CASE o = p
    <3>1. \A q \in Requests(p) : req[q].phase # "leading"
      BY <1>1, <2>1, <2>2 DEF Free, Waiting
    <3>2. c \in Requests(p) /\ Requests(p) \subseteq Request
      BY <1>1, HomeFacts DEF p, Requests
    <3>3. Leaders(p)' = {c}
      BY <1>1, <1>2, <1>3, <3>1, <3>2 DEF Leaders
    <3>4. refreshing'[p] = TRUE
      BY <1>1, TypesOf
    <3> QED
      BY <1>1, <1>2, <2>2, <3>3, <3>4 DEF Refreshing
  <2>3. CASE o # p
    <3>1. Requests(o) \cap {c, p} = {} /\ Requests(o) \subseteq Request /\ o \in Requests(o)
      BY <1>1, <2>3, PageFacts DEF Requests, p
    <3>2. \A q \in Requests(o) : req'[q] = req[q]
      BY <1>1, <3>1
    <3>3. Leaders(o)' = Leaders(o)
      BY <1>3, <3>2 DEF Leaders
    <3>4. refreshing'[o] = refreshing[o]
      BY <1>1, <2>3, TypesOf
    <3>5. /\ req[o].phase \in {"idle", "sent", "replied", "queued"}
          /\ req[o].kind = "refresh" /\ ~req[o].retry
      BY TypesOf
    <3> QED
      BY <1>3, <2>1, <3>1, <3>2, <3>3, <3>4, <3>5 DEF Refreshing, Free
  <2> QED
    BY <2>2, <2>3
<1>5. SharedInv'
  BY <1>4 DEF SharedInv
<1>6. \A d \in Call : req'[d].phase # "idle" => req'[d].kind \in Kind
  BY <1>1, TypesOf
<1>7. refreshing' \in [Page -> BOOLEAN]
  BY <1>1, TypesOf
<1> QED
  BY <1>1, <1>5, <1>6, <1>7, TypesOf DEF IInv, TypeOK

(* A page's refresh ends, or the page goes, and its requests with it.      *)
LEMMA EndInv ==
    ASSUME IInv, NEW p \in Page, NEW f,
           req' = [q \in Request |-> f[q]],
           \A q \in Request : f[q] \in State,
           refreshing' = [refreshing EXCEPT ![p] = FALSE],
           f[p] = Idle,
           \A q \in Requests(p) : f[q].phase \notin Waiting,
           \A q \in Request \ Requests(p) : f[q] = req[q],
           \A c \in Call : f[c].phase # "idle" => f[c].kind \in Kind,
           access' \in Pair \cup {0}, refresh' \in Pair \cup {0},
           leaving' \in [Page -> BOOLEAN], UNCHANGED server
    PROVE  IInv'
<1>1. p \in Request /\ Requests(p) \subseteq Request /\ Call \subseteq Request
  BY PageFacts DEF Requests, Request
<1>2. SharedInv'
  BY <1>1, EndShared
<1>3. refreshing' \in [Page -> BOOLEAN] /\ req' \in [Request -> State]
  BY TypesOf
<1>4. UNCHANGED <<issued, spent, stale>>
  BY DEF server
<1> QED
  BY <1>1, <1>2, <1>3, <1>4, TypesOf DEF IInv, TypeOK

LEMMA ReplayFacts ==
    ASSUME IInv, NEW q \in Request, NEW g \in Pair \cup {0}
    PROVE  /\ Replay(q, g) \in State /\ Replay(q, g).phase = "sent"
           /\ Replay(q, g).kind = req[q].kind /\ Replay(q, g).bearer = g
<1>1. req[q].kind \in Kind \cup {"refresh"} /\ req[q].retry \in BOOLEAN
  BY TypesOf, StateFacts
<1> QED
  BY <1>1, OutgoingFacts DEF Replay

LEMMA RefreshSucceedsInv ==
    ASSUME IInv, NEW p \in Page, RefreshSucceeds(p) PROVE IInv'
<1> DEFINE f == [q \in Request |->
                   IF q = p THEN Idle
                   ELSE IF q \in Queued(p) \cup Leaders(p)
                        THEN Replay(q, req[p].granted) ELSE req[q]]
<1>1. /\ req' = f /\ req' = [q \in Request |-> f[q]]
      /\ refreshing' = [refreshing EXCEPT ![p] = FALSE]
      /\ access' = req[p].granted /\ refresh' = req[p].granted
      /\ UNCHANGED <<leaving, server>>
  BY DEF RefreshSucceeds, Store
<1>2. p \in Request /\ p \notin Call /\ req[p].granted \in Pair \cup {0}
  BY PageFacts, StateFacts, TypesOf
<1>3. ASSUME NEW q \in Request
      PROVE  /\ f[q] \in State
             /\ q = p => f[q] = Idle
             /\ q \in Requests(p) => f[q].phase \notin Waiting
             /\ q \notin Requests(p) => f[q] = req[q]
             /\ q \in Call /\ f[q].phase # "idle" => f[q].kind \in Kind
  <2>1. CASE q = p
    BY <1>2, <2>1, IdleFacts, PageFacts DEF Waiting
  <2>2. CASE q # p /\ q \in Queued(p) \cup Leaders(p)
    <3>1. /\ f[q] = Replay(q, req[p].granted) /\ q \in Requests(p)
          /\ req[q].phase # "idle"
      BY <2>2 DEF Queued, Leaders
    <3> QED
      BY <1>2, <2>2, <3>1, ReplayFacts, TypesOf DEF Waiting
  <2>3. CASE q # p /\ q \notin Queued(p) \cup Leaders(p)
    <3>1. f[q] = req[q]
      BY <2>3
    <3> QED
      BY <2>3, <3>1, TypesOf DEF Waiting, Queued, Leaders
  <2> QED
    BY <2>1, <2>2, <2>3
<1>4. \A c \in Call : c \in Request
  BY TypesOf
<1>5. leaving' \in [Page -> BOOLEAN]
  BY <1>1, TypesOf
<1> HIDE DEF f
<1>6. \A q \in Requests(p) : q \in Request
  BY DEF Requests
<1> QED
  BY <1>1, <1>2, <1>3, <1>4, <1>5, <1>6, EndInv

LEMMA RefreshFailsInv ==
    ASSUME IInv, NEW p \in Page, RefreshFails(p) PROVE IInv'
<1> DEFINE f == [q \in Request |->
                   IF q \in Leaders(p) \cup {p} THEN Idle
                   ELSE IF q \in Queued(p) THEN [req[q] EXCEPT !.phase = "dropped"]
                        ELSE req[q]]
<1>1. /\ req' = f /\ req' = [q \in Request |-> f[q]]
      /\ refreshing' = [refreshing EXCEPT ![p] = FALSE]
      /\ access' = 0 /\ refresh' = 0
      /\ leaving' = [leaving EXCEPT ![p] = TRUE] /\ UNCHANGED server
  BY DEF RefreshFails, Store
<1>2. p \in Request /\ p \notin Call
  BY PageFacts
<1>3. ASSUME NEW q \in Request
      PROVE  /\ f[q] \in State
             /\ q = p => f[q] = Idle
             /\ q \in Requests(p) => f[q].phase \notin Waiting
             /\ q \notin Requests(p) => f[q] = req[q]
             /\ q \in Call /\ f[q].phase # "idle" => f[q].kind \in Kind
  <2>1. CASE q \in Leaders(p) \cup {p}
    BY <1>2, <2>1, IdleFacts, PageFacts DEF Waiting, Leaders
  <2>2. CASE q \notin Leaders(p) \cup {p} /\ q \in Queued(p)
    <3>1. /\ f[q] = [req[q] EXCEPT !.phase = "dropped"] /\ q \in Requests(p)
          /\ req[q].phase # "idle" /\ req[q] \in State /\ q # p
      BY <2>2, TypesOf DEF Queued
    <3>2. f[q] \in State /\ f[q].phase = "dropped" /\ f[q].kind = req[q].kind
      BY <3>1, DroppedFacts
    <3> QED
      BY <3>1, <3>2, TypesOf DEF Waiting
  <2>3. CASE q \notin Leaders(p) \cup {p} /\ q \notin Queued(p)
    <3>1. f[q] = req[q]
      BY <2>3
    <3> QED
      BY <2>3, <3>1, TypesOf DEF Waiting, Queued, Leaders
  <2> QED
    BY <2>1, <2>2, <2>3
<1>4. \A c \in Call : c \in Request
  BY TypesOf
<1>5. leaving' \in [Page -> BOOLEAN] /\ access' \in Pair \cup {0} /\ refresh' \in Pair \cup {0}
  BY <1>1, TypesOf
<1> HIDE DEF f
<1>6. \A q \in Requests(p) : q \in Request
  BY DEF Requests
<1> QED
  BY <1>1, <1>2, <1>3, <1>4, <1>5, <1>6, EndInv

LEMMA ReloadInv ==
    ASSUME IInv, NEW p \in Page, Reload(p) PROVE IInv'
<1> DEFINE f == [q \in Request |-> IF q \in Requests(p) THEN Idle ELSE req[q]]
<1>1. /\ req' = f /\ req' = [q \in Request |-> f[q]]
      /\ refreshing' = [refreshing EXCEPT ![p] = FALSE]
      /\ leaving' = [leaving EXCEPT ![p] = FALSE]
      /\ UNCHANGED <<access, refresh>> /\ UNCHANGED server
  BY DEF Reload, storage
<1>2. p \in Requests(p) /\ p \in Request /\ \A q \in Requests(p) : q \in Request
  BY PageFacts DEF Requests
<1>3. \A q \in Request : f[q] \in State
  BY IdleFacts, TypesOf
<1>4. f[p] = Idle /\ \A q \in Requests(p) : f[q].phase \notin Waiting
  BY <1>2, IdleFacts DEF Waiting
<1>5. /\ \A q \in Request \ Requests(p) : f[q] = req[q]
      /\ \A c \in Call : f[c].phase # "idle" => f[c].kind \in Kind
  BY IdleFacts, TypesOf
<1>6. leaving' \in [Page -> BOOLEAN] /\ access' \in Pair \cup {0} /\ refresh' \in Pair \cup {0}
  BY <1>1, TypesOf
<1> HIDE DEF f
<1> QED
  BY <1>1, <1>3, <1>4, <1>5, <1>6, EndInv

LEMMA ReceiveInv ==
    ASSUME IInv, NEW q \in Request, Receive(q) PROVE IInv'
<1>1. CASE q \in Call /\ Resolve(q)
  <2>1. /\ req[q].phase = "replied" /\ req' = [req EXCEPT ![q] = Idle]
        /\ UNCHANGED <<refreshing, leaving, issued, spent, stale>>
    BY <1>1 DEF Resolve, Replied, server
  <2>2. req[q].granted \in Pair \cup {0} /\ 0 \in Pair \cup {0}
    BY StateFacts, TypesOf
  <2>3. access' \in Pair \cup {0} /\ refresh' \in Pair \cup {0}
    BY <1>1, <2>2, TypesOf DEF Resolve, Store, storage
  <2> QED
    BY <1>1, <2>1, <2>3, OverInv, TypesOf
<1>2. CASE q \in Call /\ Reject(q)
  <2>1. /\ req[q].phase = "replied" /\ req' = [req EXCEPT ![q] = Idle]
        /\ UNCHANGED <<refreshing, leaving, issued, spent, stale>>
        /\ access' \in {0, access} /\ refresh' \in {0, refresh}
    BY <1>2 DEF Reject, Replied, server, Store, storage
  <2> QED
    BY <1>2, <2>1, OverInv, TypesOf
<1>3. CASE q \in Call /\ NoRefreshToken(q)
  <2>1. /\ req[q].phase = "replied" /\ req' = [req EXCEPT ![q] = Idle]
        /\ UNCHANGED <<refreshing, issued, spent, stale>>
        /\ access' = 0 /\ refresh' = 0
        /\ leaving' = [leaving EXCEPT ![Home(q)] = TRUE]
    BY <1>3 DEF NoRefreshToken, Unauthorized, Replied, server, Store
  <2>2. leaving' \in [Page -> BOOLEAN]
    BY <2>1, TypesOf
  <2> QED
    BY <1>3, <2>1, <2>2, OverInv, TypesOf
<1> QED
  BY <1>1, <1>2, <1>3, EnqueueInv, LeadInv, RefreshSucceedsInv, RefreshFailsInv
     DEF Receive

LEMMA OutsideInv ==
    ASSUME IInv, NEW g \in Pair, Expire(g) \/ EndSession(g) PROVE IInv'
<1>1. /\ UNCHANGED <<access, refresh, req, refreshing, leaving, issued>>
      /\ spent' \subseteq spent \cup {g} /\ stale' \subseteq stale \cup {g}
  BY DEF Expire, EndSession, storage
<1>2. SharedInv'
  BY <1>1 DEF IInv, SharedInv, Free, Refreshing, Leaders, Requests, Home
<1> QED
  BY <1>1, <1>2 DEF IInv, TypeOK

LEMMA InitIInv == Init => IInv
<1> SUFFICES ASSUME Init PROVE IInv
  OBVIOUS
<1>1. \A q \in Request : req[q] = Idle
  BY DEF Init
<1>2. 1 \in Pair
  BY ClientAssumption DEF Pair
<1>3. TypeOK
  BY <1>1, <1>2, IdleFacts DEF Init, TypeOK, Request
<1>4. SharedInv
  BY <1>1, IdleFacts DEF Init, SharedInv, Free, Waiting, Requests, Request
<1> QED
  BY <1>3, <1>4 DEF IInv

LEMMA NextIInv == IInv /\ [Next]_vars => IInv'
<1> SUFFICES ASSUME IInv, [Next]_vars PROVE IInv'
  OBVIOUS
<1>1. CASE UNCHANGED vars
  BY <1>1 DEF vars, IInv, TypeOK, SharedInv, Free, Refreshing, Leaders, Requests, Home
<1> QED
  BY <1>1, SendInv, ServeInv, ReceiveInv, FailInv, OutsideInv, ReloadInv DEF Next

THEOREM Invariance == Spec => []IInv
BY InitIInv, NextIInv, PTL DEF Spec

(* Every variable keeps its type; a refresh request has a token to send.   *)
THEOREM TypeCorrect == Spec => []TypeOK
BY Invariance, PTL DEF IInv

(* Whatever fails, logs in or out, or reloads: a page refreshes once at a  *)
(* time, for one leader, and nobody queues at a page that does not.        *)
THEOREM RefreshesAreShared == Spec => []RefreshIsShared
<1>1. IInv => RefreshIsShared
  <2> SUFFICES ASSUME IInv, NEW p \in Page
               PROVE  /\ Cardinality(Leaders(p)) = IF refreshing[p] THEN 1 ELSE 0
                      /\ refreshing[p] <=> req[p].phase # "idle"
                      /\ Queued(p) # {} => refreshing[p]
    BY DEF RefreshIsShared
  <2>1. IF refreshing[p] THEN Refreshing(p) ELSE Free(p)
    BY DEF IInv, SharedInv
  <2>2. refreshing[p] \in BOOLEAN
    BY TypesOf
  <2>3. CASE refreshing[p]
    BY <2>1, <2>3, FS_Singleton DEF Refreshing
  <2>4. CASE ~refreshing[p]
    <3>1. Leaders(p) = {} /\ Queued(p) = {}
      BY <2>1, <2>4 DEF Free, Waiting, Leaders, Queued
    <3> QED
      BY <2>1, <2>4, <3>1, FS_EmptySet DEF Free
  <2> QED
    BY <2>2, <2>3, <2>4
<1> QED
  BY <1>1, Invariance, PTL

-----------------------------------------------------------------------------
(* What moves a request that waits.                                        *)

(* A step that only replaces the record of a request that does not wait.   *)
LEMMA WaitersStay ==
    ASSUME IInv, [Next]_vars, NEW p \in Page, req[p].phase = "queued", ~Reload(p),
           NEW q \in Requests(p), req[q].phase \in Waiting
    PROVE  req'[q].phase = req[q].phase
<1>1. q \in Request /\ Home(q) = p /\ p \in Request
  BY PageFacts DEF Requests
<1>2. refreshing[p]
  BY DEF IInv, SharedInv, Free
<1>3. ASSUME NEW c \in Call, NEW kind \in Kind, Send(c, kind)
      PROVE  req'[q].phase = req[q].phase
  BY <1>1, <1>3, TypesOf DEF Send, Waiting
<1>4. ASSUME NEW o \in Request, Serve(o) PROVE req'[q].phase = req[q].phase
  <2>1. PICK reply \in {"ok", "unauthorized"}, g \in Pair \cup {0} : Answer(o, reply, g)
    BY <1>4, ServeStep
  <2>2. req[o].phase = "sent" /\ \A x \in Request \ {o} : req'[x] = req[x]
    BY <2>1, AnswerMoves, TypesOf
  <2> QED
    BY <1>1, <2>2 DEF Waiting
<1>5. ASSUME NEW o \in Request, Fail(o) PROVE req'[q].phase = req[q].phase
  BY <1>1, <1>5, TypesOf DEF Fail, Waiting
<1>6. ASSUME NEW o \in Request, Receive(o) PROVE req'[q].phase = req[q].phase
  <2>1. CASE Enqueue(o)
    BY <1>1, <2>1, TypesOf DEF Enqueue, Unauthorized, Replied, Waiting
  <2>2. CASE o \in Call /\ (Resolve(o) \/ Reject(o) \/ NoRefreshToken(o))
    BY <1>1, <2>2, TypesOf DEF Resolve, Reject, NoRefreshToken, Unauthorized, Replied, Waiting
  <2>3. CASE o \in Call /\ Lead(o)
    <3>1. /\ \A x \in Request \ {o, Home(o)} : req'[x] = req[x]
          /\ req[o].phase = "replied" /\ ~refreshing[Home(o)]
      BY <2>3, LeadFacts
    <3>2. q # Home(o)
      BY <1>1, <1>2, <2>3, <3>1, HomeFacts, PageFacts
    <3> QED
      BY <1>1, <3>1, <3>2 DEF Waiting
  <2>4. CASE o \in Page /\ (RefreshSucceeds(o) \/ RefreshFails(o))
    <3>1. o # p
      BY <2>4 DEF RefreshSucceeds, RefreshFails, Unauthorized, Replied
    <3>2. q \notin Requests(o) /\ q # o
      BY <1>1, <2>4, <3>1, PageFacts DEF Requests
    <3>3. q \notin Queued(o) \cup Leaders(o)
      BY <3>2 DEF Queued, Leaders
    <3> QED
      BY <1>1, <2>4, <3>2, <3>3 DEF RefreshSucceeds, RefreshFails
  <2> QED
    BY <1>6, <2>1, <2>2, <2>3, <2>4 DEF Receive
<1>7. ASSUME NEW g \in Pair, Expire(g) \/ EndSession(g) PROVE req'[q].phase = req[q].phase
  BY <1>7 DEF Expire, EndSession
<1>8. ASSUME NEW o \in Page, Reload(o) PROVE req'[q].phase = req[q].phase
  <2>1. q \notin Requests(o)
    BY <1>1, <1>8 DEF Requests
  <2> QED
    BY <1>1, <1>8, <2>1 DEF Reload
<1> QED
  BY <1>3, <1>4, <1>5, <1>6, <1>7, <1>8 DEF Next, vars

(* A page whose refresh was refused waits until it is loaded again, and    *)
(* so does every call of it that has joined the wait.                      *)
THEOREM WedgedPagesWait == Spec => WedgedUntilReload
<1> DEFINE Waits ==
      \A p \in Page : Wedged(p) /\ ~Reload(p) =>
         /\ Wedged(p)'
         /\ Queued(p) \cup Leaders(p) \subseteq (Queued(p) \cup Leaders(p))'
<1>1. IInv /\ [Next]_vars => Waits
  <2> SUFFICES ASSUME IInv, [Next]_vars, NEW p \in Page, Wedged(p), ~Reload(p)
               PROVE  /\ Wedged(p)'
                      /\ Queued(p) \cup Leaders(p) \subseteq (Queued(p) \cup Leaders(p))'
    OBVIOUS
  <2>1. req[p].phase = "queued"
    BY DEF Wedged
  <2>2. Wedged(p)'
    BY <2>1, WaitersStay, PageFacts DEF Wedged, Waiting
  <2>3. ASSUME NEW q \in Queued(p) \cup Leaders(p)
        PROVE  q \in (Queued(p) \cup Leaders(p))'
    <3>1. q \in Requests(p) /\ req[q].phase \in Waiting
      BY DEF Queued, Leaders, Waiting
    <3>2. req'[q].phase = req[q].phase
      BY <2>1, <3>1, WaitersStay
    <3>3. q \in Requests(p)'
      BY <3>1 DEF Requests, Home
    <3> QED
      BY <3>1, <3>2, <3>3 DEF Queued, Leaders, Waiting
  <2> QED
    BY <2>2, <2>3
<1> QED
  BY <1>1, Invariance, PTL DEF Spec, WedgedUntilReload

LEMMA Numbers ==
    ASSUME IInv
    PROVE  /\ refresh \in Nat /\ issued \in Nat
           /\ \A q \in Request : req[q].bearer \in Nat /\ req[q].granted \in Nat
BY TypesOf, StateFacts DEF Pair

-----------------------------------------------------------------------------
(* Where nobody logs in, there is one line of pairs: the server takes the  *)
(* newest at most, and while a page is being granted it, everybody else    *)
(* still has older ones.                                                   *)

Granted == {p \in Page : Replied(p, "ok")}

NewestInv ==
    /\ access <= issued /\ refresh <= issued
    /\ 1 .. (issued - 1) \subseteq spent
    /\ \A q \in Request : req[q].bearer <= issued
    /\ \A p \in Granted :
         /\ req[p].granted = issued /\ Granted = {p}
         /\ access < issued /\ refresh < issued
         /\ \A q \in Request : req[q].bearer < issued

(* No pair is issued, and who sends one sends what is stored.              *)
LEMMA NewestKept ==
    ASSUME IInv, NewestInv, UNCHANGED issued, 1 .. (issued - 1) \subseteq spent',
           access' \in {0, access, refresh}, refresh' \in {0, access, refresh},
           \A q \in Request : req'[q].bearer \in {0, access, refresh, req[q].bearer},
           \A p \in Granted' : p \in Granted /\ req'[p].granted = req[p].granted
    PROVE  NewestInv'
<1>1. /\ access \in Nat /\ refresh \in Nat /\ issued \in Nat /\ issued >= 1
      /\ \A q \in Request : req[q].bearer \in Nat
  BY Numbers, TypesOf DEF Pair
<1>2. /\ access' <= issued /\ refresh' <= issued
      /\ \A q \in Request : req'[q].bearer <= issued
  BY <1>1 DEF NewestInv
<1>3. ASSUME NEW p \in Granted'
      PROVE  /\ req'[p].granted = issued /\ Granted' = {p}
             /\ access' < issued /\ refresh' < issued
             /\ \A q \in Request : req'[q].bearer < issued
  <2>1. /\ req[p].granted = issued /\ Granted = {p} /\ access < issued /\ refresh < issued
        /\ \A q \in Request : req[q].bearer < issued
    BY <1>3 DEF NewestInv
  <2>2. Granted' = {p}
    BY <1>3, <2>1
  <2> QED
    BY <1>1, <1>3, <2>1, <2>2
<1> QED
  BY <1>2, <1>3 DEF NewestInv

LEMMA OneNewest ==
    ASSUME IInv, NewestInv, NEW q \in Request, UNCHANGED issued,
           1 .. (issued - 1) \subseteq spent',
           access' \in {0, access, refresh}, refresh' \in {0, access, refresh},
           \A o \in Request \ {q} : req'[o] = req[o],
           req'[q].bearer \in {0, access, refresh, req[q].bearer},
           q \in Page => ~Replied(q, "ok")'
    PROVE  NewestInv'
<1>1. \A o \in Request : req'[o].bearer \in {0, access, refresh, req[o].bearer}
  OBVIOUS
<1>2. \A p \in Granted' : p \in Granted /\ req'[p].granted = req[p].granted
  BY PageFacts DEF Granted, Replied
<1> QED
  BY <1>1, <1>2, NewestKept

LEMMA ServeNewest ==
    ASSUME "login" \notin Kind, IInv, NewestInv, NEW q \in Request, Serve(q)
    PROVE  NewestInv'
<1>1. PICK reply \in {"ok", "unauthorized"}, g \in Pair \cup {0} : Answer(q, reply, g)
  BY ServeStep
<1>2. /\ req[q].phase = "sent" /\ req'[q].phase = "replied" /\ req'[q].reply = reply
      /\ req'[q].bearer = req[q].bearer /\ req'[q].granted = g
      /\ \A o \in Request \ {q} : req'[o] = req[o]
      /\ UNCHANGED <<access, refresh>>
  BY <1>1, AnswerMoves, TypesOf DEF storage
<1>3. issued \in Nat /\ issued >= 1 /\ 1 .. (issued - 1) \subseteq spent
  BY TypesOf DEF Pair, NewestInv
<1>4. CASE q \in Call
  <2>1. ServeCall(q)
    BY <1>4, ServeStep, TypesOf DEF Serve, ServeLogin
  <2>2. UNCHANGED issued /\ 1 .. (issued - 1) \subseteq spent'
    BY <1>3, <2>1 DEF ServeCall
  <2> QED
    BY <1>2, <1>4, <2>2, OneNewest, TypesOf
<1>5. CASE q \in Page /\ ServeRefresh(q) /\ req[q].bearer \in spent
  <2>1. Answer(q, "unauthorized", 0) /\ UNCHANGED <<issued, spent>>
    BY <1>5 DEF ServeRefresh
  <2>2. req'[q].reply = "unauthorized"
    BY <2>1, AnswerMoves, TypesOf
  <2>3. ~Replied(q, "ok")'
    BY <2>2 DEF Replied
  <2> QED
    BY <1>2, <1>3, <2>1, <2>3, OneNewest
<1>6. CASE q \in Page /\ ServeRefresh(q) /\ req[q].bearer \notin spent
  <2>1. /\ Answer(q, "ok", issued + 1) /\ issued' = issued + 1 /\ issued + 1 \in Pair
        /\ spent' = spent \cup {req[q].bearer}
    BY <1>3, <1>6, ClientAssumption DEF ServeRefresh, Pair
  <2>2. req'[q].granted = issued + 1 /\ Replied(q, "ok")'
    BY <2>1, AnswerMoves, TypesOf DEF Replied
  <2>3. /\ req[q].bearer \in Nat /\ req[q].bearer # 0 /\ req[q].bearer <= issued
    BY <1>2, <1>6, Numbers DEF IInv, SharedInv, Refreshing, Free, NewestInv
  <2>4. req[q].bearer = issued
    BY <1>3, <1>6, <2>3
  <2>5. Granted = {}
    BY <1>3, <2>4 DEF NewestInv
  <2>6. Granted' = {q}
    <3>1. \A p \in Page \ {q} : p \in Request /\ req'[p] = req[p] /\ p \notin Granted
      BY <1>2, <2>5, PageFacts
    <3> QED
      BY <1>6, <2>2, <3>1 DEF Granted, Replied
  <2>7. 1 .. (issued' - 1) \subseteq spent'
    BY <1>3, <2>1, <2>4
  <2>8. /\ access \in Nat /\ refresh \in Nat /\ access <= issued /\ refresh <= issued
        /\ \A o \in Request : /\ req[o].bearer \in Nat /\ req[o].bearer <= issued
                              /\ req'[o].bearer = req[o].bearer
    BY <1>2, Numbers, TypesOf DEF NewestInv, Pair
  <2> QED
    BY <1>2, <1>3, <2>1, <2>2, <2>6, <2>7, <2>8 DEF NewestInv
<1> QED
  BY <1>4, <1>5, <1>6 DEF Serve

(* The newest pair arrives.                                                *)
LEMMA RefreshSucceedsNewest ==
    ASSUME IInv, NewestInv, NEW p \in Page, RefreshSucceeds(p) PROVE NewestInv'
<1>1. /\ p \in Granted /\ p \in Request /\ req[p].granted = issued /\ Granted = {p}
      /\ issued \in Nat /\ issued >= 1
  BY PageFacts, TypesOf DEF RefreshSucceeds, Granted, NewestInv, Pair
<1>2. access' = issued /\ refresh' = issued /\ UNCHANGED <<issued, spent>>
  BY <1>1 DEF RefreshSucceeds, Store, server
<1>3. ASSUME NEW q \in Request
      PROVE  /\ req'[q].bearer <= issued
             /\ q \in Page => ~Replied(q, "ok")'
  <2>1. CASE q = p
    <3>1. req'[q] = Idle
      BY <2>1 DEF RefreshSucceeds
    <3> QED
      BY <1>1, <3>1, IdleFacts DEF Replied
  <2>2. CASE q # p /\ q \in Queued(p) \cup Leaders(p)
    <3>1. req'[q] = Replay(q, issued)
      BY <1>1, <2>2 DEF RefreshSucceeds
    <3> QED
      BY <1>1, <3>1 DEF Replied, Replay, Outgoing
  <2>3. CASE q # p /\ q \notin Queued(p) \cup Leaders(p)
    <3>1. req'[q] = req[q]
      BY <2>3 DEF RefreshSucceeds
    <3> QED
      BY <1>1, <2>3, <3>1 DEF NewestInv, Granted, Replied
  <2> QED
    BY <2>1, <2>2, <2>3
<1>4. Granted' = {}
  BY <1>3, PageFacts DEF Granted
<1> QED
  BY <1>1, <1>2, <1>3, <1>4 DEF NewestInv

LEMMA LeadNewest ==
    ASSUME IInv, NewestInv, NEW c \in Call, Lead(c) PROVE NewestInv'
<1> DEFINE p == Home(c)
<1>1. /\ p \in Page /\ p # c /\ c \in Request
      /\ req'[c].phase = "leading" /\ req'[c].bearer = req[c].bearer
      /\ req'[p] = Outgoing("refresh", refresh, FALSE)
      /\ \A o \in Request \ {c, p} : req'[o] = req[o]
      /\ UNCHANGED <<access, refresh, issued, spent>>
  BY LeadFacts
<1> HIDE DEF p
<1>2. req'[p].phase = "sent" /\ req'[p].bearer = refresh
  BY <1>1 DEF Outgoing
<1>3. \A q \in Request : req'[q].bearer \in {0, access, refresh, req[q].bearer}
  BY <1>1, <1>2
<1>4. \A o \in Granted' : o \in Granted /\ req'[o].granted = req[o].granted
  BY <1>1, <1>2, PageFacts DEF Granted, Replied
<1>5. 1 .. (issued - 1) \subseteq spent'
  BY <1>1 DEF NewestInv
<1> QED
  BY <1>1, <1>3, <1>4, <1>5, NewestKept

(* A refresh that fails, or a page that goes, takes requests with it.      *)
LEMMA PageEndNewest ==
    ASSUME IInv, NewestInv, NEW p \in Page, RefreshFails(p) \/ Reload(p)
    PROVE  NewestInv'
<1>1. /\ UNCHANGED <<issued, spent>>
      /\ access' \in {0, access} /\ refresh' \in {0, refresh}
  BY DEF RefreshFails, Reload, Store, storage, server
<1>2. ASSUME NEW q \in Request
      PROVE  /\ req'[q].bearer \in {0, req[q].bearer}
             /\ Replied(q, "ok")' => req'[q] = req[q]
  <2>1. CASE RefreshFails(p)
    <3>1. req'[q] = IF q \in Leaders(p) \cup {p} THEN Idle
                    ELSE IF q \in Queued(p) THEN [req[q] EXCEPT !.phase = "dropped"]
                         ELSE req[q]
      BY <2>1 DEF RefreshFails
    <3>2. /\ [req[q] EXCEPT !.phase = "dropped"].phase = "dropped"
          /\ [req[q] EXCEPT !.phase = "dropped"].bearer = req[q].bearer
      BY TypesOf DEF State
    <3> QED
      BY <3>1, <3>2, IdleFacts DEF Replied
  <2>2. CASE Reload(p)
    <3>1. req'[q] = IF q \in Requests(p) THEN Idle ELSE req[q]
      BY <2>2 DEF Reload
    <3> QED
      BY <3>1, IdleFacts DEF Replied
  <2> QED
    BY <2>1, <2>2
<1>3. \A o \in Granted' : o \in Granted /\ req'[o].granted = req[o].granted
  BY <1>2, PageFacts DEF Granted, Replied
<1>4. 1 .. (issued - 1) \subseteq spent'
  BY <1>1 DEF NewestInv
<1> QED
  BY <1>1, <1>2, <1>3, <1>4, NewestKept

LEMMA NextNewest ==
    ASSUME "login" \notin Kind, IInv, NewestInv, [Next]_vars PROVE NewestInv'
<1>1. 1 .. (issued - 1) \subseteq spent
  BY DEF NewestInv
<1>2. ASSUME NEW c \in Call, NEW kind \in Kind, Send(c, kind) PROVE NewestInv'
  <2>1. /\ req' = [req EXCEPT ![c] = Outgoing(kind, access, FALSE)]
        /\ UNCHANGED <<access, refresh, issued, spent>> /\ c \in Request /\ c \notin Page
    BY <1>2, TypesOf DEF Send, storage, server
  <2>2. req'[c].bearer = access /\ \A o \in Request \ {c} : req'[o] = req[o]
    BY <2>1, TypesOf DEF Outgoing
  <2> QED
    BY <1>1, <2>1, <2>2, OneNewest
<1>3. ASSUME NEW q \in Request, Fail(q) PROVE NewestInv'
  <2>1. /\ req' = [req EXCEPT ![q].phase = "replied", ![q].reply = "error",
                              ![q].granted = 0]
        /\ UNCHANGED <<access, refresh, issued, spent>> /\ req[q] \in State
    BY <1>3, TypesOf DEF Fail, storage, server
  <2>2. /\ req'[q] = [req[q] EXCEPT !.phase = "replied", !.reply = "error", !.granted = 0]
        /\ \A o \in Request \ {q} : req'[o] = req[o]
    BY <2>1, TypesOf
  <2>3. req'[q].reply = "error" /\ req'[q].bearer = req[q].bearer
    BY <2>1, <2>2, FailedFacts
  <2> QED
    BY <1>1, <2>1, <2>2, <2>3, OneNewest DEF Replied
<1>4. ASSUME NEW q \in Request, Receive(q) PROVE NewestInv'
  <2>1. CASE Enqueue(q)
    <3>1. /\ req' = [req EXCEPT ![q].phase = "queued"] /\ req[q] \in State
          /\ UNCHANGED <<access, refresh, issued, spent>>
      BY <2>1, TypesOf DEF Enqueue, storage, server
    <3>2. /\ req'[q] = [req[q] EXCEPT !.phase = "queued"]
          /\ \A o \in Request \ {q} : req'[o] = req[o]
      BY <3>1, TypesOf
    <3>3. req'[q].phase = "queued" /\ req'[q].bearer = req[q].bearer
      BY <3>1, <3>2 DEF State
    <3> QED
      BY <1>1, <3>1, <3>2, <3>3, OneNewest DEF Replied
  <2>2. CASE q \in Call /\ (Resolve(q) \/ Reject(q) \/ NoRefreshToken(q))
    <3>1. /\ req[q].phase = "replied" /\ req' = [req EXCEPT ![q] = Idle]
          /\ UNCHANGED <<issued, spent>> /\ q \notin Page
      BY <2>2, TypesOf
         DEF Resolve, Reject, NoRefreshToken, Unauthorized, Replied, server
    <3>2. req[q].kind # "login"
      BY <2>2, <3>1, TypesOf
    <3>3. access' \in {0, access} /\ refresh' \in {0, refresh}
      BY <2>2, <3>2 DEF Resolve, Reject, NoRefreshToken, Store, storage
    <3>4. req'[q].bearer = 0 /\ \A o \in Request \ {q} : req'[o] = req[o]
      BY <3>1, IdleFacts, TypesOf
    <3> QED
      BY <1>1, <3>1, <3>3, <3>4, OneNewest
  <2>3. CASE q \in Call /\ Lead(q)
    BY <2>3, LeadNewest
  <2>4. CASE q \in Page /\ (RefreshSucceeds(q) \/ RefreshFails(q))
    BY <2>4, RefreshSucceedsNewest, PageEndNewest
  <2> QED
    BY <1>4, <2>1, <2>2, <2>3, <2>4 DEF Receive
<1>5. ASSUME NEW g \in Pair, Expire(g) \/ EndSession(g) PROVE NewestInv'
  BY <1>5 DEF Expire, EndSession, storage, NewestInv, Granted, Replied
<1>6. CASE UNCHANGED vars
  BY <1>6 DEF vars, NewestInv, Granted, Replied
<1> QED
  BY <1>2, <1>3, <1>4, <1>5, <1>6, ServeNewest, PageEndNewest DEF Next

LEMMA InitNewest == Init => NewestInv
<1> SUFFICES ASSUME Init PROVE NewestInv
  OBVIOUS
<1>1. \A q \in Request : req[q] = Idle
  BY DEF Init
<1>2. Granted = {}
  BY <1>1, IdleFacts, PageFacts DEF Granted, Replied
<1>3. access = refresh /\ refresh \in {0, 1} /\ issued = 1
  BY DEF Init
<1> QED
  BY <1>1, <1>2, <1>3, IdleFacts DEF NewestInv

(* Where nobody logs in meanwhile, what a refresh replays carries a newer  *)
(* token than what was refused, through failures, logouts and reloads.     *)
THEOREM ReplaysAreNewer ==
    ASSUME "login" \notin Kind PROVE Spec => ReplayIsNewer
<1> DEFINE Newer ==
      \A p \in Page : RefreshSucceeds(p) =>
         \A q \in Queued(p) \cup Leaders(p) : req'[q].bearer > req[q].bearer
<1>1. IInv /\ NewestInv => Newer
  <2> SUFFICES ASSUME IInv, NewestInv, NEW p \in Page, RefreshSucceeds(p),
                      NEW q \in Queued(p) \cup Leaders(p)
               PROVE  req'[q].bearer > req[q].bearer
    OBVIOUS
  <2>1. /\ p \in Granted /\ q \in Request /\ q # p
        /\ req'[q] = Replay(q, req[p].granted)
    BY DEF RefreshSucceeds, Replied, Granted, Queued, Leaders, Requests
  <2>2. req'[q].bearer = req[p].granted
    BY <2>1 DEF Replay, Outgoing
  <2>3. req[p].granted = issued /\ req[q].bearer < issued
    BY <2>1 DEF NewestInv
  <2> QED
    BY <2>1, <2>2, <2>3, Numbers
<1>2. IInv /\ NewestInv /\ [Next]_vars => NewestInv'
  BY NextNewest
<1> QED
  BY <1>1, <1>2, InitNewest, Invariance, PTL DEF ReplayIsNewer, Spec

-----------------------------------------------------------------------------
(* With every failure and every kind of call: a pair that is on its way to *)
(* a page is nobody else's.  It is neither stored, nor carried by another  *)
(* reply, nor the token of a refresh request, so that whatever the server  *)
(* spends meanwhile is not what the page is about to store.                *)

Fresh == {q \in Request : Replied(q, "ok") /\ req[q].granted # 0}

FreshInv ==
    /\ refresh <= issued /\ spent \subseteq 1 .. issued
    /\ \A p \in Page : /\ req[p].bearer <= issued
                       /\ Replied(p, "ok") => p \in Fresh
    /\ \A q \in Fresh :
         /\ req[q].granted <= issued /\ req[q].granted # refresh
         /\ \A p \in Page : req[p].bearer # req[q].granted
         /\ \A o \in Fresh : req[o].granted = req[q].granted => o = q

(* No pair is issued: replies are received, dropped or stored, and pages   *)
(* send at most what is stored.                                            *)
LEMMA FreshKept ==
    ASSUME IInv, FreshInv, UNCHANGED issued, spent' \subseteq 1 .. issued,
           \A q \in Fresh' : q \in Fresh /\ req'[q].granted = req[q].granted,
           \/ refresh' \in {0, refresh}
           \/ \E q \in Fresh \ Fresh' : refresh' = req[q].granted,
           \A p \in Page : req'[p].bearer \in {0, refresh, req[p].bearer},
           \A p \in Page : Replied(p, "ok")' => p \in Fresh'
    PROVE  FreshInv'
<1>1. /\ issued \in Nat /\ refresh \in Nat
      /\ \A q \in Request : req[q].bearer \in Nat /\ req[q].granted \in Nat
  BY Numbers
<1>2. \A q \in Fresh : q \in Request /\ req[q].granted # 0 /\ req[q].granted <= issued
  BY DEF Fresh, FreshInv
<1>3. refresh' <= issued' /\ \A p \in Page : req'[p].bearer <= issued'
  BY <1>1, <1>2 DEF FreshInv
<1>4. ASSUME NEW q \in Fresh'
      PROVE  /\ req'[q].granted <= issued' /\ req'[q].granted # refresh'
             /\ \A p \in Page : req'[p].bearer # req'[q].granted
             /\ \A o \in Fresh' : req'[o].granted = req'[q].granted => o = q
  <2>1. /\ q \in Fresh /\ req'[q].granted = req[q].granted /\ req[q].granted # 0
        /\ req[q].granted # refresh /\ req[q].granted <= issued
        /\ \A p \in Page : req[p].bearer # req[q].granted
        /\ \A o \in Fresh : req[o].granted = req[q].granted => o = q
    BY <1>2, <1>4 DEF FreshInv
  <2>2. req'[q].granted # refresh'
    BY <1>4, <2>1
  <2> QED
    BY <1>4, <2>1, <2>2
<1> QED
  BY <1>3, <1>4 DEF FreshInv

(* A pair is issued to the request that is answered.                       *)
LEMMA FreshIssued ==
    ASSUME IInv, FreshInv, NEW q \in Request, Answer(q, "ok", issued + 1),
           issued + 1 \in Pair, issued' = issued + 1, spent' \subseteq 1 .. issued'
    PROVE  FreshInv'
<1>1. /\ issued \in Nat /\ refresh \in Nat
      /\ \A o \in Request : req[o].bearer \in Nat /\ req[o].granted \in Nat
  BY Numbers
<1>2. /\ req[q].phase = "sent" /\ req'[q].phase = "replied" /\ req'[q].reply = "ok"
      /\ req'[q].bearer = req[q].bearer /\ req'[q].granted = issued + 1
      /\ \A o \in Request \ {q} : req'[o] = req[o]
      /\ UNCHANGED refresh
  BY AnswerMoves, TypesOf DEF storage
<1>3. q \notin Fresh /\ Fresh' = Fresh \cup {q}
  BY <1>1, <1>2 DEF Fresh, Replied
<1>4. \A p \in Page : p \in Request /\ req'[p].bearer = req[p].bearer
  BY <1>2, PageFacts
<1>5. refresh' <= issued' /\ \A p \in Page : req'[p].bearer <= issued'
  BY <1>1, <1>2, <1>4 DEF FreshInv
<1>6. \A p \in Page : Replied(p, "ok")' => p \in Fresh'
  BY <1>2, <1>3, <1>4 DEF FreshInv, Replied
<1>7. \A o \in Fresh : /\ o \in Request \ {q} /\ req'[o] = req[o]
                       /\ req[o].granted <= issued
  BY <1>2, <1>3 DEF Fresh, FreshInv
<1>8. ASSUME NEW o \in Fresh'
      PROVE  /\ req'[o].granted <= issued' /\ req'[o].granted # refresh'
             /\ \A p \in Page : req'[p].bearer # req'[o].granted
             /\ \A x \in Fresh' : req'[x].granted = req'[o].granted => x = o
  <2>1. CASE o = q
    <3>1. refresh' # issued + 1 /\ \A p \in Page : req'[p].bearer # issued + 1
      BY <1>1, <1>2, <1>4 DEF FreshInv
    <3>2. \A x \in Fresh : req'[x].granted # issued + 1
      BY <1>1, <1>7
    <3> QED
      BY <1>1, <1>2, <1>3, <2>1, <3>1, <3>2
  <2>2. CASE o # q
    <3>1. o \in Fresh /\ req'[o] = req[o] /\ req[o].granted <= issued
          /\ req[o].granted \in Nat
      BY <1>1, <1>3, <1>7, <1>8, <2>2
    <3>2. \A x \in Fresh' : req'[x].granted = req'[o].granted => x \in Fresh
      BY <1>1, <1>2, <1>3, <3>1
    <3> QED
      BY <1>1, <1>2, <1>4, <1>7, <3>1, <3>2 DEF FreshInv
  <2> QED
    BY <2>1, <2>2
<1> QED
  BY <1>5, <1>6, <1>8 DEF FreshInv

(* Serving a request issues the next pair to it, or no pair.               *)
LEMMA ServeFresh ==
    ASSUME IInv, FreshInv, NEW q \in Request, Serve(q)
    PROVE  /\ FreshInv'
           /\ \/ /\ UNCHANGED issued
                 /\ \E reply \in {"ok", "unauthorized"} :
                      /\ Answer(q, reply, 0)
                      /\ reply = "ok" => q \in Call
                 /\ UNCHANGED spent \/ (q \in Call /\ ServeCall(q) /\ req[q].kind = "logout")
              \/ /\ Answer(q, "ok", issued + 1) /\ issued + 1 \in Pair
                 /\ issued' = issued + 1
                 /\ \/ q \in Call /\ UNCHANGED spent
                    \/ /\ q \in Page /\ req[q].bearer \notin spent
                       /\ spent' = spent \cup {req[q].bearer}
<1>1. issued \in Pair /\ spent \subseteq 1 .. issued /\ issued \in Nat /\ 0 \in Pair \cup {0}
  BY TypesOf, Numbers DEF FreshInv
<1>2. issued < MaxPairs => issued + 1 \in Pair
  BY <1>1, ClientAssumption DEF Pair
<1>3. \A p \in Page : p \in Request /\ p \notin Call
  BY PageFacts
<1> DEFINE Refused ==
      /\ UNCHANGED issued
      /\ \E reply \in {"ok", "unauthorized"} :
           Answer(q, reply, 0) /\ (reply = "ok" => q \in Call)
      /\ UNCHANGED spent \/ (q \in Call /\ ServeCall(q) /\ req[q].kind = "logout")
    Issues ==
      /\ Answer(q, "ok", issued + 1) /\ issued + 1 \in Pair
      /\ issued' = issued + 1
      /\ \/ q \in Call /\ UNCHANGED spent
         \/ /\ q \in Page /\ req[q].bearer \notin spent
            /\ spent' = spent \cup {req[q].bearer}
<1>4. Refused \/ Issues
  <2>1. CASE q \in Call /\ ServeCall(q)
    BY <2>1 DEF ServeCall
  <2>2. CASE q \in Call /\ ServeLogin(q)
    BY <1>2, <2>2 DEF ServeLogin
  <2>3. CASE q \in Page /\ ServeRefresh(q)
    BY <1>2, <2>3 DEF ServeRefresh
  <2> QED
    BY <2>1, <2>2, <2>3 DEF Serve
<1>5. CASE Refused
  <2>1. PICK reply \in {"ok", "unauthorized"} :
          Answer(q, reply, 0) /\ (reply = "ok" => q \in Call)
    BY <1>5
  <2>2. /\ req[q].phase = "sent" /\ req'[q].phase = "replied" /\ req'[q].reply = reply
        /\ req'[q].bearer = req[q].bearer /\ req'[q].granted = 0
        /\ \A o \in Request \ {q} : req'[o] = req[o]
        /\ UNCHANGED refresh
    BY <1>1, <2>1, AnswerMoves, TypesOf DEF storage
  <2>3. q \notin Fresh /\ Fresh' = Fresh
    BY <2>2 DEF Fresh, Replied
  <2>4. spent' \subseteq 1 .. issued /\ issued' = issued
    <3>1. CASE UNCHANGED spent
      BY <1>1, <1>5, <3>1
    <3>2. CASE ServeCall(q) /\ req[q].kind = "logout"
      BY <1>1, <1>5, <3>2 DEF ServeCall
    <3> QED
      BY <1>5, <3>1, <3>2
  <2>5. \A p \in Page : req'[p].bearer = req[p].bearer
    BY <1>3, <2>2
  <2>6. \A o \in Fresh' : o \in Fresh /\ req'[o].granted = req[o].granted
    BY <2>2, <2>3 DEF Fresh
  <2>7. \A p \in Page : Replied(p, "ok")' => p \in Fresh'
    BY <1>3, <2>1, <2>2, <2>3 DEF FreshInv, Replied
  <2> HIDE DEF Refused
  <2> QED
    BY <1>4, <1>5, <2>2, <2>4, <2>5, <2>6, <2>7, FreshKept DEF Refused
<1>6. CASE Issues
  <2>1. spent' \subseteq 1 .. issued'
    <3>1. req[q].phase = "sent"
      BY <1>6 DEF Answer
    <3>2. q \in Page => /\ req[q].bearer <= issued /\ req[q].bearer \in Nat
                        /\ req[q].bearer # 0
      BY <3>1, Numbers DEF FreshInv, IInv, SharedInv, Refreshing, Free
    <3>3. issued' = issued + 1
          /\ (UNCHANGED spent \/ (q \in Page /\ spent' = spent \cup {req[q].bearer}))
      BY <1>6
    <3>4. 1 .. issued \subseteq 1 .. issued' /\ issued' \in Nat
      BY <1>1, <3>3
    <3>5. q \in Page => req[q].bearer \in 1 .. issued'
      BY <1>1, <3>2, <3>3
    <3> HIDE DEF Issues
    <3> QED
      BY <1>1, <3>3, <3>4, <3>5
  <2> QED
    BY <1>6, <2>1, FreshIssued
<1> QED
  BY <1>4, <1>5, <1>6

(* What every other step does with the pairs on their way: it may bring    *)
(* one home, or lose some, and it makes none.                              *)
Held(p) == Replied(p, "ok") \/ Replied(p, "error")

Kept ==
    /\ UNCHANGED refresh
    /\ \A p \in Page : Held(p) => Held(p)' /\ req'[p].bearer = req[p].bearer

Stores ==
    \E q \in Request : /\ Replied(q, "ok") /\ ~Replied(q, "ok")'
                       /\ refresh' = req[q].granted

Receives ==
    /\ UNCHANGED issued
    /\ \A p \in Page : req'[p].bearer \in {0, refresh, req[p].bearer}
    /\ \A q \in Request : Replied(q, "ok")' => Replied(q, "ok") /\ req'[q] = req[q]
    /\ refresh' \in {0, refresh} \/ Stores

LEMMA ReceivesFresh ==
    ASSUME IInv, FreshInv, Receives, spent' \subseteq 1 .. issued PROVE FreshInv'
<1>1. \A q \in Fresh' : q \in Fresh /\ req'[q] = req[q]
  BY DEF Receives, Fresh
<1>2. refresh' \in {0, refresh} \/ \E q \in Fresh \ Fresh' : refresh' = req[q].granted
  BY DEF Receives, Stores, Fresh
<1>3. \A p \in Page : Replied(p, "ok")' => p \in Fresh'
  <2> SUFFICES ASSUME NEW p \in Page, Replied(p, "ok")' PROVE p \in Fresh'
    OBVIOUS
  <2>1. p \in Request /\ Replied(p, "ok") /\ req'[p] = req[p]
    BY PageFacts DEF Receives
  <2>2. p \in Fresh
    BY <2>1 DEF FreshInv
  <2> QED
    BY <2>1, <2>2 DEF Fresh
<1> QED
  BY <1>1, <1>2, <1>3, FreshKept DEF Receives

(* One request is replaced, and is not a granted pair afterwards.          *)
LEMMA OneReceives ==
    ASSUME NEW q \in Request, UNCHANGED issued,
           \A o \in Request \ {q} : req'[o] = req[o],
           ~Replied(q, "ok")',
           q \in Page /\ Held(q) => Held(q)',
           q \in Page => req'[q].bearer = req[q].bearer,
           \/ refresh' \in {0, refresh}
           \/ Replied(q, "ok") /\ refresh' = req[q].granted
    PROVE  Receives /\ (refresh' = 0 \/ Stores \/ Kept)
<1>1. \A o \in Request \ {q} : /\ Replied(o, "ok")' <=> Replied(o, "ok")
                               /\ Held(o)' <=> Held(o)
  BY DEF Replied, Held
<1>2. Page \subseteq Request
  BY DEF Request
<1> QED
  BY <1>1, <1>2 DEF Receives, Stores, Kept

LEMMA SendReceives ==
    ASSUME IInv, NEW c \in Call, NEW kind \in Kind, Send(c, kind)
    PROVE  Receives /\ (refresh' = 0 \/ Stores \/ Kept) /\ UNCHANGED spent
<1>1. /\ req' = [req EXCEPT ![c] = Outgoing(kind, access, FALSE)]
      /\ UNCHANGED <<refresh, issued, spent>> /\ c \in Request /\ c \notin Page
  BY TypesOf DEF Send, storage, server
<1>2. /\ req'[c] = Outgoing(kind, access, FALSE)
      /\ \A o \in Request \ {c} : req'[o] = req[o]
  BY <1>1, TypesOf
<1>3. ~Replied(c, "ok")'
  BY <1>2 DEF Replied, Outgoing
<1> QED
  BY <1>1, <1>2, <1>3, OneReceives

LEMMA FailReceives ==
    ASSUME IInv, NEW q \in Request, Fail(q)
    PROVE  Receives /\ (refresh' = 0 \/ Stores \/ Kept) /\ UNCHANGED spent
<1>1. /\ req' = [req EXCEPT ![q].phase = "replied", ![q].reply = "error", ![q].granted = 0]
      /\ UNCHANGED <<refresh, issued, spent>> /\ req[q] \in State
  BY TypesOf DEF Fail, storage, server
<1>2. /\ req'[q] = [req[q] EXCEPT !.phase = "replied", !.reply = "error", !.granted = 0]
      /\ \A o \in Request \ {q} : req'[o] = req[o]
  BY <1>1, TypesOf
<1>3. /\ req'[q].phase = "replied" /\ req'[q].reply = "error"
      /\ req'[q].bearer = req[q].bearer
  BY <1>1, <1>2, FailedFacts
<1>4. ~Replied(q, "ok")' /\ Held(q)'
  BY <1>3 DEF Replied, Held
<1> QED
  BY <1>1, <1>2, <1>3, <1>4, OneReceives

LEMMA OutsideReceives ==
    ASSUME IInv, NEW g \in Pair, Expire(g) \/ EndSession(g)
    PROVE  /\ Receives /\ Kept
           /\ UNCHANGED spent \/ (EndSession(g) /\ spent' \subseteq spent \cup (1 .. issued))
BY DEF Expire, EndSession, storage, Receives, Kept, Replied, Held

LEMMA CallEndReceives ==
    ASSUME IInv, NEW c \in Call, Resolve(c) \/ Reject(c) \/ NoRefreshToken(c)
    PROVE  Receives /\ (refresh' = 0 \/ Stores \/ Kept) /\ UNCHANGED spent
<1>1. /\ req' = [req EXCEPT ![c] = Idle] /\ UNCHANGED <<issued, spent>>
      /\ c \in Request /\ c \notin Page
  BY TypesOf DEF Resolve, Reject, NoRefreshToken, server
<1>2. req'[c] = Idle /\ \A o \in Request \ {c} : req'[o] = req[o]
  BY <1>1, TypesOf
<1>3. ~Replied(c, "ok")'
  BY <1>2, IdleFacts DEF Replied
<1>4. refresh' \in {0, refresh} \/ (Replied(c, "ok") /\ refresh' = req[c].granted)
  BY DEF Resolve, Reject, NoRefreshToken, Store, storage
<1> QED
  BY <1>1, <1>2, <1>3, <1>4, OneReceives

LEMMA EnqueueReceives ==
    ASSUME IInv, NEW q \in Request, Enqueue(q)
    PROVE  Receives /\ (refresh' = 0 \/ Stores \/ Kept) /\ UNCHANGED spent
<1>1. /\ req' = [req EXCEPT ![q].phase = "queued"] /\ req[q] \in State
      /\ UNCHANGED <<refresh, issued, spent>>
      /\ req[q].reply = "unauthorized"
  BY TypesOf DEF Enqueue, Unauthorized, Replied, storage, server
<1>2. /\ req'[q] = [req[q] EXCEPT !.phase = "queued"]
      /\ \A o \in Request \ {q} : req'[o] = req[o]
  BY <1>1, TypesOf
<1>3. req'[q].phase = "queued" /\ req'[q].bearer = req[q].bearer
  BY <1>1, <1>2 DEF State
<1> QED
  BY <1>1, <1>2, <1>3, OneReceives DEF Replied, Held

LEMMA LeadReceives ==
    ASSUME IInv, NEW c \in Call, Lead(c)
    PROVE  Receives /\ Kept /\ UNCHANGED spent
<1> DEFINE p == Home(c)
<1>1. /\ p \in Page /\ p # c /\ c \in Request /\ ~refreshing[p]
      /\ req'[c].phase = "leading"
      /\ req'[p] = Outgoing("refresh", refresh, FALSE)
      /\ \A o \in Request \ {c, p} : req'[o] = req[o]
      /\ UNCHANGED <<refresh, issued, spent>>
  BY LeadFacts
<1> HIDE DEF p
<1>2. req[p].phase = "idle"
  BY <1>1 DEF IInv, SharedInv, Free
<1>3. req'[p].phase = "sent" /\ req'[p].bearer = refresh
  BY <1>1 DEF Outgoing
<1>4. \A o \in Page : o \in Request /\ o # c
  BY PageFacts
<1>5. \A o \in Request : Replied(o, "ok")' => Replied(o, "ok") /\ req'[o] = req[o]
  BY <1>1, <1>3 DEF Replied
<1>6. \A o \in Page : Held(o) => Held(o)' /\ req'[o].bearer = req[o].bearer
  BY <1>1, <1>2, <1>4 DEF Replied, Held
<1>7. \A o \in Page : req'[o].bearer \in {0, refresh, req[o].bearer}
  BY <1>1, <1>3, <1>4
<1> QED
  BY <1>1, <1>5, <1>6, <1>7 DEF Receives, Kept

(* A refresh that ends, or a page that goes, leaves a part of what is on   *)
(* its way.                                                                *)
LEMMA PageEndReceives ==
    ASSUME IInv, NEW p \in Page, RefreshSucceeds(p) \/ RefreshFails(p) \/ Reload(p)
    PROVE  /\ Receives /\ UNCHANGED spent
           /\ Reload(p) \/ refresh' = 0 \/ Stores
           /\ \A o \in Page : ~refreshing[p] /\ Held(o) =>
                Held(o)' /\ req'[o].bearer = req[o].bearer
<1>1. /\ UNCHANGED <<issued, spent>> /\ p \in Request
      /\ \A o \in Page : o \in Request /\ (o # p => o \notin Requests(p))
  BY PageFacts DEF RefreshSucceeds, RefreshFails, Reload, server, Requests
<1>2. ASSUME NEW q \in Request
      PROVE  /\ ~Replied(q, "ok")' \/ req'[q] = req[q]
             /\ q = p => req'[q] = Idle
             /\ q \in Page /\ q # p => req'[q] = req[q]
  <2>1. CASE RefreshSucceeds(p)
    BY <1>1, <2>1, IdleFacts
       DEF RefreshSucceeds, Replied, Replay, Outgoing, Queued, Leaders
  <2>2. CASE RefreshFails(p)
    <3>1. req'[q] = IF q \in Leaders(p) \cup {p} THEN Idle
                    ELSE IF q \in Queued(p) THEN [req[q] EXCEPT !.phase = "dropped"]
                         ELSE req[q]
      BY <2>2 DEF RefreshFails
    <3>2. [req[q] EXCEPT !.phase = "dropped"].phase = "dropped"
      BY TypesOf DEF State
    <3> QED
      BY <1>1, <3>1, <3>2, IdleFacts DEF Replied, Queued, Leaders
  <2>3. CASE Reload(p)
    <3>1. req'[q] = IF q \in Requests(p) THEN Idle ELSE req[q]
      BY <2>3 DEF Reload
    <3> QED
      BY <1>1, <3>1, IdleFacts, PageFacts DEF Replied
  <2> QED
    BY <2>1, <2>2, <2>3
<1>3. ~Replied(p, "ok")' /\ req'[p].bearer = 0
  BY <1>1, <1>2, IdleFacts DEF Replied
<1>7. ASSUME NEW o \in Page, o # p PROVE req'[o] = req[o]
  <2>1. o \in Request
    BY <1>1
  <2> QED
    BY <1>2, <1>7, <2>1
<1>8. ASSUME NEW q \in Request, Replied(q, "ok")'
      PROVE  Replied(q, "ok") /\ req'[q] = req[q]
  <2>1. req'[q] = req[q]
    BY <1>2, <1>8
  <2> QED
    BY <1>8, <2>1 DEF Replied
<1>4. /\ \A q \in Request : Replied(q, "ok")' => Replied(q, "ok") /\ req'[q] = req[q]
      /\ \A o \in Page : req'[o].bearer \in {0, refresh, req[o].bearer}
  BY <1>3, <1>7, <1>8
<1>5. /\ refresh' \in {0, refresh} \/ Stores
      /\ Reload(p) \/ refresh' = 0 \/ Stores
  BY <1>1, <1>3 DEF RefreshSucceeds, RefreshFails, Reload, Store, storage, Stores
<1>6. ASSUME NEW o \in Page, ~refreshing[p], Held(o)
      PROVE  Held(o)' /\ req'[o].bearer = req[o].bearer
  <2>1. o # p
    BY <1>6 DEF IInv, SharedInv, Free, Held, Replied
  <2> QED
    BY <1>6, <1>7, <2>1 DEF Held, Replied
<1> QED
  BY <1>1, <1>4, <1>5, <1>6 DEF Receives

LEMMA NextFresh ==
    ASSUME IInv, FreshInv, [Next]_vars PROVE FreshInv'
<1>1. spent \subseteq 1 .. issued
  BY DEF FreshInv
<1>2. ASSUME NEW c \in Call, NEW kind \in Kind, Send(c, kind) PROVE FreshInv'
  BY <1>1, <1>2, SendReceives, ReceivesFresh
<1>3. ASSUME NEW q \in Request, Serve(q) \/ Receive(q) \/ Fail(q) PROVE FreshInv'
  <2>1. CASE Serve(q)
    BY <2>1, ServeFresh
  <2>2. CASE Fail(q)
    BY <1>1, <2>2, FailReceives, ReceivesFresh
  <2>3. CASE Receive(q)
    <3>1. Receives /\ UNCHANGED spent
      BY <2>3, EnqueueReceives, CallEndReceives, LeadReceives, PageEndReceives DEF Receive
    <3> QED
      BY <1>1, <3>1, ReceivesFresh
  <2> QED
    BY <1>3, <2>1, <2>2, <2>3
<1>4. ASSUME NEW g \in Pair, Expire(g) \/ EndSession(g) PROVE FreshInv'
  <2>1. Receives /\ (UNCHANGED spent \/ spent' \subseteq spent \cup (1 .. issued))
    BY <1>4, OutsideReceives
  <2> QED
    BY <1>1, <2>1, ReceivesFresh
<1>5. ASSUME NEW p \in Page, Reload(p) PROVE FreshInv'
  BY <1>1, <1>5, PageEndReceives, ReceivesFresh
<1>6. CASE UNCHANGED vars
  BY <1>6 DEF vars, FreshInv, Fresh, Replied
<1> QED
  BY <1>2, <1>3, <1>4, <1>5, <1>6 DEF Next

LEMMA InitFresh == Init => FreshInv
<1> SUFFICES ASSUME Init PROVE FreshInv
  OBVIOUS
<1>1. \A q \in Request : req[q] = Idle
  BY DEF Init
<1>2. Fresh = {} /\ \A p \in Page : req[p].bearer = 0 /\ ~Replied(p, "ok")
  BY <1>1, IdleFacts DEF Fresh, Replied, Request
<1>3. refresh \in {0, 1} /\ issued = 1 /\ spent = {}
  BY DEF Init
<1> QED
  BY <1>2, <1>3 DEF FreshInv

LEMMA FreshInvariance == Spec => []FreshInv
<1>1. IInv /\ FreshInv /\ [Next]_vars => FreshInv'
  BY NextFresh
<1> QED
  BY <1>1, InitFresh, Invariance, PTL DEF Spec

-----------------------------------------------------------------------------
(* From a browser in good hands to one that is not.                        *)

(* What is received spends nothing: the hands that hold it stay good.      *)
LEMMA ReceivesHands ==
    ASSUME IInv, FreshInv, InGoodHands, Receives, UNCHANGED spent,
           refresh' = 0 \/ Stores \/ Kept
    PROVE  InGoodHands'
<1>1. \A q \in Request : Replied(q, "ok")' => req'[q].granted \notin spent'
  BY DEF Receives, InGoodHands
<1>2. ASSUME refresh' \in spent'
      PROVE  \E p \in Page : Held(p)' /\ req'[p].bearer = refresh'
  <2>1. 0 \notin spent
    BY Numbers DEF FreshInv
  <2>2. ~Stores
    BY <1>2 DEF Stores, InGoodHands
  <2>3. Kept /\ refresh \in spent
    BY <1>2, <2>1, <2>2 DEF Kept
  <2>4. PICK p \in Page : Held(p) /\ req[p].bearer = refresh
    BY <2>3 DEF InGoodHands, Held
  <2> QED
    BY <2>3, <2>4 DEF Kept
<1> QED
  BY <1>1, <1>2 DEF InGoodHands, Held

(* What is served spends the token of the page it answers, or every token. *)
LEMMA ServeHands ==
    ASSUME IInv, FreshInv, InGoodHands, NEW q \in Request, Serve(q),
           ~(q \in Call /\ ServeCall(q) /\ req[q].kind = "logout")
    PROVE  InGoodHands'
<1>1. \E reply \in {"ok", "unauthorized"}, g \in {0, issued + 1} :
        /\ Answer(q, reply, g) /\ g \in Pair \cup {0}
        /\ \/ g = 0 /\ UNCHANGED spent /\ (reply = "ok" => q \in Call)
           \/ /\ g = issued + 1 /\ reply = "ok"
              /\ \/ q \in Call /\ UNCHANGED spent
                 \/ /\ q \in Page /\ req[q].bearer \notin spent
                    /\ spent' = spent \cup {req[q].bearer}
  BY ServeFresh, TypesOf
<1>2. PICK reply \in {"ok", "unauthorized"}, g \in {0, issued + 1} :
        /\ Answer(q, reply, g) /\ g \in Pair \cup {0}
        /\ \/ g = 0 /\ UNCHANGED spent /\ (reply = "ok" => q \in Call)
           \/ /\ g = issued + 1 /\ reply = "ok"
              /\ \/ q \in Call /\ UNCHANGED spent
                 \/ /\ q \in Page /\ req[q].bearer \notin spent
                    /\ spent' = spent \cup {req[q].bearer}
  BY <1>1
<1>3. /\ req[q].phase = "sent" /\ req'[q].phase = "replied" /\ req'[q].reply = reply
      /\ req'[q].bearer = req[q].bearer /\ req'[q].granted = g
      /\ \A o \in Request \ {q} : req'[o] = req[o]
      /\ UNCHANGED refresh
  BY <1>2, AnswerMoves, TypesOf DEF storage
<1>4. \A x \in spent : x \in Nat /\ x # 0 /\ x <= issued
  <2>1. issued \in Nat /\ spent \subseteq 1 .. issued
    BY Numbers DEF FreshInv
  <2> SUFFICES ASSUME NEW x \in spent
               PROVE  x \in Nat /\ x # 0 /\ x <= issued
    OBVIOUS
  <2>2. x \in 1 .. issued
    BY <2>1
  <2> QED
    BY <2>1, <2>2
<1>5. q \in Page => req[q].bearer \in Nat /\ req[q].bearer # 0 /\ req[q].bearer <= issued
  BY <1>3, Numbers DEF FreshInv, IInv, SharedInv, Refreshing, Free
<1>6. issued \in Nat
  BY Numbers
<1>7. ASSUME NEW o \in Request, Replied(o, "ok")' PROVE req'[o].granted \notin spent'
  <2>1. CASE o = q
    BY <1>2, <1>3, <1>4, <1>5, <1>6, <2>1
  <2>2. CASE o # q
    <3>1. req'[o] = req[o] /\ Replied(o, "ok")
      BY <1>3, <1>7, <2>2 DEF Replied
    <3>2. req[o].granted \notin spent
      BY <3>1 DEF InGoodHands
    <3>3. q \in Page => req[o].granted # req[q].bearer
      <4>1. CASE req[o].granted = 0
        BY <1>5, <4>1
      <4>2. CASE req[o].granted # 0
        BY <3>1, <4>2 DEF FreshInv, Fresh
      <4> QED
        BY <4>1, <4>2
    <3> QED
      BY <1>2, <3>1, <3>2, <3>3
  <2> QED
    BY <2>1, <2>2
<1>8. ASSUME refresh' \in spent'
      PROVE  \E p \in Page : Held(p)' /\ req'[p].bearer = refresh'
  <2>1. CASE refresh \in spent
    <3>1. PICK p \in Page : Held(p) /\ req[p].bearer = refresh
      BY <2>1 DEF InGoodHands, Held
    <3>2. p # q /\ p \in Request
      BY <1>3, <3>1, PageFacts DEF Held, Replied
    <3> QED
      BY <1>3, <3>1, <3>2 DEF Held, Replied
  <2>2. CASE refresh \notin spent
    <3>1. q \in Page /\ reply = "ok" /\ refresh = req[q].bearer
      BY <1>2, <1>3, <1>8, <2>2
    <3> QED
      BY <1>3, <3>1 DEF Held, Replied
  <2> QED
    BY <2>1, <2>2
<1> QED
  BY <1>7, <1>8 DEF InGoodHands, Held

(* With any failures, calls and pages: a browser is left with a spent      *)
(* token only by a page that goes in the middle of its refresh, or by a    *)
(* session that is ended.                                                  *)
THEOREM TokensAreStrandedByLossOnly == Spec => StrandedByLossOnly
<1> DEFINE Loss ==
      \/ \E p \in Page : Reload(p) /\ refreshing[p]
      \/ \E g \in Pair : EndSession(g)
      \/ \E c \in Call : ServeCall(c) /\ req[c].kind = "logout"
<1>1. IInv /\ FreshInv /\ [Next]_vars => (InGoodHands /\ ~InGoodHands' => Loss)
  <2> SUFFICES ASSUME IInv, FreshInv, [Next]_vars, InGoodHands, ~Loss
               PROVE  InGoodHands'
    OBVIOUS
  <2>1. ASSUME NEW c \in Call, NEW kind \in Kind, Send(c, kind) PROVE InGoodHands'
    BY <2>1, SendReceives, ReceivesHands
  <2>2. ASSUME NEW q \in Request, Serve(q) PROVE InGoodHands'
    BY <2>2, ServeHands
  <2>3. ASSUME NEW q \in Request, Fail(q) PROVE InGoodHands'
    BY <2>3, FailReceives, ReceivesHands
  <2>4. ASSUME NEW q \in Request, Receive(q) PROVE InGoodHands'
    <3>1. CASE Enqueue(q)
      BY <3>1, EnqueueReceives, ReceivesHands
    <3>2. CASE q \in Call /\ (Resolve(q) \/ Reject(q) \/ NoRefreshToken(q))
      BY <3>2, CallEndReceives, ReceivesHands
    <3>3. CASE q \in Call /\ Lead(q)
      BY <3>3, LeadReceives, ReceivesHands
    <3>4. CASE q \in Page /\ (RefreshSucceeds(q) \/ RefreshFails(q))
      <4>1. Receives /\ UNCHANGED spent /\ (refresh' = 0 \/ Stores)
        <5>1. Receives /\ UNCHANGED spent
          BY <3>4, PageEndReceives
        <5>2. CASE RefreshFails(q)
          BY <5>1, <5>2 DEF RefreshFails, Store
        <5>3. CASE RefreshSucceeds(q)
          <6>1. Replied(q, "ok") /\ refresh' = req[q].granted /\ req'[q] = Idle
            BY <5>3 DEF RefreshSucceeds, Store
          <6> QED
            BY <5>1, <6>1, IdleFacts DEF Stores, Replied
        <5> QED
          BY <3>4, <5>1, <5>2, <5>3
      <4> QED
        BY <4>1, ReceivesHands
    <3> QED
      BY <2>4, <3>1, <3>2, <3>3, <3>4 DEF Receive
  <2>5. ASSUME NEW g \in Pair, Expire(g) PROVE InGoodHands'
    <3>1. Receives /\ Kept
      BY <2>5, OutsideReceives
    <3>2. UNCHANGED spent
      BY <2>5 DEF Expire
    <3> QED
      BY <3>1, <3>2, ReceivesHands
  <2>6. ASSUME NEW p \in Page, Reload(p) PROVE InGoodHands'
    <3>1. ~refreshing[p]
      BY <2>6
    <3>2. Receives /\ UNCHANGED spent /\ UNCHANGED refresh
      BY <2>6, PageEndReceives DEF Reload, storage
    <3>3. Kept
      BY <2>6, <3>1, <3>2, PageEndReceives DEF Kept
    <3> QED
      BY <3>2, <3>3, ReceivesHands
  <2>7. CASE UNCHANGED vars
    BY <2>7 DEF vars, InGoodHands, Replied
  <2> QED
    BY <2>1, <2>2, <2>3, <2>4, <2>5, <2>6, <2>7 DEF Next
<1> QED
  BY <1>1, Invariance, FreshInvariance, PTL DEF StrandedByLossOnly, Spec

=============================================================================
