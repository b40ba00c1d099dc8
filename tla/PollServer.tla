----------------------------- MODULE PollServer -----------------------------
(***************************************************************************)
(* The polled HTTP server of the Simulator                                 *)
(* (src/src/lib/Platform/Simulator/HttpServer.c), which the ESP32 repeats  *)
(* line for line.  One thread runs all of it: the consumer's, lent to      *)
(* HttpServerPoll.  What moves by itself are the peers.  A callback runs   *)
(* on the same thread and may call the server: register, stop, start.      *)
(* How the bytes of a request are read is the subject of RequestReading.   *)
(***************************************************************************)
EXTENDS Integers, Sequences, FiniteSetsExt

CONSTANTS
    Endpoints,      \* what the consumer registers
    MethodOf, PathOf,
    Requests,       \* request lines peers send; the method may be unknown
    MAX_ROUTES,     \* HTTP_SERVER_MAX_ROUTES
    Peers,          \* one connection each
    BACKLOG,        \* connections the stack holds for accept
    None

ASSUME PollAssumption ==
    /\ MAX_ROUTES \in Nat \ {0} /\ BACKLOG \in Nat \ {0}
    /\ None \notin Endpoints /\ None \notin Peers
    /\ "none" \notin Endpoints
    /\ \A r \in Requests : r = [method |-> r.method, path |-> r.path]

VARIABLES
    listenSocket,   \* listenSocket >= 0
    open,           \* descriptors open in this process
    backlog,        \* connections waiting to be accepted
    peer,           \* each peer's view of its connection
    routes,         \* routes[0 .. routeCount - 1]: the endpoint of each
    defaultRoute, useDefaultRoute,
    pc,             \* where the thread is in HttpServerPoll
    connection,     \* the accepted connection
    request,        \* its request line, while a route is looked for
    verdict         \* what each peer is answered with

vars == <<listenSocket, open, backlog, peer, routes, defaultRoute,
          useDefaultRoute, pc, connection, request, verdict>>
tableVars == <<routes, defaultRoute, useDefaultRoute>>
socketVars == <<listenSocket, open, backlog, peer>>

Statuses == {"400", "404", "405", "413"}

TypeOK ==
    /\ listenSocket \in BOOLEAN
    /\ open \in 0 .. 2
    /\ backlog \in Seq(Peers) /\ Len(backlog) <= BACKLOG
    /\ peer \in [Peers -> {"away", "queued", "accepted", "over"}]
    /\ routes \in Seq(Endpoints) /\ Len(routes) <= MAX_ROUTES
    /\ defaultRoute \in Endpoints \cup {None}
    /\ useDefaultRoute \in BOOLEAN
    /\ pc \in {"idle", "accept", "read", "match", "callback", "respond", "close"}
    /\ connection \in Peers \cup {None}
    /\ request \in Requests \cup {None}
    /\ verdict \in [Peers -> {"none"} \cup Statuses \cup Endpoints]

Init ==
    /\ listenSocket = FALSE /\ open = 0
    /\ backlog = <<>>
    /\ peer = [p \in Peers |-> "away"]
    /\ routes = <<>>
    /\ defaultRoute = None /\ useDefaultRoute = FALSE
    /\ pc = "idle"
    /\ connection = None /\ request = None
    /\ verdict = [p \in Peers |-> "none"]

-----------------------------------------------------------------------------
(* The peers.  One that resets its connection while it waits stays in the  *)
(* backlog: accept or recv fails on it.                                    *)

PeerConnects(p) ==
    /\ listenSocket /\ Len(backlog) < BACKLOG
    /\ peer[p] = "away"
    /\ backlog' = Append(backlog, p)
    /\ peer' = [peer EXCEPT ![p] = "queued"]
    /\ UNCHANGED <<listenSocket, open, tableVars, pc, connection, request, verdict>>

-----------------------------------------------------------------------------
(* The consumer's calls, between polls or from its callback.               *)

MayCall == pc \in {"idle", "callback"}

(* The socket of a failed start is not closed.                             *)
Bug_HttpServerStart ==
    /\ MayCall
    /\ ~listenSocket
    /\ listenSocket' \in BOOLEAN
    /\ open' = open + 1
    /\ UNCHANGED <<backlog, peer, tableVars, pc, connection, request, verdict>>

(* socket, bind or listen may fail: the socket is closed again.            *)
HttpServerStart ==
    /\ MayCall
    /\ ~listenSocket
    /\ listenSocket' \in BOOLEAN
    /\ open' = IF listenSocket' THEN open + 1 ELSE open
    /\ UNCHANGED <<backlog, peer, tableVars, pc, connection, request, verdict>>

HttpServerStop ==
    /\ MayCall
    /\ listenSocket' = FALSE
    /\ open' = IF listenSocket THEN open - 1 ELSE open
    /\ backlog' = <<>>
    /\ peer' = [p \in Peers |-> IF peer[p] = "queued" THEN "over" ELSE peer[p]]
    /\ routes' = <<>>
    /\ UNCHANGED <<defaultRoute, useDefaultRoute, pc, connection, request, verdict>>

(* One registration more than there is room for.                           *)
Bug_HttpServerRegisterEndpoint(e) ==
    /\ MayCall
    /\ Len(routes) <= MAX_ROUTES
    /\ routes' = Append(routes, e)
    /\ UNCHANGED <<socketVars, defaultRoute, useDefaultRoute, pc, connection, request, verdict>>

HttpServerRegisterEndpoint(e) ==
    /\ MayCall
    /\ Len(routes) < MAX_ROUTES
    /\ routes' = Append(routes, e)
    /\ UNCHANGED <<socketVars, defaultRoute, useDefaultRoute, pc, connection, request, verdict>>

HttpServerSetDefaultEndpoint(e) ==
    /\ MayCall
    /\ Len(routes) < MAX_ROUTES
    /\ defaultRoute' = e
    /\ useDefaultRoute' = TRUE
    /\ UNCHANGED <<socketVars, routes, pc, connection, request, verdict>>

-----------------------------------------------------------------------------
(* HttpServerPoll.  A poll that returns false at once, because nothing     *)
(* listens or nobody connects in time, changes nothing and is no step.     *)

Goto(next) == pc' = next

(* select finds the listening socket readable.                             *)
SelectReady ==
    /\ pc = "idle"
    /\ listenSocket
    /\ backlog # <<>>
    /\ Goto("accept")
    /\ UNCHANGED <<socketVars, tableVars, connection, request, verdict>>

Accept ==
    /\ pc = "accept"
    /\ connection' = Head(backlog)
    /\ backlog' = Tail(backlog)
    /\ peer' = [peer EXCEPT ![connection'] = "accepted"]
    /\ open' = open + 1
    /\ Goto("read")
    /\ UNCHANGED <<listenSocket, tableVars, request, verdict>>

(* accept < 0: the connection was aborted, and is gone from the queue.     *)
AcceptFails ==
    /\ pc = "accept"
    /\ backlog' = Tail(backlog)
    /\ peer' = [peer EXCEPT ![Head(backlog)] = "over"]
    /\ Goto("idle")
    /\ UNCHANGED <<listenSocket, open, tableVars, connection, request, verdict>>

(* accept < 0 for want of a descriptor: the connection stays queued.       *)
AcceptRefused ==
    /\ pc = "accept"
    /\ Goto("idle")
    /\ UNCHANGED <<socketVars, tableVars, connection, request, verdict>>

Decide(v) == verdict' = [verdict EXCEPT ![connection] = v]

(* ReadRequest and ParseRequestLine: 413, 400, or a request line.  Until   *)
(* the peer sends or closes the thread waits in recv.                      *)
Read ==
    /\ pc = "read"
    /\ \/ /\ \E status \in {"413", "400"} : Decide(status)
          /\ Goto("respond")
          /\ UNCHANGED request
       \/ /\ request' \in Requests
          /\ Goto("match")
          /\ UNCHANGED verdict
    /\ UNCHANGED <<socketVars, tableVars, connection>>

SamePath(r) == {i \in 1 .. Len(routes) : PathOf[routes[i]] = r.path}
Matches(r) == {i \in SamePath(r) : MethodOf[routes[i]] = r.method}

(* The last match, not the first, ends the search.                         *)
Bug_MatchRoute(r) ==
    IF Matches(r) # {} THEN routes[Max(Matches(r))]
    ELSE IF useDefaultRoute THEN defaultRoute
    ELSE None

(* The first route of the path and the method, else the default route.     *)
MatchRoute(r) ==
    IF Matches(r) # {} THEN routes[Min(Matches(r))]
    ELSE IF useDefaultRoute THEN defaultRoute
    ELSE None

Match ==
    /\ pc = "match"
    /\ IF MatchRoute(request) # None
       THEN Decide(MatchRoute(request)) /\ Goto("callback")
       ELSE Decide(IF SamePath(request) # {} THEN "405" ELSE "404") /\ Goto("respond")
    /\ request' = None
    /\ UNCHANGED <<socketVars, tableVars, connection>>

CallbackReturns ==
    /\ pc = "callback"
    /\ Goto("respond")
    /\ UNCHANGED <<socketVars, tableVars, connection, request, verdict>>

(* The connection kept for another request.                                *)
Bug_Respond ==
    /\ pc = "respond"
    /\ pc' \in {"read", "close"}
    /\ UNCHANGED <<socketVars, tableVars, connection, request, verdict>>

(* WriteResponse and WriteStatusOnly, of which no result is looked at.     *)
Respond ==
    /\ pc = "respond"
    /\ Goto("close")
    /\ UNCHANGED <<socketVars, tableVars, connection, request, verdict>>

CloseConnection ==
    /\ pc = "close"
    /\ open' = open - 1
    /\ peer' = [peer EXCEPT ![connection] = "over"]
    /\ connection' = None
    /\ Goto("idle")
    /\ UNCHANGED <<listenSocket, backlog, tableVars, request, verdict>>

(* Steps the thread takes without waiting for a peer.                      *)
Local ==
    \/ SelectReady \/ Accept \/ AcceptFails \/ AcceptRefused
    \/ Match \/ CallbackReturns \/ Respond \/ CloseConnection

Next ==
    \/ HttpServerStart \/ HttpServerStop
    \/ \E e \in Endpoints :
        HttpServerRegisterEndpoint(e) \/ HttpServerSetDefaultEndpoint(e)
    \/ \E p \in Peers : PeerConnects(p)
    \/ Local \/ Read

Spec == Init /\ [][Next]_vars

(* The consumer keeps polling, and its callbacks return.                   *)
LocalSpec == Spec /\ WF_vars(Local)

(* Moreover a peer that is accepted sends a request or closes, and accept, *)
(* tried again and again, is not refused for ever.                         *)
FairSpec == LocalSpec /\ WF_vars(Read) /\ SF_vars(Accept \/ AcceptFails)

-----------------------------------------------------------------------------
(* Properties.                                                             *)

(* The table as the map of the contract.                                   *)
Bound ==
    [k \in {[method |-> MethodOf[e], path |-> PathOf[e]] : e \in Endpoints} |->
        IF Matches(k) = {} THEN None ELSE routes[Min(Matches(k))]]

Contract ==
    INSTANCE HttpServerContract WITH
        listening <- listenSocket,
        bound <- Bound,
        count <- Len(routes),
        default <- IF useDefaultRoute THEN defaultRoute ELSE None,
        serving <- connection

(* The polled server is a server of HttpServer.h: the linear search of the *)
(* table, whatever was registered twice, answers as the map of the         *)
(* contract does, one connection is served at a time, and none is let go   *)
(* without a verdict, while callbacks change the table and stop and start  *)
(* the server.                                                             *)
ImplementsContract == Contract!Spec

(* Every descriptor is the listening socket's or the connection's: failed  *)
(* starts, failed responses and stops from a callback leak none and close  *)
(* none twice.                                                             *)
NoDescriptorLost ==
    open = (IF listenSocket THEN 1 ELSE 0) + (IF connection # None THEN 1 ELSE 0)

(* A peer in the backlog is served and its connection closed, or loses it  *)
(* to a stop: none is left waiting behind the others.                      *)
QueuedPeerLeavesQueue == \A p \in Peers : (peer[p] = "queued") ~> (peer[p] = "over")

(* "the caller lends it one in slices short enough to keep its own loop    *)
(* running" (HttpServer.h:75): a poll returns whatever its peer does.      *)
PollReturns == (pc # "idle") ~> (pc = "idle")

=============================================================================
