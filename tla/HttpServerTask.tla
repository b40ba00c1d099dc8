--------------------------- MODULE HttpServerTask ---------------------------
(***************************************************************************)
(* The RP2040 HTTP server (src/src/lib/Platform/RP2040/HttpServer.c): the  *)
(* server task and the application's task share serverSocket, serverTask,  *)
(* the route table and the default route, without a lock.  An action is    *)
(* one access to a shared variable, with the private work around it.       *)
(* Stores become visible in program order.  How a request is read is the   *)
(* subject of RequestReading: here reading is one step with its outcomes.  *)
(***************************************************************************)
EXTENDS Integers

CONSTANTS
    Endpoints,      \* what the application registers: a handler and its context
    MethodOf,       \* the method each endpoint is registered with ...
    PathOf,         \* ... and the path
    Requests,       \* request lines peers send: [method, path]
    MAX_ROUTES,     \* HTTP_SERVER_MAX_ROUTES
    Sockets,        \* descriptors of listening sockets
    Tasks,          \* identities of server tasks
    None            \* a null pointer, or a field never written

NoSocket == -1
Default == -1           \* as a matched route: &defaultRoute

RouteIndex == 0 .. MAX_ROUTES - 1

ASSUME RoutesAssumption == MAX_ROUTES \in Nat \ {0}
ASSUME NullAssumption == NoSocket \notin Sockets /\ None \notin Endpoints

VARIABLES
    serverTask,     \* serverTask # NULL
    serverSocket,
    listening,      \* listening sockets open in the TCP/IP stack
    task,           \* each server task: where it is, and its locals
    routes,
    routeCount,
    defaultRoute,
    useDefaultRoute,
    app,            \* the application task: the call it is in
    call            \* the callback invocation the task is at

vars == <<serverTask, serverSocket, listening, task, routes, routeCount,
          defaultRoute, useDefaultRoute, app, call>>

tableVars == <<routes, routeCount, defaultRoute, useDefaultRoute>>

Methods == {MethodOf[e] : e \in Endpoints}
Paths == {PathOf[e] : e \in Endpoints}
RouteType == [Method : Methods \cup {None}, Path : Paths \cup {None},
              Callback : Endpoints \cup {None}, Context : Endpoints \cup {None}]

TaskPcs == {"gone", "create", "test", "accept", "read", "match", "callback",
            "invoke", "close", "exit"}
AppPcs == {"idle", "closing", "clearing", "method", "path", "callback",
           "context", "publish"}

TaskType ==
    [pc : TaskPcs, fd : Sockets \cup {NoSocket}, request : Requests \cup {None},
     index : (0 .. MAX_ROUTES) \cup {Default}, pathExists : BOOLEAN,
     callback : Endpoints \cup {None}, disturbed : BOOLEAN]
AppType ==
    [pc : AppPcs, endpoint : Endpoints \cup {None}, slot : RouteIndex \cup {Default},
     socket : Sockets \cup {NoSocket}]

TypeOK ==
    /\ serverTask \in BOOLEAN
    /\ serverSocket \in Sockets \cup {NoSocket}
    /\ listening \subseteq Sockets
    /\ task \in [Tasks -> TaskType]
    /\ routes \in [RouteIndex -> RouteType]
    /\ routeCount \in 0 .. MAX_ROUTES
    /\ defaultRoute \in [Callback : Endpoints \cup {None}, Context : Endpoints \cup {None}]
    /\ useDefaultRoute \in BOOLEAN
    /\ app \in AppType

EmptyRoute == [Method |-> None, Path |-> None, Callback |-> None, Context |-> None]

Gone == [pc |-> "gone", fd |-> NoSocket, request |-> None, index |-> 0,
         pathExists |-> FALSE, callback |-> None, disturbed |-> FALSE]

Idle == [pc |-> "idle", endpoint |-> None, slot |-> 0, socket |-> NoSocket]

NoCall == [request |-> None, route |-> 0, callback |-> None, context |-> None,
           disturbed |-> FALSE]

Init ==
    /\ serverTask = FALSE
    /\ serverSocket = NoSocket
    /\ listening = {}
    /\ task = [t \in Tasks |-> Gone]
    /\ routes = [i \in RouteIndex |-> EmptyRoute]
    /\ routeCount = 0
    /\ defaultRoute = [Callback |-> None, Context |-> None]
    /\ useDefaultRoute = FALSE
    /\ app = Idle
    /\ call = NoCall

-----------------------------------------------------------------------------
(* The application's task.                                                 *)

(* HttpServerStart: "already running" is serverTask # NULL.  xTaskCreate   *)
(* stores the handle before the new task first runs.                       *)
HttpServerStart ==
    /\ app.pc = "idle"
    /\ ~serverTask
    /\ LET free == {t \in Tasks : task[t].pc = "gone"}
       IN  /\ free # {}
           /\ task' = [task EXCEPT ![CHOOSE t \in free : TRUE] =
                          [Gone EXCEPT !.pc = "create"]]
    /\ serverTask' = TRUE
    /\ UNCHANGED <<serverSocket, listening, tableVars, app, call>>

(* A stop that lets the next start go ahead at once.                       *)
Bug_StopTakesSocket ==
    /\ app.pc = "idle"
    /\ serverSocket # NoSocket
    /\ app' = [app EXCEPT !.pc = "closing", !.socket = serverSocket]
    /\ serverSocket' = NoSocket
    /\ serverTask' = FALSE
    /\ UNCHANGED <<listening, task, tableVars, call>>

(* HttpServerStop: takes the descriptor, closes it, empties the table.     *)
StopTakesSocket ==
    /\ app.pc = "idle"
    /\ serverSocket # NoSocket
    /\ app' = [app EXCEPT !.pc = "closing", !.socket = serverSocket]
    /\ serverSocket' = NoSocket
    /\ UNCHANGED <<serverTask, listening, task, tableVars, call>>

(* Closes serverSocket after setting it to -1, without the copy.           *)
Bug_StopClosesSocket ==
    /\ app.pc = "closing"
    /\ listening' = listening \ {serverSocket}
    /\ app' = [app EXCEPT !.pc = "clearing", !.socket = NoSocket]
    /\ UNCHANGED <<serverTask, serverSocket, task, tableVars, call>>

StopClosesSocket ==
    /\ app.pc = "closing"
    /\ listening' = listening \ {app.socket}
    /\ app' = [app EXCEPT !.pc = "clearing", !.socket = NoSocket]
    /\ UNCHANGED <<serverTask, serverSocket, task, tableVars, call>>

StopFindsNoSocket ==
    /\ app.pc = "idle"
    /\ serverSocket = NoSocket
    /\ app' = [app EXCEPT !.pc = "clearing"]
    /\ UNCHANGED <<serverTask, serverSocket, listening, task, tableVars, call>>

(* Marks a dispatch under which the table was emptied or the default route *)
(* overwritten: a record of the model's, not of the code's.                *)
Dispatching == {"match", "callback", "invoke"}

Disturb ==
    task' = [t \in Tasks |-> IF task[t].pc \in Dispatching
                             THEN [task[t] EXCEPT !.disturbed = TRUE]
                             ELSE task[t]]

ReplacingDefault == app.slot = Default /\ useDefaultRoute

StopEmptiesTable ==
    /\ app.pc = "clearing"
    /\ routeCount' = 0
    /\ app' = Idle
    /\ Disturb
    /\ UNCHANGED <<serverTask, serverSocket, listening, routes, defaultRoute,
                   useDefaultRoute, call>>

(* No room is checked for.                                                 *)
Bug_NoRoomCheck(e, slot, first) ==
    /\ app.pc = "idle"
    /\ app' = [app EXCEPT !.pc = first, !.endpoint = e, !.slot = slot]
    /\ UNCHANGED <<serverTask, serverSocket, listening, task, tableVars, call>>

(* The index is claimed before the fields are stored.                      *)
Bug_CountFirst(e, slot, first) ==
    /\ app.pc = "idle"
    /\ routeCount < MAX_ROUTES
    /\ routeCount' = routeCount + 1
    /\ app' = [app EXCEPT !.pc = first, !.endpoint = e, !.slot = slot]
    /\ UNCHANGED <<serverTask, serverSocket, listening, task, routes,
                   defaultRoute, useDefaultRoute, call>>

(* HttpServerRegisterEndpoint and HttpServerSetDefaultEndpoint: refused    *)
(* when the table is full; else the stores of the fields and the one that  *)
(* publishes.  Nothing reads the method and path of the default route.     *)
BeginRegister(e, slot, first) ==
    /\ app.pc = "idle"
    /\ routeCount < MAX_ROUTES
    /\ app' = [app EXCEPT !.pc = first, !.endpoint = e, !.slot = slot]
    /\ UNCHANGED <<serverTask, serverSocket, listening, task, tableVars, call>>

(* Registering a path again replaces its route where it stands.            *)
Bug_ReplaceRoute(e) ==
    LET same == {i \in 0 .. routeCount - 1 : routes[i].Path = PathOf[e]}
    IN  IF same = {} THEN BeginRegister(e, routeCount, "method")
        ELSE \E i \in same : BeginRegister(e, i, "method")

HttpServerRegisterEndpoint(e) == BeginRegister(e, routeCount, "method")

HttpServerSetDefaultEndpoint(e) == BeginRegister(e, Default, "callback")

Store(pc, next, field, value) ==
    /\ app.pc = pc
    /\ app' = [app EXCEPT !.pc = next]
    /\ IF app.slot = Default
       THEN /\ defaultRoute' = [defaultRoute EXCEPT ![field] = value]
            /\ IF useDefaultRoute THEN Disturb ELSE UNCHANGED task
            /\ UNCHANGED routes
       ELSE /\ routes' = [routes EXCEPT ![app.slot][field] = value]
            /\ UNCHANGED <<defaultRoute, task>>
    /\ UNCHANGED <<serverTask, serverSocket, listening, routeCount,
                   useDefaultRoute, call>>

StoreField ==
    \/ Store("method", "path", "Method", MethodOf[app.endpoint])
    \/ Store("path", "callback", "Path", PathOf[app.endpoint])
    \/ Store("callback", "context", "Callback", app.endpoint)
    \/ Store("context", "publish", "Context", app.endpoint)

Publish ==
    /\ app.pc = "publish"
    /\ app' = Idle
    /\ IF app.slot = Default
       THEN useDefaultRoute' = TRUE /\ UNCHANGED routeCount
       ELSE routeCount' = routeCount + 1 /\ UNCHANGED useDefaultRoute
    /\ UNCHANGED <<serverTask, serverSocket, listening, task, routes,
                   defaultRoute, call>>

App ==
    \/ HttpServerStart
    \/ StopTakesSocket \/ StopFindsNoSocket
    \/ \E e \in Endpoints :
        HttpServerRegisterEndpoint(e) \/ HttpServerSetDefaultEndpoint(e)

(* A call that has begun goes on to its end.                               *)
AppInCall ==
    StopClosesSocket \/ StopEmptiesTable \/ StoreField \/ Publish

-----------------------------------------------------------------------------
(* The server task.                                                        *)

Goto(t, pc) == task' = [task EXCEPT ![t].pc = pc]

(* CreateServerSocket fails at socket, bind or listen, and the task ends;  *)
(* or it returns the descriptor that is stored in serverSocket.            *)
CreateServerSocket(t) ==
    /\ task[t].pc = "create"
    /\ \/ /\ Sockets \ listening # {}
          /\ serverSocket' = CHOOSE s \in Sockets \ listening : TRUE
          /\ listening' = listening \cup {serverSocket'}
          /\ Goto(t, "test")
          /\ UNCHANGED serverTask
       \/ /\ serverSocket' = NoSocket
          /\ serverTask' = FALSE
          /\ task' = [task EXCEPT ![t] = Gone]
          /\ UNCHANGED listening
    /\ UNCHANGED <<tableVars, app, call>>

(* while (serverSocket >= 0)                                               *)
TestSocket(t) ==
    /\ task[t].pc = "test"
    /\ Goto(t, IF serverSocket # NoSocket THEN "accept" ELSE "exit")
    /\ UNCHANGED <<serverTask, serverSocket, listening, tableVars, app, call>>

(* accept(serverSocket, ...) reads the variable again.                     *)
CallAccept(t) ==
    /\ task[t].pc = "accept"
    /\ task[t].fd = NoSocket
    /\ serverSocket # NoSocket
    /\ task' = [task EXCEPT ![t].fd = serverSocket]
    /\ UNCHANGED <<serverTask, serverSocket, listening, tableVars, app, call>>

(* accept fails on a descriptor that is closed or was never valid, and may *)
(* fail on an open one.                                                    *)
AcceptFails(t) ==
    /\ task[t].pc = "accept"
    /\ task[t].fd = NoSocket => serverSocket = NoSocket
    /\ task' = [task EXCEPT ![t].fd = NoSocket,
                            ![t].pc = IF serverSocket = NoSocket THEN "exit" ELSE "test"]
    /\ UNCHANGED <<serverTask, serverSocket, listening, tableVars, app, call>>

AcceptReturns(t) ==
    /\ task[t].pc = "accept"
    /\ task[t].fd \in listening
    /\ task' = [task EXCEPT ![t].fd = NoSocket, ![t].pc = "read"]
    /\ UNCHANGED <<serverTask, serverSocket, listening, tableVars, app, call>>

(* ServeConnection's loop and ParseRequestLine: the connection ends, 413   *)
(* or 400 is answered; or a request line goes to MatchRoute.               *)
ReadRequest(t) ==
    /\ task[t].pc = "read"
    /\ \/ Goto(t, "close")
       \/ \E r \in Requests :
            task' = [task EXCEPT ![t] =
                        [@ EXCEPT !.pc = "match", !.request = r, !.index = 0,
                                  !.pathExists = FALSE, !.disturbed = ReplacingDefault]]
    /\ UNCHANGED <<serverTask, serverSocket, listening, tableVars, app, call>>

(* One iteration of MatchRoute, or its end.  With no match, 404 or 405.    *)
MatchRoute(t) ==
    LET i == task[t].index
        r == task[t].request
        samePath == routes[i].Path = r.path
    IN  /\ task[t].pc = "match"
        /\ IF i < routeCount
           THEN IF samePath /\ routes[i].Method = r.method
                THEN Goto(t, "callback")
                ELSE task' = [task EXCEPT ![t].index = i + 1,
                                          ![t].pathExists = @ \/ samePath]
           ELSE IF useDefaultRoute
                THEN task' = [task EXCEPT ![t].index = Default, ![t].pc = "callback"]
                ELSE Goto(t, "close")
        /\ UNCHANGED <<serverTask, serverSocket, listening, tableVars, app, call>>

Matched(t) == IF task[t].index = Default THEN defaultRoute ELSE routes[task[t].index]

(* match->Callback and match->Context are two loads.                       *)
LoadCallback(t) ==
    /\ task[t].pc = "callback"
    /\ task' = [task EXCEPT ![t].callback = Matched(t).Callback, ![t].pc = "invoke"]
    /\ UNCHANGED <<serverTask, serverSocket, listening, tableVars, app, call>>

InvokeCallback(t) ==
    /\ task[t].pc = "invoke"
    /\ call' = [request |-> task[t].request, route |-> task[t].index,
                callback |-> task[t].callback, context |-> Matched(t).Context,
                disturbed |-> task[t].disturbed]
    /\ Goto(t, "close")
    /\ UNCHANGED <<serverTask, serverSocket, listening, tableVars, app>>

(* SendResponse and closesocket of the connection.                         *)
CloseConnection(t) ==
    /\ task[t].pc = "close"
    /\ task' = [task EXCEPT ![t] = [Gone EXCEPT !.pc = "test"]]
    /\ call' = NoCall
    /\ UNCHANGED <<serverTask, serverSocket, listening, tableVars, app>>

(* The handle outlives its task.                                           *)
Bug_ExitTask(t) ==
    /\ task[t].pc = "exit"
    /\ listening' = listening \ {serverSocket}
    /\ serverSocket' = NoSocket
    /\ task' = [task EXCEPT ![t] = Gone]
    /\ UNCHANGED <<serverTask, tableVars, app, call>>

(* The task's end: a socket still there is closed, the handle is cleared.  *)
ExitTask(t) ==
    /\ task[t].pc = "exit"
    /\ listening' = listening \ {serverSocket}
    /\ serverSocket' = NoSocket
    /\ serverTask' = FALSE
    /\ task' = [task EXCEPT ![t] = Gone]
    /\ UNCHANGED <<tableVars, app, call>>

ServerTask(t) ==
    \/ CreateServerSocket(t) \/ TestSocket(t) \/ CallAccept(t)
    \/ AcceptFails(t) \/ AcceptReturns(t) \/ ReadRequest(t) \/ MatchRoute(t)
    \/ LoadCallback(t) \/ InvokeCallback(t) \/ CloseConnection(t) \/ ExitTask(t)

-----------------------------------------------------------------------------
Next == App \/ AppInCall \/ \E t \in Tasks : ServerTask(t)

Spec == Init /\ [][Next]_vars

(* The task is in accept on a descriptor, in recv, or in send: calls       *)
(* without a timeout, which only the stack and the peer can end.           *)
Waiting(t) ==
    \/ task[t].pc = "accept" /\ task[t].fd # NoSocket
    \/ task[t].pc \in {"read", "close"}

(* Both tasks are scheduled, and callbacks return.  Nothing is assumed of  *)
(* the calls a task waits in: lwIP is not built with                       *)
(* LWIP_NETCONN_FULLDUPLEX, so that a descriptor another task closes need  *)
(* not wake them.                                                          *)
FairSpec ==
    /\ Spec
    /\ WF_vars(AppInCall)
    /\ \A t \in Tasks : WF_vars(ServerTask(t) /\ ~Waiting(t))

-----------------------------------------------------------------------------
(* Properties.                                                             *)

(* One server task at most touches serverSocket and the connection buffer, *)
(* and serverTask tells of it, however starts and stops interleave.        *)
SingleServer ==
    /\ \A t, u \in Tasks : task[t].pc # "gone" /\ task[u].pc # "gone" => t = u
    /\ serverTask <=> \E t \in Tasks : task[t].pc # "gone"

(* No listening socket is lost: each open one is the server's, or is about *)
(* to be closed by a HttpServerStop under way.                             *)
NoSocketLost == listening = ({serverSocket, app.socket} \ {NoSocket})

(* The task matches against published routes only, and these are whole:    *)
(* the store that publishes a route comes last.                            *)
PublishedRoutesWhole ==
    \A i \in 0 .. routeCount - 1 :
        \E e \in Endpoints : routes[i] = [Method |-> MethodOf[e], Path |-> PathOf[e],
                                          Callback |-> e, Context |-> e]

(* A callback is invoked with the context it was registered with, for the  *)
(* method and path it was registered for, while further routes are being   *)
(* registered; unless HttpServerStop empties the table, or the default     *)
(* route is replaced, under the dispatch.                                  *)
DispatchIntact ==
    call.request # None /\ ~call.disturbed =>
        /\ call.callback = call.context
        /\ call.route # Default =>
            /\ MethodOf[call.callback] = call.request.method
            /\ PathOf[call.callback] = call.request.path

(* Once HttpServerStop has taken the socket, the task ends, unless a call  *)
(* of accept, recv or send holds it for ever: it serves no further         *)
(* connection, and what it comes back to finds serverSocket negative.      *)
StopEndsTask ==
    (serverSocket = NoSocket /\ \E t \in Tasks : task[t].pc \notin {"gone", "create"})
        ~> (~serverTask \/ []\E t \in Tasks : Waiting(t))

(* "context is carried through to the callback untouched"                  *)
(* (HttpServer.h:66).                                                      *)
ContextUntouched == call.request # None => call.context = call.callback

=============================================================================
