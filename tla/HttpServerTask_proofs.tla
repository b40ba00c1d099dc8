------------------------ MODULE HttpServerTask_proofs ------------------------
(***************************************************************************)
(* Proofs about the RP2040's HTTP server: for every set of endpoints and   *)
(* requests, every size of the table, and every interleaving of the        *)
(* server task with the application's.                                     *)
(***************************************************************************)
EXTENDS HttpServerTask, TLAPS

Storing == {"method", "path", "callback", "context", "publish"}

(* Who answers for which socket: a call of HttpServerStop for the one it   *)
(* took, and the server task for the one it made.  Until it has made one   *)
(* there is none.                                                          *)
SocketsOwned ==
    /\ NoSocketLost
    /\ app.socket # NoSocket <=> app.pc = "closing"
    /\ serverSocket # NoSocket => serverTask /\ app.pc # "closing"
    /\ \A t \in Tasks : task[t].pc = "create" =>
            serverSocket = NoSocket /\ app.pc # "closing"

(* A registration under way writes the slot behind the published ones, or  *)
(* the default route, and what it has stored so far is what it was given.  *)
Registering ==
    /\ app.slot = Default => app.pc \in Storing \ {"method", "path"}
    /\ app.pc \in Storing =>
        /\ app.endpoint \in Endpoints
        /\ IF app.slot = Default
           THEN /\ app.pc \in {"context", "publish"} => defaultRoute.Callback = app.endpoint
                /\ app.pc = "publish" => defaultRoute.Context = app.endpoint
           ELSE /\ app.slot = routeCount /\ routeCount < MAX_ROUTES
                /\ app.pc # "method" => routes[app.slot].Method = MethodOf[app.endpoint]
                /\ app.pc \notin {"method", "path"} =>
                        routes[app.slot].Path = PathOf[app.endpoint]
                /\ app.pc \in {"context", "publish"} =>
                        routes[app.slot].Callback = app.endpoint
                /\ app.pc = "publish" => routes[app.slot].Context = app.endpoint

(* Whether a store into the default route in use has been made.            *)
DefaultTorn == ReplacingDefault /\ app.pc # "callback"

DefaultWhole ==
    useDefaultRoute /\ ~DefaultTorn => defaultRoute.Callback = defaultRoute.Context

(* An undisturbed dispatch has found a route that still stands.            *)
Dispatches ==
    \A t \in Tasks :
        /\ task[t].pc = "match" => task[t].index # Default
        /\ task[t].pc \in Dispatching /\ ~task[t].disturbed => ~DefaultTorn
        /\ task[t].pc \in {"callback", "invoke"} /\ ~task[t].disturbed =>
            IF task[t].index = Default THEN useDefaultRoute
            ELSE /\ task[t].index < routeCount
                 /\ routes[task[t].index].Method = task[t].request.method
                 /\ routes[task[t].index].Path = task[t].request.path
        /\ task[t].pc = "invoke" /\ ~task[t].disturbed =>
            task[t].callback = Matched(t).Callback

(* The inductive invariant.                                                *)
IInv ==
    /\ TypeOK /\ SingleServer /\ SocketsOwned
    /\ Registering /\ PublishedRoutesWhole /\ DefaultWhole
    /\ Dispatches /\ DispatchIntact

-----------------------------------------------------------------------------
(* A task that has not begun, or is between two connections.               *)
LEMMA FreshTask ==
    ASSUME NEW pc \in {"gone", "create", "test"}
    PROVE  /\ [Gone EXCEPT !.pc = pc] \in TaskType
           /\ [Gone EXCEPT !.pc = pc].pc = pc
           /\ Gone \in TaskType
<1>1. Gone \in TaskType
  BY RoutesAssumption DEF Gone, TaskType, TaskPcs
<1> QED
  BY <1>1 DEF TaskType, TaskPcs

LEMMA InitIInv == Init => IInv
<1> SUFFICES ASSUME Init PROVE IInv
  OBVIOUS
<1> USE RoutesAssumption, NullAssumption
<1>1. TypeOK
  <2>1. Gone \in TaskType
    BY FreshTask
  <2>2. Idle \in AppType
    BY DEF Idle, AppType, AppPcs, RouteIndex
  <2>3. EmptyRoute \in RouteType
    BY DEF EmptyRoute, RouteType
  <2> QED
    <3>1. routeCount \in 0 .. MAX_ROUTES
      BY DEF Init
    <3>2. /\ task \in [Tasks -> TaskType] /\ routes \in [RouteIndex -> RouteType]
          /\ app \in AppType /\ listening \subseteq Sockets
      BY <2>1, <2>2, <2>3 DEF Init
    <3>3. /\ serverTask \in BOOLEAN /\ useDefaultRoute \in BOOLEAN
          /\ serverSocket \in Sockets \cup {NoSocket}
          /\ defaultRoute \in [Callback : Endpoints \cup {None}, Context : Endpoints \cup {None}]
      BY DEF Init
    <3> QED
      BY <3>1, <3>2, <3>3 DEF TypeOK
<1>2. SingleServer /\ SocketsOwned
  BY DEF Init, Gone, Idle, SingleServer, SocketsOwned, NoSocketLost
<1>3. Registering /\ PublishedRoutesWhole /\ DefaultWhole
  BY DEF Init, Idle, Storing, Default, Registering, PublishedRoutesWhole, DefaultWhole
<1>4. Dispatches /\ DispatchIntact
  BY DEF Init, Gone, NoCall, Dispatching, Dispatches, DispatchIntact
<1> QED
  BY <1>1, <1>2, <1>3, <1>4 DEF IInv

-----------------------------------------------------------------------------
(* The server task.                                                        *)

(* It writes no route and no registration.                                 *)
LEMMA TaskLeavesTable ==
    ASSUME NEW t \in Tasks, ServerTask(t)
    PROVE  UNCHANGED <<routes, routeCount, defaultRoute, useDefaultRoute, app>>
  BY DEF ServerTask, CreateServerSocket, TestSocket, CallAccept, AcceptFails, AcceptReturns,
     ReadRequest, MatchRoute, LoadCallback, InvokeCallback, CloseConnection, ExitTask, tableVars

(* One task at a time changes, and only within its type.                   *)
LEMMA TaskStep ==
    ASSUME IInv, NEW t \in Tasks, ServerTask(t)
    PROVE  /\ task' \in [Tasks -> TaskType]
           /\ \A u \in Tasks \ {t} : task'[u] = task[u]
<1> USE RoutesAssumption, NullAssumption
<1>1. task \in [Tasks -> TaskType] /\ routeCount \in 0 .. MAX_ROUTES
  BY DEF IInv, TypeOK
<1>2. Gone \in TaskType /\ [Gone EXCEPT !.pc = "test"] \in TaskType
  BY FreshTask
<1>3. \A p \in TaskPcs : Goto(t, p) =>
        /\ task' \in [Tasks -> TaskType]
        /\ \A u \in Tasks \ {t} : task'[u] = task[u]
  BY <1>1 DEF Goto, TaskType
<1>4. CASE CreateServerSocket(t)
  BY <1>1, <1>2, <1>3, <1>4 DEF CreateServerSocket, TaskPcs
<1>5. CASE TestSocket(t)
  BY <1>3, <1>5 DEF TestSocket, TaskPcs
<1>6. CASE CallAccept(t)
  BY <1>1, <1>6 DEF CallAccept, TaskType, IInv, TypeOK
<1>7. CASE AcceptFails(t)
  BY <1>1, <1>7 DEF AcceptFails, TaskType, TaskPcs
<1>8. CASE AcceptReturns(t)
  BY <1>1, <1>8 DEF AcceptReturns, TaskType, TaskPcs
<1>9. CASE ReadRequest(t)
  <2>1. CASE Goto(t, "close")
    BY <1>3, <2>1 DEF TaskPcs
  <2>2. ASSUME NEW r \in Requests,
               task' = [task EXCEPT ![t] =
                        [@ EXCEPT !.pc = "match", !.request = r, !.index = 0,
                                  !.pathExists = FALSE, !.disturbed = ReplacingDefault]]
        PROVE  /\ task' \in [Tasks -> TaskType]
               /\ \A u \in Tasks \ {t} : task'[u] = task[u]
    <3>1. ReplacingDefault \in BOOLEAN
      BY DEF ReplacingDefault
    <3> DEFINE N(d) == [task[t] EXCEPT !.pc = "match", !.request = r, !.index = 0,
                                       !.pathExists = FALSE, !.disturbed = d]
               n == N(ReplacingDefault)
    <3>2. n \in TaskType
      <4>1. task[t] \in TaskType /\ 0 \in (0 .. MAX_ROUTES) \cup {Default}
        BY <1>1
      <4>2. \A d \in BOOLEAN : N(d) \in TaskType
        BY <4>1 DEF TaskType, TaskPcs
      <4> QED
        BY <3>1, <4>2
    <3>3. task' = [task EXCEPT ![t] = n]
      BY <2>2
    <3> HIDE DEF n
    <3> QED
      BY <1>1, <3>2, <3>3
  <2> QED
    BY <1>9, <2>1, <2>2 DEF ReadRequest
<1>10. CASE MatchRoute(t)
  BY <1>1, <1>3, <1>10 DEF MatchRoute, TaskType, TaskPcs, Default, IInv, Dispatches
<1>11. CASE LoadCallback(t)
  BY <1>1, <1>11 DEF LoadCallback, TaskType, TaskPcs, Matched, IInv, TypeOK, RouteType, RouteIndex
<1>12. CASE InvokeCallback(t)
  BY <1>3, <1>12 DEF InvokeCallback, TaskPcs
<1>13. CASE CloseConnection(t)
  BY <1>1, <1>2, <1>13 DEF CloseConnection
<1>14. CASE ExitTask(t)
  BY <1>1, <1>2, <1>14 DEF ExitTask
<1> QED
  BY <1>4, <1>5, <1>6, <1>7, <1>8, <1>9, <1>10, <1>11, <1>12, <1>13, <1>14 DEF ServerTask

(* A task is made by HttpServerStart alone, and goes when serverTask is    *)
(* cleared; between, serverSocket changes at its making and its end.       *)
LEMMA TaskSockets ==
    ASSUME IInv, NEW t \in Tasks, ServerTask(t)
    PROVE  /\ SingleServer' /\ SocketsOwned'
           /\ serverTask' \in BOOLEAN /\ serverSocket' \in Sockets \cup {NoSocket}
           /\ listening' \subseteq Sockets
<1> USE RoutesAssumption, NullAssumption
<1>1. /\ \A u \in Tasks \ {t} : task'[u] = task[u]
      /\ task[t] \in TaskType /\ task \in [Tasks -> TaskType] /\ task' \in [Tasks -> TaskType]
  BY TaskStep DEF IInv, TypeOK
<1>2. UNCHANGED app
  BY TaskLeavesTable
<1>3. \A u \in Tasks \ {t} : task[t].pc # "gone" => task[u].pc = "gone"
  BY DEF IInv, SingleServer
<1>4. task[t].pc # "gone" => serverTask
  BY DEF IInv, SingleServer
<1>5. CASE CreateServerSocket(t) /\ serverTask' = serverTask
  <2>1. /\ task[t].pc = "create" /\ task'[t].pc = "test"
        /\ Sockets \ listening # {}
        /\ serverSocket' = CHOOSE s \in Sockets \ listening : TRUE
        /\ listening' = listening \cup {serverSocket'}
    BY <1>1, <1>4, <1>5 DEF CreateServerSocket, Goto, TaskType
  <2>2. serverSocket' \in Sockets \ listening
    BY <2>1
  <2>3. serverSocket = NoSocket /\ app.pc # "closing" /\ listening = {} /\ app.socket = NoSocket
    BY <2>1 DEF IInv, SocketsOwned, NoSocketLost
  <2>4. SingleServer'
    BY <1>1, <1>3, <1>4, <1>5, <2>1 DEF SingleServer
  <2>5. SocketsOwned'
    BY <1>1, <1>2, <1>3, <1>4, <1>5, <2>1, <2>2, <2>3 DEF SocketsOwned, NoSocketLost
  <2> QED
    BY <1>5, <2>1, <2>2, <2>4, <2>5 DEF IInv, TypeOK
<1>6. CASE CreateServerSocket(t) /\ serverTask' # serverTask
  <2>1. /\ task[t].pc = "create" /\ task'[t].pc = "gone"
        /\ serverSocket' = NoSocket /\ serverTask' = FALSE /\ UNCHANGED listening
    BY <1>1, <1>6 DEF CreateServerSocket, Gone
  <2>2. serverSocket = NoSocket
    BY <2>1 DEF IInv, SocketsOwned
  <2>3. SingleServer'
    BY <1>1, <1>3, <2>1 DEF SingleServer
  <2>4. SocketsOwned'
    BY <1>1, <1>2, <1>3, <2>1, <2>2 DEF SocketsOwned, NoSocketLost, IInv
  <2> QED
    BY <2>1, <2>3, <2>4 DEF IInv, TypeOK
<1>7. CASE ExitTask(t)
  <2>1. /\ task[t].pc = "exit" /\ task'[t].pc = "gone"
        /\ serverSocket' = NoSocket /\ serverTask' = FALSE
        /\ listening' = listening \ {serverSocket}
    BY <1>1, <1>7 DEF ExitTask, Gone
  <2>2. SingleServer'
    BY <1>1, <1>3, <2>1 DEF SingleServer
  <2>3. SocketsOwned'
    BY <1>1, <1>2, <1>3, <2>1 DEF SocketsOwned, NoSocketLost, IInv
  <2> QED
    BY <2>1, <2>2, <2>3 DEF IInv, TypeOK
<1>8. ASSUME task[t].pc \notin {"gone", "create"}, task'[t].pc \notin {"gone", "create"},
             UNCHANGED <<serverTask, serverSocket, listening>>
      PROVE  SingleServer' /\ SocketsOwned' 
  <2>1. SingleServer'
    BY <1>1, <1>3, <1>4, <1>8 DEF SingleServer, IInv
  <2>2. SocketsOwned'
    BY <1>1, <1>2, <1>8 DEF SocketsOwned, NoSocketLost, IInv
  <2> QED
    BY <2>1, <2>2
<1>9. CASE TestSocket(t) \/ CallAccept(t) \/ AcceptFails(t) \/ AcceptReturns(t)
  <2>1. /\ task[t].pc \notin {"gone", "create"} /\ task'[t].pc \notin {"gone", "create"}
        /\ UNCHANGED <<serverTask, serverSocket, listening>>
    BY <1>1, <1>9 DEF TestSocket, CallAccept, AcceptFails, AcceptReturns, Goto, TaskType
  <2> QED
    BY <1>8, <2>1 DEF IInv, TypeOK
<1>10. CASE ReadRequest(t) \/ MatchRoute(t)
  <2>1. /\ task[t].pc \notin {"gone", "create"} /\ task'[t].pc \notin {"gone", "create"}
        /\ UNCHANGED <<serverTask, serverSocket, listening>>
    <3>1. CASE ReadRequest(t)
      <4>1. CASE Goto(t, "close")
        BY <1>1, <3>1, <4>1 DEF ReadRequest, Goto, TaskType
      <4>2. ASSUME NEW r \in Requests,
                   task' = [task EXCEPT ![t] =
                        [@ EXCEPT !.pc = "match", !.request = r, !.index = 0,
                                  !.pathExists = FALSE, !.disturbed = ReplacingDefault]]
            PROVE  task'[t].pc = "match"
        BY <1>1, <4>2 DEF TaskType
      <4> QED
        BY <1>1, <3>1, <4>1, <4>2 DEF ReadRequest
    <3>2. CASE MatchRoute(t) /\ task[t].index < routeCount
      BY <1>1, <3>2 DEF MatchRoute, Goto, TaskType
    <3>3. CASE MatchRoute(t) /\ ~(task[t].index < routeCount)
      BY <1>1, <3>3 DEF MatchRoute, Goto, TaskType
    <3> QED
      BY <1>10, <3>1, <3>2, <3>3
  <2> QED
    BY <1>8, <2>1 DEF IInv, TypeOK
<1>11. CASE LoadCallback(t) \/ InvokeCallback(t) \/ CloseConnection(t)
  <2>1. /\ task[t].pc \notin {"gone", "create"} /\ task'[t].pc \notin {"gone", "create"}
        /\ UNCHANGED <<serverTask, serverSocket, listening>>
    BY <1>1, <1>11 DEF LoadCallback, InvokeCallback, CloseConnection, Goto, TaskType, Gone
  <2> QED
    BY <1>8, <2>1 DEF IInv, TypeOK
<1> QED
  BY <1>5, <1>6, <1>7, <1>9, <1>10, <1>11 DEF ServerTask

(* What an undisturbed dispatch has found stays found: a step of the task  *)
(* only moves its own dispatch on.                                         *)
LEMMA TaskDispatch ==
    ASSUME IInv, NEW t \in Tasks, ServerTask(t)
    PROVE  Dispatches' /\ DispatchIntact'
<1> USE RoutesAssumption, NullAssumption
<1> DEFINE Own ==
      /\ task[t].pc = "match" => task[t].index # Default
      /\ task[t].pc \in Dispatching /\ ~task[t].disturbed => ~DefaultTorn
      /\ task[t].pc \in {"callback", "invoke"} /\ ~task[t].disturbed =>
          IF task[t].index = Default THEN useDefaultRoute
          ELSE /\ task[t].index < routeCount
               /\ routes[task[t].index].Method = task[t].request.method
               /\ routes[task[t].index].Path = task[t].request.path
      /\ task[t].pc = "invoke" /\ ~task[t].disturbed =>
          task[t].callback = Matched(t).Callback
<1>1. /\ \A u \in Tasks \ {t} : task'[u] = task[u]
      /\ task[t] \in TaskType /\ task \in [Tasks -> TaskType] /\ task' \in [Tasks -> TaskType]
  BY TaskStep DEF IInv, TypeOK
<1>2. UNCHANGED <<routes, routeCount, defaultRoute, useDefaultRoute, app>>
  BY TaskLeavesTable
<1>3. Own' => Dispatches'
  BY <1>1, <1>2 DEF IInv, Dispatches, DefaultTorn, ReplacingDefault, Matched
<1>4. Own
  BY DEF IInv, Dispatches
<1>5. UNCHANGED call => DispatchIntact'
  BY DEF IInv, DispatchIntact
<1>6. ASSUME task'[t].pc \notin Dispatching PROVE Own'
  BY <1>6 DEF Dispatching
<1>7. CASE CreateServerSocket(t) \/ ExitTask(t)
  BY <1>1, <1>3, <1>5, <1>6, <1>7
     DEF CreateServerSocket, ExitTask, Goto, Gone, TaskType, Dispatching
<1>8. CASE TestSocket(t) \/ CallAccept(t) \/ AcceptFails(t) \/ AcceptReturns(t)
  BY <1>1, <1>3, <1>5, <1>6, <1>8
     DEF TestSocket, CallAccept, AcceptFails, AcceptReturns, Goto, TaskType, Dispatching
<1>9. CASE ReadRequest(t)
  <2>1. CASE Goto(t, "close")
    BY <1>1, <1>3, <1>5, <1>6, <1>9, <2>1 DEF ReadRequest, Goto, TaskType, Dispatching
  <2>2. CASE \E r \in Requests :
            task' = [task EXCEPT ![t] =
                        [@ EXCEPT !.pc = "match", !.request = r, !.index = 0,
                                  !.pathExists = FALSE, !.disturbed = ReplacingDefault]]
    <3>1. /\ task'[t].pc = "match" /\ task'[t].index # Default
          /\ task'[t].disturbed = ReplacingDefault
      BY <1>1, <2>2 DEF TaskType, Default
    <3>2. Own'
      BY <1>2, <3>1 DEF DefaultTorn, ReplacingDefault
    <3> QED
      BY <1>3, <1>5, <1>9, <3>2 DEF ReadRequest
  <2> QED
    BY <1>9, <2>1, <2>2 DEF ReadRequest
<1>10. CASE MatchRoute(t)
  <2>1. task[t].pc = "match" /\ UNCHANGED call
    BY <1>10 DEF MatchRoute
  <2>2. \/ /\ task[t].index < routeCount
           /\ routes[task[t].index].Path = task[t].request.path
           /\ routes[task[t].index].Method = task[t].request.method
           /\ task'[t] = [task[t] EXCEPT !.pc = "callback"]
        \/ /\ task'[t].pc = "match" /\ task'[t].index = task[t].index + 1
           /\ task'[t].disturbed = task[t].disturbed
        \/ /\ useDefaultRoute
           /\ task'[t].pc = "callback" /\ task'[t].index = Default
           /\ task'[t].disturbed = task[t].disturbed
        \/ task'[t].pc = "close"
    <3>1. CASE task[t].index < routeCount
      BY <1>1, <1>10, <3>1 DEF MatchRoute, Goto, TaskType
    <3>2. CASE ~(task[t].index < routeCount)
      BY <1>1, <1>10, <3>2 DEF MatchRoute, Goto, TaskType
    <3> QED
      BY <3>1, <3>2
  <2>3. task[t].index \in 0 .. MAX_ROUTES
    BY <1>1, <1>4, <2>1 DEF TaskType
  <2>4. Own'
    BY <1>1, <1>2, <1>4, <2>1, <2>2, <2>3
       DEF Dispatching, DefaultTorn, ReplacingDefault, Default, TaskType
  <2> QED
    BY <1>3, <1>5, <2>1, <2>4
<1>11. CASE LoadCallback(t)
  <2>1. /\ task[t].pc = "callback" /\ UNCHANGED call
        /\ task'[t] = [task[t] EXCEPT !.callback = Matched(t).Callback, !.pc = "invoke"]
    BY <1>1, <1>11 DEF LoadCallback
  <2>2. /\ task'[t].pc = "invoke" /\ task'[t].callback = Matched(t).Callback
        /\ task'[t].index = task[t].index /\ task'[t].request = task[t].request
        /\ task'[t].disturbed = task[t].disturbed
    BY <1>1, <2>1 DEF TaskType
  <2>3. Own'
    BY <1>2, <1>4, <2>1, <2>2
       DEF Dispatching, DefaultTorn, ReplacingDefault, Matched
  <2> QED
    BY <1>3, <1>5, <2>1, <2>3
<1>12. CASE InvokeCallback(t)
  <2>1. task[t].pc = "invoke" /\ task'[t].pc = "close"
    BY <1>1, <1>12 DEF InvokeCallback, Goto, TaskType
  <2>2. Own'
    BY <1>6, <2>1 DEF Dispatching
  <2>3. DispatchIntact'
    <3>1. /\ call'.request = task[t].request /\ call'.route = task[t].index
          /\ call'.callback = task[t].callback /\ call'.context = Matched(t).Context
          /\ call'.disturbed = task[t].disturbed
      BY <1>12 DEF InvokeCallback
    <3> SUFFICES ASSUME ~task[t].disturbed
                 PROVE  /\ task[t].callback = Matched(t).Context
                        /\ task[t].index # Default =>
                            /\ MethodOf[task[t].callback] = task[t].request.method
                            /\ PathOf[task[t].callback] = task[t].request.path
      BY <3>1 DEF DispatchIntact
    <3>2. task[t].callback = Matched(t).Callback /\ ~DefaultTorn
      BY <1>4, <2>1 DEF Dispatching
    <3>3. CASE task[t].index = Default
      BY <1>4, <2>1, <3>2, <3>3 DEF IInv, DefaultWhole, Matched
    <3>4. CASE task[t].index # Default
      <4>1. /\ task[t].index \in 0 .. routeCount - 1
            /\ routes[task[t].index].Method = task[t].request.method
            /\ routes[task[t].index].Path = task[t].request.path
        BY <1>1, <1>4, <2>1, <3>4 DEF TaskType, IInv, TypeOK
      <4>2. PICK e \in Endpoints : routes[task[t].index] =
                [Method |-> MethodOf[e], Path |-> PathOf[e], Callback |-> e, Context |-> e]
        BY <4>1 DEF IInv, PublishedRoutesWhole
      <4> QED
        BY <3>2, <3>4, <4>1, <4>2 DEF Matched
    <3> QED
      BY <3>3, <3>4
  <2> QED
    BY <1>3, <2>2, <2>3
<1>13. CASE CloseConnection(t)
  <2>1. task'[t].pc = "test" /\ call'.request = None
    BY <1>1, <1>13 DEF CloseConnection, Gone, NoCall
  <2> QED
    BY <1>3, <1>6, <2>1 DEF DispatchIntact, Dispatching
<1> QED
  BY <1>7, <1>8, <1>9, <1>10, <1>11, <1>12, <1>13 DEF ServerTask

LEMMA TaskIInv ==
    ASSUME IInv, NEW t \in Tasks, ServerTask(t)
    PROVE  IInv'
<1>1. UNCHANGED <<routes, routeCount, defaultRoute, useDefaultRoute, app>>
  BY TaskLeavesTable
<1>2. TypeOK'
  BY <1>1, TaskStep, TaskSockets DEF IInv, TypeOK
<1>3. Registering' /\ PublishedRoutesWhole' /\ DefaultWhole'
  BY <1>1 DEF IInv, Registering, PublishedRoutesWhole, DefaultWhole, DefaultTorn, ReplacingDefault
<1> QED
  BY <1>2, <1>3, TaskSockets, TaskDispatch DEF IInv

-----------------------------------------------------------------------------
(* The application's task.                                                 *)

(* HttpServerStart makes the one task there is; no other task of the code  *)
(* does.                                                                   *)
LEMMA StartIInv ==
    ASSUME IInv, HttpServerStart
    PROVE  IInv'
<1> USE RoutesAssumption, NullAssumption
<1> DEFINE t == CHOOSE u \in {v \in Tasks : task[v].pc = "gone"} : TRUE
           n == [Gone EXCEPT !.pc = "create"]
<1>1. /\ app.pc = "idle" /\ ~serverTask /\ serverTask' = TRUE
      /\ {v \in Tasks : task[v].pc = "gone"} # {}
      /\ task' = [task EXCEPT ![t] = n]
      /\ UNCHANGED <<serverSocket, listening, routes, routeCount, defaultRoute,
                     useDefaultRoute, app, call>>
  BY DEF HttpServerStart, tableVars
<1>2. t \in Tasks /\ task[t].pc = "gone"
  BY <1>1
<1>3. n \in TaskType /\ n.pc = "create"
  BY FreshTask
<1> HIDE DEF t, n
<1>4. task \in [Tasks -> TaskType]
  BY DEF IInv, TypeOK
<1>5. /\ task' \in [Tasks -> TaskType] /\ task'[t].pc = "create"
      /\ \A u \in Tasks \ {t} : task'[u] = task[u]
  BY <1>1, <1>2, <1>3, <1>4
<1>6. serverSocket = NoSocket /\ \A u \in Tasks : task[u].pc = "gone"
  BY <1>1 DEF IInv, SocketsOwned, SingleServer
<1>7. TypeOK'
  BY <1>1, <1>5 DEF IInv, TypeOK
<1>8. SingleServer'
  BY <1>1, <1>2, <1>5, <1>6 DEF SingleServer
<1>9. SocketsOwned'
  BY <1>1, <1>5, <1>6 DEF IInv, SocketsOwned, NoSocketLost
<1>10. Registering' /\ PublishedRoutesWhole' /\ DefaultWhole' /\ DispatchIntact'
  BY <1>1 DEF IInv, Registering, PublishedRoutesWhole, DefaultWhole, DefaultTorn,
     ReplacingDefault, DispatchIntact
<1>11. Dispatches'
  BY <1>5, <1>6 DEF Dispatches, Dispatching
<1> QED
  BY <1>7, <1>8, <1>9, <1>10, <1>11 DEF IInv

(* A step of a call that leaves the table and the tasks alone.             *)
LEMMA QuietCall ==
    ASSUME IInv, UNCHANGED <<serverTask, task, routes, routeCount, defaultRoute,
                             useDefaultRoute, call>>,
           app' \in AppType, app'.slot = app.slot,
           app.pc \notin Storing, app'.pc \notin Storing
    PROVE  /\ SingleServer' /\ Registering' /\ PublishedRoutesWhole' /\ DefaultWhole'
           /\ Dispatches' /\ DispatchIntact'
<1>1. SingleServer' /\ PublishedRoutesWhole' /\ DispatchIntact'
  BY DEF IInv, SingleServer, PublishedRoutesWhole, DispatchIntact
<1>2. app.slot # Default
  BY DEF IInv, Registering
<1>3. Registering' /\ DefaultWhole'
  BY <1>2 DEF IInv, Registering, DefaultWhole, DefaultTorn, ReplacingDefault
<1>4. Dispatches'
  BY <1>2 DEF IInv, Dispatches, DefaultTorn, ReplacingDefault, Matched
<1> QED
  BY <1>1, <1>3, <1>4

LEMMA StopIInv ==
    ASSUME IInv, StopTakesSocket \/ StopClosesSocket \/ StopFindsNoSocket
    PROVE  IInv'
<1> USE NullAssumption
<1>1. app \in AppType /\ serverSocket \in Sockets \cup {NoSocket}
  BY DEF IInv, TypeOK
<1>2. UNCHANGED <<serverTask, task, routes, routeCount, defaultRoute, useDefaultRoute, call>>
  BY DEF StopTakesSocket, StopClosesSocket, StopFindsNoSocket, tableVars
<1>3. /\ app' \in AppType /\ app'.slot = app.slot
      /\ app.pc \notin Storing /\ app'.pc \notin Storing
  BY <1>1 DEF StopTakesSocket, StopClosesSocket, StopFindsNoSocket, AppType, AppPcs, Storing
<1>4. /\ serverSocket' \in Sockets \cup {NoSocket} /\ listening' \subseteq Sockets
      /\ SocketsOwned'
  <2>1. CASE StopTakesSocket
    <3>1. /\ app.pc = "idle" /\ serverSocket # NoSocket /\ serverSocket' = NoSocket
          /\ app'.pc = "closing" /\ app'.socket = serverSocket
          /\ UNCHANGED <<listening, task>>
      BY <1>1, <2>1 DEF StopTakesSocket, AppType
    <3>2. listening = {serverSocket}
      BY <3>1 DEF IInv, SocketsOwned, NoSocketLost
    <3> QED
      BY <1>1, <3>1, <3>2 DEF IInv, TypeOK, SocketsOwned, NoSocketLost
  <2>2. CASE StopClosesSocket
    <3>1. /\ app.pc = "closing" /\ listening' = listening \ {app.socket}
          /\ app'.pc = "clearing" /\ app'.socket = NoSocket
          /\ UNCHANGED <<serverTask, serverSocket, task>>
      BY <1>1, <2>2 DEF StopClosesSocket, AppType
    <3> QED
      BY <1>1, <3>1 DEF IInv, TypeOK, SocketsOwned, NoSocketLost
  <2>3. CASE StopFindsNoSocket
    <3>1. /\ app.pc = "idle" /\ app'.pc = "clearing" /\ app'.socket = app.socket
          /\ UNCHANGED <<serverTask, serverSocket, listening, task>>
      BY <1>1, <2>3 DEF StopFindsNoSocket, AppType
    <3> QED
      BY <3>1 DEF IInv, TypeOK, SocketsOwned, NoSocketLost
  <2> QED
    BY <2>1, <2>2, <2>3
<1>5. TypeOK'
  BY <1>2, <1>3, <1>4 DEF IInv, TypeOK
<1> QED
  BY <1>2, <1>3, <1>4, <1>5, QuietCall DEF IInv

(* Registering moves neither sockets nor tasks.                            *)
LEMMA QuietSockets ==
    ASSUME IInv, UNCHANGED <<serverTask, serverSocket, listening>>,
           \A t \in Tasks : task'[t].pc = task[t].pc,
           app.pc # "closing", app'.pc # "closing", app'.socket \in {app.socket, NoSocket}
    PROVE  SingleServer' /\ SocketsOwned'
<1>1. app'.socket = app.socket /\ app.socket = NoSocket
  BY DEF IInv, SocketsOwned
<1> QED
  BY <1>1 DEF IInv, SingleServer, SocketsOwned, NoSocketLost

(* Disturb marks every dispatch, and nothing else.                         *)
LEMMA DisturbMarks ==
    ASSUME TypeOK, Disturb
    PROVE  /\ task' \in [Tasks -> TaskType]
           /\ \A t \in Tasks :
                /\ task'[t].pc = task[t].pc /\ task'[t].index = task[t].index
                /\ task[t].pc \in Dispatching => task'[t].disturbed
<1>1. task \in [Tasks -> TaskType]
  BY DEF TypeOK
<1> SUFFICES ASSUME NEW t \in Tasks
             PROVE  /\ task'[t] \in TaskType
                    /\ task'[t].pc = task[t].pc /\ task'[t].index = task[t].index
                    /\ task[t].pc \in Dispatching => task'[t].disturbed
  BY DEF Disturb
<1>2. task[t] \in TaskType
  BY <1>1
<1>3. task'[t] = IF task[t].pc \in Dispatching THEN [task[t] EXCEPT !.disturbed = TRUE]
                 ELSE task[t]
  BY DEF Disturb
<1> QED
  BY <1>2, <1>3 DEF TaskType

LEMMA IdleFacts ==
    /\ Idle \in AppType /\ Idle.pc = "idle" /\ Idle.slot # Default /\ Idle.socket = NoSocket
    /\ Idle.pc \notin Storing
<1>1. 0 \in RouteIndex
  BY RoutesAssumption DEF RouteIndex
<1> QED
  BY <1>1 DEF Idle, AppType, AppPcs, Storing, Default

LEMMA EmptyIInv ==
    ASSUME IInv, StopEmptiesTable
    PROVE  IInv'
<1>1. /\ app.pc = "clearing" /\ routeCount' = 0 /\ app' = Idle /\ Disturb
      /\ UNCHANGED <<serverTask, serverSocket, listening, routes, defaultRoute,
                     useDefaultRoute, call>>
  BY DEF StopEmptiesTable
<1>2. app.slot # Default
  BY <1>1 DEF IInv, Registering, Storing
<1>3. TypeOK'
  BY <1>1, DisturbMarks, IdleFacts, RoutesAssumption DEF IInv, TypeOK
<1>4. SingleServer' /\ SocketsOwned'
  BY <1>1, DisturbMarks, IdleFacts, QuietSockets DEF IInv
<1>5. Registering' /\ PublishedRoutesWhole' /\ DispatchIntact'
  BY <1>1, IdleFacts DEF IInv, Registering, PublishedRoutesWhole, DispatchIntact
<1>6. DefaultWhole'
  BY <1>1, <1>2, IdleFacts DEF IInv, DefaultWhole, DefaultTorn, ReplacingDefault
<1>7. Dispatches'
  BY <1>1, DisturbMarks DEF IInv, Dispatches, Dispatching
<1> QED
  BY <1>3, <1>4, <1>5, <1>6, <1>7 DEF IInv

LEMMA BeginIInv ==
    ASSUME IInv, NEW e \in Endpoints,
           HttpServerRegisterEndpoint(e) \/ HttpServerSetDefaultEndpoint(e)
    PROVE  IInv'
<1> USE RoutesAssumption, NullAssumption
<1>1. /\ app.pc = "idle" /\ routeCount < MAX_ROUTES
      /\ UNCHANGED <<serverTask, serverSocket, listening, task, routes, routeCount,
                     defaultRoute, useDefaultRoute, call>>
  BY DEF HttpServerRegisterEndpoint, HttpServerSetDefaultEndpoint, BeginRegister, tableVars
<1>2. app \in AppType /\ routeCount \in RouteIndex /\ routeCount # Default
  BY <1>1 DEF IInv, TypeOK, RouteIndex, Default
<1>3. /\ app' \in AppType /\ app'.endpoint = e /\ app'.socket = app.socket
      /\ \/ app'.slot = routeCount /\ app'.pc = "method"
         \/ app'.slot = Default /\ app'.pc = "callback"
  BY <1>2 DEF HttpServerRegisterEndpoint, HttpServerSetDefaultEndpoint, BeginRegister,
     AppType, AppPcs
<1>4. app.slot # Default
  BY <1>1 DEF IInv, Registering, Storing
<1>5. TypeOK'
  BY <1>1, <1>3 DEF IInv, TypeOK
<1>6. SingleServer' /\ SocketsOwned'
  BY <1>1, <1>3, QuietSockets
<1>7. Registering'
  BY <1>1, <1>2, <1>3 DEF Registering, Storing
<1>8. PublishedRoutesWhole' /\ DispatchIntact'
  BY <1>1 DEF IInv, PublishedRoutesWhole, DispatchIntact
<1>9. ~DefaultTorn /\ ~DefaultTorn'
  BY <1>2, <1>3, <1>4 DEF DefaultTorn, ReplacingDefault
<1>10. DefaultWhole' /\ Dispatches'
  BY <1>1, <1>9 DEF IInv, DefaultWhole, Dispatches, Matched
<1> QED
  BY <1>5, <1>6, <1>7, <1>8, <1>10 DEF IInv

(* A store into a slot: the one behind the published routes.               *)
LEMMA SlotStoreIInv ==
    ASSUME IInv, StoreField, app.slot # Default
    PROVE  IInv'
<1> USE RoutesAssumption, NullAssumption
<1> DEFINE e == app.endpoint
           s == app.slot
<1>1. /\ app \in AppType /\ routes \in [RouteIndex -> RouteType] /\ routeCount \in Nat
      /\ app.pc \in Storing
  BY DEF IInv, TypeOK, StoreField, Store, Storing
<1>2. e \in Endpoints /\ s = routeCount /\ s \in RouteIndex /\ e # None
  BY <1>1 DEF IInv, Registering, RouteIndex
<1>3. /\ MethodOf[e] \in Methods /\ PathOf[e] \in Paths
      /\ routes[s] \in RouteType
  BY <1>1, <1>2 DEF Methods, Paths
<1>4. /\ UNCHANGED <<serverTask, serverSocket, listening, task, routeCount, defaultRoute,
                     useDefaultRoute, call>>
      /\ \/ /\ app.pc = "method" /\ app' = [app EXCEPT !.pc = "path"]
            /\ routes' = [routes EXCEPT ![s].Method = MethodOf[e]]
         \/ /\ app.pc = "path" /\ app' = [app EXCEPT !.pc = "callback"]
            /\ routes' = [routes EXCEPT ![s].Path = PathOf[e]]
         \/ /\ app.pc = "callback" /\ app' = [app EXCEPT !.pc = "context"]
            /\ routes' = [routes EXCEPT ![s].Callback = e]
         \/ /\ app.pc = "context" /\ app' = [app EXCEPT !.pc = "publish"]
            /\ routes' = [routes EXCEPT ![s].Context = e]
  BY DEF StoreField, Store
<1>5. /\ app' \in AppType
      /\ app'.endpoint = e /\ app'.slot = s /\ app'.socket = app.socket
      /\ app'.pc \in Storing
  BY <1>1, <1>4 DEF AppType, AppPcs, Storing
<1>6. /\ routes' \in [RouteIndex -> RouteType]
      /\ \A i \in RouteIndex \ {s} : routes'[i] = routes[i]
  BY <1>1, <1>2, <1>3, <1>4 DEF RouteType
<1>7. TypeOK'
  BY <1>4, <1>5, <1>6 DEF IInv, TypeOK
<1>8. SingleServer' /\ SocketsOwned'
  BY <1>1, <1>4, <1>5, QuietSockets DEF Storing
<1>9. Registering'
  <2>1. app.pc = "method" => routes'[s].Method = MethodOf[e] /\ app'.pc = "path"
    BY <1>1, <1>2, <1>4 DEF RouteType, AppType
  <2>2. app.pc = "path" => /\ routes'[s].Method = routes[s].Method
                           /\ routes'[s].Path = PathOf[e] /\ app'.pc = "callback"
    BY <1>1, <1>2, <1>3, <1>4 DEF RouteType, AppType
  <2>3. app.pc = "callback" => /\ routes'[s].Method = routes[s].Method
                               /\ routes'[s].Path = routes[s].Path
                               /\ routes'[s].Callback = e /\ app'.pc = "context"
    BY <1>1, <1>2, <1>3, <1>4 DEF RouteType, AppType
  <2>4. app.pc = "context" => /\ routes'[s].Method = routes[s].Method
                              /\ routes'[s].Path = routes[s].Path
                              /\ routes'[s].Callback = routes[s].Callback
                              /\ routes'[s].Context = e /\ app'.pc = "publish"
    BY <1>1, <1>2, <1>3, <1>4 DEF RouteType, AppType
  <2>5. /\ app.pc \in {"method", "path", "callback", "context"}
        /\ UNCHANGED <<routeCount, defaultRoute>>
    BY <1>4
  <2> QED
    BY <1>2, <1>5, <2>1, <2>2, <2>3, <2>4, <2>5 DEF IInv, Registering, Storing
<1>10. \A i \in 0 .. routeCount - 1 : routes'[i] = routes[i]
  BY <1>1, <1>2, <1>6 DEF RouteIndex
<1>11. PublishedRoutesWhole' /\ DispatchIntact'
  BY <1>4, <1>10 DEF IInv, PublishedRoutesWhole, DispatchIntact
<1>12. ~DefaultTorn /\ ~DefaultTorn'
  BY <1>5 DEF DefaultTorn, ReplacingDefault
<1>13. DefaultWhole'
  BY <1>4, <1>12 DEF IInv, DefaultWhole
<1>14. Dispatches'
  <2> SUFFICES ASSUME NEW t \in Tasks, task[t].pc \in {"callback", "invoke"},
                      ~task[t].disturbed, task[t].index # Default
               PROVE  routes'[task[t].index] = routes[task[t].index]
    BY <1>4, <1>12 DEF IInv, Dispatches, Matched
  <2>1. task[t] \in TaskType /\ task[t].index < routeCount
    BY DEF IInv, Dispatches, TypeOK
  <2> QED
    BY <1>1, <1>10, <2>1 DEF TaskType
<1> QED
  BY <1>7, <1>8, <1>9, <1>11, <1>13, <1>14 DEF IInv

(* A store into the default route.  If that is in use the dispatches under *)
(* way are disturbed by it.                                                *)
LEMMA DefaultStoreIInv ==
    ASSUME IInv, StoreField, app.slot = Default
    PROVE  IInv'
<1> USE RoutesAssumption, NullAssumption
<1> DEFINE e == app.endpoint
<1>1. /\ app \in AppType /\ app.pc \in {"callback", "context"} /\ e \in Endpoints
      /\ task \in [Tasks -> TaskType]
      /\ defaultRoute \in [Callback : Endpoints \cup {None}, Context : Endpoints \cup {None}]
  BY DEF IInv, TypeOK, Registering, StoreField, Store, Storing
<1>2. /\ UNCHANGED <<serverTask, serverSocket, listening, routes, routeCount,
                     useDefaultRoute, call>>
      /\ \/ /\ app.pc = "callback" /\ app' = [app EXCEPT !.pc = "context"]
            /\ defaultRoute' = [defaultRoute EXCEPT !.Callback = e]
         \/ /\ app.pc = "context" /\ app' = [app EXCEPT !.pc = "publish"]
            /\ defaultRoute' = [defaultRoute EXCEPT !.Context = e]
      /\ IF useDefaultRoute THEN Disturb ELSE UNCHANGED task
  BY <1>1 DEF StoreField, Store
<1>3. /\ app' \in AppType /\ app'.endpoint = e /\ app'.slot = Default
      /\ app'.socket = app.socket /\ app'.pc \in {"context", "publish"}
  BY <1>1, <1>2 DEF AppType, AppPcs
<1>4. /\ defaultRoute' \in [Callback : Endpoints \cup {None}, Context : Endpoints \cup {None}]
      /\ app.pc = "callback" => defaultRoute'.Callback = e /\ app'.pc = "context"
      /\ app.pc = "context" => /\ defaultRoute'.Callback = defaultRoute.Callback
                               /\ defaultRoute'.Context = e /\ app'.pc = "publish"
  BY <1>1, <1>2 DEF AppType
<1>5. /\ task' \in [Tasks -> TaskType]
      /\ \A t \in Tasks :
            /\ task'[t].pc = task[t].pc /\ task'[t].index = task[t].index
            /\ useDefaultRoute /\ task[t].pc \in Dispatching => task'[t].disturbed
  BY <1>1, <1>2, DisturbMarks DEF IInv
<1>6. TypeOK'
  BY <1>2, <1>3, <1>4, <1>5 DEF IInv, TypeOK
<1>7. SingleServer' /\ SocketsOwned'
  BY <1>1, <1>2, <1>3, <1>5, QuietSockets
<1>8. Registering'
  BY <1>1, <1>2, <1>3, <1>4 DEF IInv, Registering, Storing
<1>9. PublishedRoutesWhole' /\ DispatchIntact'
  BY <1>2 DEF IInv, PublishedRoutesWhole, DispatchIntact
<1>10. useDefaultRoute => DefaultTorn'
  BY <1>2, <1>3 DEF DefaultTorn, ReplacingDefault
<1>11. DefaultWhole'
  BY <1>2, <1>10 DEF DefaultWhole
<1>12. Dispatches'
  <2>1. CASE useDefaultRoute
    BY <1>5, <2>1 DEF IInv, Dispatches, Dispatching
  <2>2. CASE ~useDefaultRoute
    BY <1>2, <2>2 DEF IInv, Dispatches, DefaultTorn, ReplacingDefault, Matched
  <2> QED
    BY <2>1, <2>2
<1> QED
  BY <1>6, <1>7, <1>8, <1>9, <1>11, <1>12 DEF IInv

(* The route counted in is the one whose last field was just stored.       *)
LEMMA PublishIInv ==
    ASSUME IInv, Publish
    PROVE  IInv'
<1> USE RoutesAssumption, NullAssumption
<1> DEFINE e == app.endpoint
<1>1. /\ app.pc = "publish" /\ app' = Idle
      /\ UNCHANGED <<serverTask, serverSocket, listening, task, routes, defaultRoute, call>>
      /\ IF app.slot = Default
         THEN useDefaultRoute' = TRUE /\ routeCount' = routeCount
         ELSE routeCount' = routeCount + 1 /\ useDefaultRoute' = useDefaultRoute
  BY DEF Publish
<1>2. /\ e \in Endpoints /\ routeCount \in 0 .. MAX_ROUTES /\ routes \in [RouteIndex -> RouteType]
      /\ IF app.slot = Default THEN defaultRoute.Callback = defaultRoute.Context
         ELSE /\ app.slot = routeCount /\ routeCount < MAX_ROUTES
              /\ routes[routeCount].Method = MethodOf[e] /\ routes[routeCount].Path = PathOf[e]
              /\ routes[routeCount].Callback = e /\ routes[routeCount].Context = e
  BY <1>1 DEF IInv, TypeOK, Registering, Storing
<1>3. TypeOK'
  <2>1. routeCount' \in 0 .. MAX_ROUTES
    BY <1>1, <1>2
  <2>2. useDefaultRoute' \in BOOLEAN
    BY <1>1 DEF IInv, TypeOK
  <2> QED
    BY <1>1, <2>1, <2>2, IdleFacts DEF IInv, TypeOK
<1>4. SingleServer' /\ SocketsOwned'
  BY <1>1, IdleFacts, QuietSockets
<1>5. Registering' /\ DispatchIntact'
  BY <1>1, IdleFacts DEF IInv, Registering, DispatchIntact
<1>6. PublishedRoutesWhole'
  <2>1. CASE app.slot = Default
    BY <1>1, <2>1 DEF IInv, PublishedRoutesWhole
  <2>2. CASE app.slot # Default
    <3>1. routes[routeCount] \in RouteType
      BY <1>2, <2>2 DEF RouteIndex
    <3>2. routes[routeCount] = [Method |-> MethodOf[e], Path |-> PathOf[e],
                                Callback |-> e, Context |-> e]
      BY <1>2, <2>2, <3>1 DEF RouteType
    <3>3. \A i \in 0 .. routeCount' - 1 : i \in 0 .. routeCount - 1 \/ i = routeCount
      BY <1>1, <1>2, <2>2
    <3> QED
      BY <1>1, <1>2, <3>2, <3>3 DEF IInv, PublishedRoutesWhole
  <2> QED
    BY <2>1, <2>2
<1>7. ~DefaultTorn'
  BY <1>1, IdleFacts DEF DefaultTorn, ReplacingDefault
<1>8. DefaultWhole'
  BY <1>1, <1>2, IdleFacts DEF IInv, DefaultWhole, DefaultTorn, ReplacingDefault
<1>9. Dispatches'
  <2>1. \A t \in Tasks : task[t].index < routeCount => task[t].index < routeCount'
    <3>1. \A t \in Tasks : task[t].index \in Int
      BY DEF IInv, TypeOK, TaskType, Default
    <3> QED
      BY <1>1, <1>2, <3>1
  <2>2. useDefaultRoute => useDefaultRoute'
    BY <1>1
  <2> QED
    BY <1>1, <1>7, <2>1, <2>2 DEF IInv, Dispatches, Matched
<1> QED
  BY <1>3, <1>4, <1>5, <1>6, <1>8, <1>9 DEF IInv

LEMMA Inductive == Spec => []IInv
<1>1. IInv /\ [Next]_vars => IInv'
  <2> SUFFICES ASSUME IInv, [Next]_vars PROVE IInv'
    OBVIOUS
  <2>1. CASE App
    BY <2>1, StartIInv, StopIInv, BeginIInv DEF App
  <2>2. CASE AppInCall
    BY <2>2, StopIInv, EmptyIInv, SlotStoreIInv, DefaultStoreIInv, PublishIInv DEF AppInCall
  <2>3. CASE \E t \in Tasks : ServerTask(t)
    BY <2>3, TaskIInv
  <2>4. CASE UNCHANGED vars
    BY <2>4 DEF vars, IInv, TypeOK, SingleServer, SocketsOwned, NoSocketLost, Registering,
       PublishedRoutesWhole, DefaultWhole, DefaultTorn, ReplacingDefault, Dispatches, Matched,
       DispatchIntact
  <2> QED
    BY <2>1, <2>2, <2>3, <2>4 DEF Next
<1> QED
  BY <1>1, InitIInv, PTL DEF Spec

-----------------------------------------------------------------------------
(* The theorems.                                                           *)

(* Every shared variable and every local keeps its type; the table is      *)
(* never written beyond its last slot.                                     *)
THEOREM TypesCorrect == Spec => []TypeOK
  BY Inductive, PTL DEF IInv

(* However starts and stops interleave there is one server task at most,   *)
(* and serverTask tells of it.                                             *)
THEOREM AlwaysSingleServer == Spec => []SingleServer
  BY Inductive, PTL DEF IInv

(* No listening socket is lost between the task that makes it and the call *)
(* or the task that closes it.                                             *)
THEOREM SocketsNeverLost == Spec => []NoSocketLost
  BY Inductive, PTL DEF IInv, SocketsOwned

(* The server task sees whole routes only, without a lock.                 *)
THEOREM RoutesPublishedWhole == Spec => []PublishedRoutesWhole
  BY Inductive, PTL DEF IInv

(* A dispatch under which nothing was emptied or replaced calls the right  *)
(* handler with the context it was registered with.                        *)
THEOREM DispatchesIntact == Spec => []DispatchIntact
  BY Inductive, PTL DEF IInv

===============================================================================
