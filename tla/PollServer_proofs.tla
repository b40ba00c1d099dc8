-------------------------- MODULE PollServer_proofs --------------------------
(***************************************************************************)
(* Proofs about the polled HTTP server: for any number of peers, of        *)
(* endpoints and of routes, and any requests.  It loses no descriptor, and *)
(* it implements the contract of HttpServer.h.                             *)
(***************************************************************************)
EXTENDS PollServer, SequenceTheorems, WellFoundedInduction, TLAPS

Serving == {"read", "match", "callback", "respond", "close"}

(* The connection is there from accept to close, and nowhere else.         *)
Connected ==
    /\ connection # None <=> pc \in Serving
    /\ connection # None => peer[connection] = "accepted"
    /\ pc = "accept" => listenSocket /\ backlog # <<>>

(* A peer waits in the backlog once, and is not answered while it waits.   *)
Waiting ==
    /\ \A i \in 1 .. Len(backlog) : peer[backlog[i]] = "queued"
    /\ \A i, j \in 1 .. Len(backlog) : backlog[i] = backlog[j] => i = j
    /\ \A p \in Peers : peer[p] \in {"away", "queued"} => verdict[p] = "none"

(* One verdict for the connection, by the time it is needed.               *)
Answering ==
    /\ pc \in {"read", "match"} => verdict[connection] = "none"
    /\ pc = "match" => request \in Requests
    /\ pc = "callback" => verdict[connection] \in Endpoints
    /\ pc \in {"respond", "close"} => verdict[connection] # "none"

DefaultSet == useDefaultRoute => defaultRoute \in Endpoints

(* The inductive invariant.                                                *)
IInv == TypeOK /\ Connected /\ Waiting /\ Answering /\ DefaultSet /\ NoDescriptorLost

-----------------------------------------------------------------------------
LEMMA InitIInv == Init => IInv
<1> SUFFICES ASSUME Init PROVE IInv
  OBVIOUS
<1>1. listenSocket \in BOOLEAN /\ useDefaultRoute \in BOOLEAN
  BY DEF Init
<1>2. 0 \in 0 .. 2 /\ MAX_ROUTES \in Nat /\ BACKLOG \in Nat
  BY PollAssumption
<1>3. /\ backlog \in Seq(Peers) /\ Len(backlog) = 0 /\ routes \in Seq(Endpoints) /\ Len(routes) = 0
  BY DEF Init
<1>4. TypeOK
  BY <1>1, <1>2, <1>3 DEF Init, TypeOK
<1>5. Connected /\ Answering /\ DefaultSet /\ Waiting
  BY DEF Init, Connected, Answering, DefaultSet, Waiting, Serving
<1>6. NoDescriptorLost
  BY DEF Init, NoDescriptorLost
<1> QED
  BY <1>4, <1>5, <1>6 DEF IInv

(* A peer that connects was away, so it is not in the backlog yet.         *)
LEMMA PeerConnectsIInv ==
    ASSUME IInv, NEW p \in Peers, PeerConnects(p)
    PROVE  IInv'
<1> DEFINE n == Len(backlog)
<1>1. /\ listenSocket /\ n < BACKLOG /\ peer[p] = "away"
      /\ backlog' = Append(backlog, p)
      /\ peer' = [peer EXCEPT ![p] = "queued"]
      /\ UNCHANGED <<listenSocket, open, routes, defaultRoute, useDefaultRoute, pc,
                     connection, request, verdict>>
  BY DEF PeerConnects, tableVars
<1>2. /\ backlog \in Seq(Peers) /\ n \in Nat
      /\ peer \in [Peers -> {"away", "queued", "accepted", "over"}]
      /\ BACKLOG \in Nat
  BY PollAssumption DEF IInv, TypeOK
<1>3. /\ backlog' \in Seq(Peers) /\ Len(backlog') = n + 1
      /\ \A i \in 1 .. n : backlog'[i] = backlog[i]
      /\ backlog'[n + 1] = p
  BY <1>1, <1>2, AppendProperties
<1>4. \A i \in 1 .. n : backlog[i] \in Peers
  BY <1>2, ElementOfSeq
<1>5. /\ \A i \in 1 .. n : peer[backlog[i]] = "queued"
      /\ \A i, j \in 1 .. n : backlog[i] = backlog[j] => i = j
      /\ \A q \in Peers : peer[q] \in {"away", "queued"} => verdict[q] = "none"
  BY DEF IInv, Waiting
<1> HIDE DEF n
<1>6. /\ peer' \in [Peers -> {"away", "queued", "accepted", "over"}]
      /\ peer'[p] = "queued" /\ \A q \in Peers : q # p => peer'[q] = peer[q]
  BY <1>1, <1>2
<1>7. \A i \in 1 .. n + 1 : i \in 1 .. n \/ i = n + 1
  BY <1>2
<1>8. Waiting'
  <2>1. \A i \in 1 .. n : backlog'[i] # p
    BY <1>1, <1>3, <1>5
  <2>2. \A i \in 1 .. n + 1 : peer'[backlog'[i]] = "queued"
    BY <1>3, <1>4, <1>5, <1>6, <1>7
  <2>3. \A i, j \in 1 .. n + 1 : backlog'[i] = backlog'[j] => i = j
    BY <1>3, <1>5, <1>7, <2>1
  <2>4. \A q \in Peers : peer'[q] \in {"away", "queued"} => verdict'[q] = "none"
    BY <1>1, <1>5, <1>6
  <2> QED
    BY <1>3, <2>2, <2>3, <2>4 DEF Waiting
<1>9. Len(backlog') <= BACKLOG
  BY <1>1, <1>2, <1>3
<1>10. TypeOK'
  BY <1>1, <1>3, <1>6, <1>9 DEF IInv, TypeOK
<1>11. backlog' # <<>>
  BY <1>2, <1>3
<1>12. Connected'
  <2>1. connection \in Peers \cup {None}
    BY DEF IInv, TypeOK
  <2> QED
    BY <1>1, <1>6, <1>11, <2>1 DEF IInv, Connected
<1>13. Answering' /\ DefaultSet' /\ NoDescriptorLost'
  BY <1>1 DEF IInv, Answering, DefaultSet, NoDescriptorLost
<1> QED
  BY <1>8, <1>10, <1>12, <1>13 DEF IInv

LEMMA StartIInv ==
    ASSUME IInv, HttpServerStart
    PROVE  IInv'
<1>1. /\ pc \in {"idle", "callback"} /\ ~listenSocket /\ listenSocket' \in BOOLEAN
      /\ open' = IF listenSocket' THEN open + 1 ELSE open
      /\ UNCHANGED <<backlog, peer, routes, defaultRoute, useDefaultRoute, pc,
                     connection, request, verdict>>
  BY DEF HttpServerStart, MayCall, tableVars
<1>2. open = IF connection # None THEN 1 ELSE 0
  BY <1>1 DEF IInv, NoDescriptorLost
<1>3. NoDescriptorLost'
  BY <1>1, <1>2 DEF NoDescriptorLost
<1>4. open' \in 0 .. 2
  BY <1>1, <1>2
<1>5. TypeOK'
  BY <1>1, <1>4 DEF IInv, TypeOK
<1>6. Connected' /\ Waiting' /\ Answering' /\ DefaultSet'
  BY <1>1 DEF IInv, Connected, Waiting, Answering, DefaultSet
<1> QED
  BY <1>3, <1>5, <1>6 DEF IInv

LEMMA StopIInv ==
    ASSUME IInv, HttpServerStop
    PROVE  IInv'
<1>1. /\ pc \in {"idle", "callback"} /\ listenSocket' = FALSE
      /\ open' = IF listenSocket THEN open - 1 ELSE open
      /\ backlog' = <<>> /\ routes' = <<>>
      /\ peer' = [p \in Peers |-> IF peer[p] = "queued" THEN "over" ELSE peer[p]]
      /\ UNCHANGED <<defaultRoute, useDefaultRoute, pc, connection, request, verdict>>
  BY DEF HttpServerStop, MayCall
<1>2. open' = IF connection # None THEN 1 ELSE 0
  BY <1>1 DEF IInv, NoDescriptorLost
<1>3. NoDescriptorLost'
  BY <1>1, <1>2 DEF NoDescriptorLost
<1>4. open' \in 0 .. 2
  BY <1>2
<1>5. listenSocket' \in BOOLEAN
  BY <1>1
<1>6. /\ backlog' \in Seq(Peers) /\ Len(backlog') <= BACKLOG
      /\ routes' \in Seq(Endpoints) /\ Len(routes') <= MAX_ROUTES
  BY <1>1, PollAssumption
<1>7. peer' \in [Peers -> {"away", "queued", "accepted", "over"}]
  BY <1>1 DEF IInv, TypeOK
<1>8. TypeOK'
  BY <1>1, <1>4, <1>5, <1>6, <1>7 DEF IInv, TypeOK
<1>9. Waiting'
  <2>1. \A p \in Peers : peer'[p] \in {"away", "queued"} => peer[p] = peer'[p]
    BY <1>1
  <2> QED
    BY <1>1, <2>1 DEF IInv, Waiting
<1>10. Connected'
  <2>1. connection \in Peers \cup {None}
    BY DEF IInv, TypeOK
  <2> QED
    BY <1>1, <2>1 DEF IInv, Connected
<1>11. Answering' /\ DefaultSet'
  BY <1>1 DEF IInv, Answering, DefaultSet
<1> QED
  BY <1>3, <1>8, <1>9, <1>10, <1>11 DEF IInv

LEMMA RegisterIInv ==
    ASSUME IInv, NEW e \in Endpoints,
           HttpServerRegisterEndpoint(e) \/ HttpServerSetDefaultEndpoint(e)
    PROVE  IInv'
<1>1. UNCHANGED <<listenSocket, open, backlog, peer, pc, connection, request, verdict>>
  BY DEF HttpServerRegisterEndpoint, HttpServerSetDefaultEndpoint, socketVars
<1>2. /\ routes' \in Seq(Endpoints) /\ Len(routes') <= MAX_ROUTES
  <2>1. routes \in Seq(Endpoints) /\ Len(routes) <= MAX_ROUTES /\ MAX_ROUTES \in Nat
    BY PollAssumption DEF IInv, TypeOK
  <2>2. CASE routes' = Append(routes, e) /\ Len(routes) < MAX_ROUTES
    BY <2>1, <2>2, AppendProperties
  <2>3. CASE routes' = routes
    BY <2>1, <2>3
  <2> QED
    BY <2>2, <2>3 DEF HttpServerRegisterEndpoint, HttpServerSetDefaultEndpoint
<1>3. /\ defaultRoute' \in Endpoints \cup {None} /\ DefaultSet'
  BY DEF HttpServerRegisterEndpoint, HttpServerSetDefaultEndpoint, IInv, TypeOK, DefaultSet
<1>4. useDefaultRoute' \in BOOLEAN
  BY DEF HttpServerRegisterEndpoint, HttpServerSetDefaultEndpoint, IInv, TypeOK
<1>5. TypeOK'
  BY <1>1, <1>2, <1>3, <1>4 DEF IInv, TypeOK
<1>6. Connected' /\ Waiting' /\ Answering' /\ NoDescriptorLost'
  BY <1>1 DEF IInv, Connected, Waiting, Answering, NoDescriptorLost
<1> QED
  BY <1>3, <1>5, <1>6 DEF IInv

LEMMA SelectReadyIInv ==
    ASSUME IInv, SelectReady
    PROVE  IInv'
<1>1. /\ pc = "idle" /\ pc' = "accept" /\ listenSocket /\ backlog # <<>>
      /\ UNCHANGED <<listenSocket, open, backlog, peer, routes, defaultRoute, useDefaultRoute,
                     connection, request, verdict>>
  BY DEF SelectReady, Goto, socketVars, tableVars
<1>2. TypeOK'
  BY <1>1 DEF IInv, TypeOK
<1>3. Connected' /\ Waiting' /\ Answering' /\ DefaultSet' /\ NoDescriptorLost'
  BY <1>1 DEF IInv, Connected, Waiting, Answering, DefaultSet, NoDescriptorLost, Serving
<1> QED
  BY <1>2, <1>3 DEF IInv

(* What is left of the backlog once its head is taken, whatever becomes of *)
(* the head.                                                               *)
LEMMA HeadTaken ==
    ASSUME IInv, backlog # <<>>, NEW v \in {"accepted", "over"},
           backlog' = Tail(backlog),
           peer' = [peer EXCEPT ![Head(backlog)] = v],
           verdict' = verdict
    PROVE  /\ Head(backlog) \in Peers /\ verdict[Head(backlog)] = "none"
           /\ backlog' \in Seq(Peers) /\ Len(backlog') <= BACKLOG
           /\ peer' \in [Peers -> {"away", "queued", "accepted", "over"}]
           /\ Waiting'
<1> DEFINE n == Len(backlog)
           h == Head(backlog)
<1>1. /\ backlog \in Seq(Peers) /\ n \in Nat /\ n > 0 /\ n <= BACKLOG /\ BACKLOG \in Nat
      /\ peer \in [Peers -> {"away", "queued", "accepted", "over"}]
  BY PollAssumption DEF IInv, TypeOK
<1>2. /\ backlog' \in Seq(Peers) /\ Len(backlog') = n - 1 /\ h \in Peers
      /\ \A i \in 1 .. n - 1 : backlog'[i] = backlog[i + 1]
  BY <1>1, HeadTailProperties
<1>3. backlog[1] = h /\ 1 \in 1 .. n
  BY <1>1
<1>4. \A i \in 1 .. n : backlog[i] \in Peers
  BY <1>1, ElementOfSeq
<1>5. /\ \A i \in 1 .. n : peer[backlog[i]] = "queued"
      /\ \A i, j \in 1 .. n : backlog[i] = backlog[j] => i = j
      /\ \A q \in Peers : peer[q] \in {"away", "queued"} => verdict[q] = "none"
  BY DEF IInv, Waiting
<1> HIDE DEF n, h
<1>6. /\ peer' \in [Peers -> {"away", "queued", "accepted", "over"}]
      /\ peer'[h] = v /\ \A q \in Peers : q # h => peer'[q] = peer[q]
  BY <1>1, <1>2 DEF h
<1>7. \A i \in 1 .. n - 1 : i + 1 \in 1 .. n /\ i + 1 # 1
  BY <1>1
<1>8. Waiting'
  <2>1. \A i \in 1 .. n - 1 : backlog'[i] # h /\ backlog'[i] \in Peers /\ peer[backlog'[i]] = "queued"
    BY <1>2, <1>3, <1>4, <1>5, <1>7
  <2>2. \A i \in 1 .. n - 1 : peer'[backlog'[i]] = "queued"
    BY <1>6, <2>1
  <2>3. \A i, j \in 1 .. n - 1 : backlog'[i] = backlog'[j] => i = j
    <3> SUFFICES ASSUME NEW i \in 1 .. n - 1, NEW j \in 1 .. n - 1, backlog'[i] = backlog'[j]
                 PROVE  i = j
      OBVIOUS
    <3>1. i + 1 = j + 1
      BY <1>2, <1>5, <1>7
    <3> QED
      BY <1>1, <3>1
  <2>4. \A q \in Peers : peer'[q] \in {"away", "queued"} => verdict'[q] = "none"
    BY <1>2, <1>5, <1>6
  <2> QED
    BY <1>2, <2>2, <2>3, <2>4 DEF Waiting
<1>9. Len(backlog') <= BACKLOG
  BY <1>1, <1>2
<1>10. verdict[h] = "none"
  BY <1>2, <1>3, <1>5
<1> QED
  BY <1>2, <1>6, <1>8, <1>9, <1>10 DEF h

LEMMA AcceptIInv ==
    ASSUME IInv, Accept
    PROVE  IInv' /\ connection = None /\ listenSocket /\ connection' \in Peers
           /\ verdict[connection'] = "none"
<1>1. /\ pc = "accept" /\ pc' = "read" /\ backlog # <<>> /\ connection = None /\ listenSocket
      /\ connection' = Head(backlog) /\ backlog' = Tail(backlog)
      /\ peer' = [peer EXCEPT ![Head(backlog)] = "accepted"]
      /\ open' = open + 1
      /\ UNCHANGED <<listenSocket, routes, defaultRoute, useDefaultRoute, request, verdict>>
  BY DEF Accept, Goto, tableVars, IInv, Connected, Serving
<1>2. /\ connection' \in Peers /\ verdict[connection'] = "none"
      /\ backlog' \in Seq(Peers) /\ Len(backlog') <= BACKLOG
      /\ peer' \in [Peers -> {"away", "queued", "accepted", "over"}]
      /\ Waiting'
  BY <1>1, HeadTaken
<1>3. connection' # None
  BY <1>2, PollAssumption
<1>4. open' = 2
  BY <1>1 DEF IInv, NoDescriptorLost
<1>5. TypeOK'
  BY <1>1, <1>2, <1>4 DEF IInv, TypeOK
<1>6. NoDescriptorLost'
  BY <1>1, <1>3, <1>4 DEF NoDescriptorLost
<1>7. peer'[connection'] = "accepted"
  BY <1>1, <1>2 DEF IInv, TypeOK
<1>8. Connected' /\ Answering' /\ DefaultSet'
  BY <1>1, <1>2, <1>3, <1>7 DEF IInv, Connected, Answering, DefaultSet, Serving
<1> QED
  BY <1>1, <1>2, <1>5, <1>6, <1>8 DEF IInv

LEMMA AcceptFailsIInv ==
    ASSUME IInv, AcceptFails
    PROVE  IInv'
<1>1. /\ pc = "accept" /\ pc' = "idle" /\ backlog # <<>>
      /\ backlog' = Tail(backlog)
      /\ peer' = [peer EXCEPT ![Head(backlog)] = "over"]
      /\ UNCHANGED <<listenSocket, open, routes, defaultRoute, useDefaultRoute, connection,
                     request, verdict>>
  BY DEF AcceptFails, Goto, tableVars, IInv, Connected
<1>2. /\ backlog' \in Seq(Peers) /\ Len(backlog') <= BACKLOG
      /\ peer' \in [Peers -> {"away", "queued", "accepted", "over"}]
      /\ Waiting'
  BY <1>1, HeadTaken
<1>3. TypeOK'
  BY <1>1, <1>2 DEF IInv, TypeOK
<1>4. Connected' /\ Answering' /\ DefaultSet' /\ NoDescriptorLost'
  BY <1>1 DEF IInv, Connected, Answering, DefaultSet, NoDescriptorLost, Serving
<1> QED
  BY <1>2, <1>3, <1>4 DEF IInv

-----------------------------------------------------------------------------
(* The linear search of the table.                                         *)

LEMMA LeastNat ==
    ASSUME NEW T, T \subseteq Nat, T # {}
    PROVE  \E x \in T : \A y \in T : x <= y
<1> DEFINE R == {p \in Nat \X Nat : p[1] < p[2]}
<1>1. IsWellFoundedOn(R, Nat)
  BY NatLessThanWellFounded DEF OpToRel
<1>2. \A x, y \in Nat : y < x => <<y, x>> \in R
  OBVIOUS
<1> HIDE DEF R
<1>3. \E x \in T : \A y \in T : ~ (<<y, x>> \in R)
  BY <1>1, WFMin
<1>4. \A x, y \in Nat : ~(y < x) => x <= y
  OBVIOUS
<1> QED
  BY <1>2, <1>3, <1>4

LEMMA MinProperties ==
    ASSUME NEW T, T \subseteq Nat, T # {}
    PROVE  Min(T) \in T /\ \A y \in T : Min(T) <= y
<1>1. \E x \in T : \A y \in T : x <= y
  BY LeastNat
<1> QED
  BY <1>1 DEF Min

(* The first match is an entry of the table.                               *)
LEMMA FirstMatch ==
    ASSUME TypeOK, NEW r
    PROVE  /\ Matches(r) \subseteq 1 .. Len(routes) /\ Matches(r) \subseteq Nat
           /\ Matches(r) # {} =>
                /\ Min(Matches(r)) \in Matches(r)
                /\ \A i \in Matches(r) : Min(Matches(r)) <= i
                /\ routes[Min(Matches(r))] \in Endpoints
<1>1. routes \in Seq(Endpoints) /\ Len(routes) \in Nat
  BY DEF TypeOK
<1>2. \A i \in 1 .. Len(routes) : routes[i] \in Endpoints
  BY <1>1, ElementOfSeq
<1>3. Matches(r) \subseteq 1 .. Len(routes) /\ Matches(r) \subseteq Nat
  BY <1>1 DEF Matches, SamePath
<1>4. Matches(r) # {} => Min(Matches(r)) \in Matches(r)
                         /\ \A i \in Matches(r) : Min(Matches(r)) <= i
  BY <1>3, MinProperties
<1> QED
  BY <1>2, <1>3, <1>4

(* A search finds an endpoint that is registered or the default one, or    *)
(* none.                                                                   *)
LEMMA MatchRouteType ==
    ASSUME TypeOK, DefaultSet, NEW r
    PROVE  MatchRoute(r) \in Endpoints \cup {None}
  BY FirstMatch DEF MatchRoute, DefaultSet

-----------------------------------------------------------------------------
(* One verdict replaces another type of none.                              *)
LEMMA VerdictGiven ==
    ASSUME IInv, connection \in Peers, NEW v \in Statuses \cup Endpoints, Decide(v)
    PROVE  /\ verdict' \in [Peers -> {"none"} \cup Statuses \cup Endpoints]
           /\ verdict'[connection] = v /\ v # "none"
           /\ \A p \in Peers : p # connection => verdict'[p] = verdict[p]
<1>1. verdict \in [Peers -> {"none"} \cup Statuses \cup Endpoints]
  BY DEF IInv, TypeOK
<1>2. verdict' = [verdict EXCEPT ![connection] = v]
  BY DEF Decide
<1>3. v # "none"
  BY PollAssumption DEF Statuses
<1> QED
  BY <1>1, <1>2, <1>3

LEMMA AcceptRefusedIInv ==
    ASSUME IInv, AcceptRefused
    PROVE  IInv'
  BY DEF AcceptRefused, Goto, socketVars, tableVars, IInv, TypeOK, Connected, Waiting,
     Answering, DefaultSet, NoDescriptorLost, Serving

LEMMA ReadIInv ==
    ASSUME IInv, Read
    PROVE  IInv'
<1>1. /\ pc = "read" /\ connection \in Peers /\ peer[connection] = "accepted"
      /\ UNCHANGED <<listenSocket, open, backlog, peer, routes, defaultRoute, useDefaultRoute,
                     connection>>
  BY DEF Read, socketVars, tableVars, IInv, TypeOK, Connected, Serving
<1>2. Connected' /\ DefaultSet' /\ NoDescriptorLost'
  BY <1>1 DEF IInv, Connected, DefaultSet, NoDescriptorLost, Serving, Read, Goto
<1>3. CASE /\ \E status \in {"413", "400"} : Decide(status)
           /\ pc' = "respond" /\ request' = request
  <2>1. PICK status \in {"413", "400"} : Decide(status)
    BY <1>3
  <2>2. /\ verdict' \in [Peers -> {"none"} \cup Statuses \cup Endpoints]
        /\ verdict'[connection] # "none"
        /\ \A p \in Peers : p # connection => verdict'[p] = verdict[p]
    BY <1>1, <2>1, VerdictGiven DEF Statuses
  <2>3. TypeOK'
    BY <1>1, <1>3, <2>2 DEF IInv, TypeOK
  <2>4. Answering'
    BY <1>1, <1>3, <2>2 DEF Answering
  <2>5. Waiting'
    BY <1>1, <2>2 DEF IInv, Waiting
  <2> QED
    BY <1>2, <2>3, <2>4, <2>5 DEF IInv
<1>4. CASE request' \in Requests /\ pc' = "match" /\ verdict' = verdict
  <2>1. TypeOK'
    BY <1>1, <1>4 DEF IInv, TypeOK
  <2>2. Answering' /\ Waiting'
    BY <1>1, <1>4 DEF IInv, Answering, Waiting
  <2> QED
    BY <1>2, <2>1, <2>2 DEF IInv
<1> QED
  BY <1>3, <1>4 DEF Read, Goto

LEMMA MatchIInv ==
    ASSUME IInv, Match
    PROVE  IInv'
<1>1. /\ pc = "match" /\ connection \in Peers /\ peer[connection] = "accepted"
      /\ UNCHANGED <<listenSocket, open, backlog, peer, routes, defaultRoute, useDefaultRoute,
                     connection>>
      /\ request' = None
  BY DEF Match, socketVars, tableVars, IInv, TypeOK, Connected, Serving
<1>2. MatchRoute(request) \in Endpoints \cup {None}
  BY MatchRouteType DEF IInv
<1>3. PICK v \in Statuses \cup Endpoints :
        Decide(v) /\ pc' = IF v \in Endpoints /\ MatchRoute(request) # None
                           THEN "callback" ELSE "respond"
  <2>1. CASE MatchRoute(request) # None
    <3>1. MatchRoute(request) \in Endpoints
      BY <1>2, <2>1
    <3> QED
      BY <2>1, <3>1 DEF Match, Goto
  <2>2. CASE MatchRoute(request) = None
    <3> DEFINE v == IF SamePath(request) # {} THEN "405" ELSE "404"
    <3>1. v \in Statuses
      BY DEF Statuses
    <3>2. Decide(v) /\ pc' = "respond"
      BY <2>2 DEF Match, Goto
    <3> QED
      BY <2>2, <3>1, <3>2
  <2> QED
    BY <2>1, <2>2
<1>4. /\ verdict' \in [Peers -> {"none"} \cup Statuses \cup Endpoints]
      /\ verdict'[connection] = v /\ v # "none"
      /\ \A p \in Peers : p # connection => verdict'[p] = verdict[p]
  BY <1>1, <1>3, VerdictGiven
<1>5. TypeOK'
  BY <1>1, <1>3, <1>4 DEF IInv, TypeOK
<1>6. Connected' /\ DefaultSet' /\ NoDescriptorLost'
  BY <1>1, <1>3 DEF IInv, Connected, DefaultSet, NoDescriptorLost, Serving
<1>7. Waiting' /\ Answering'
  BY <1>1, <1>3, <1>4 DEF IInv, Waiting, Answering
<1> QED
  BY <1>5, <1>6, <1>7 DEF IInv

LEMMA ReplyIInv ==
    ASSUME IInv, CallbackReturns \/ Respond
    PROVE  IInv'
<1>1. /\ (pc = "callback" /\ pc' = "respond") \/ (pc = "respond" /\ pc' = "close")
      /\ UNCHANGED <<listenSocket, open, backlog, peer, routes, defaultRoute, useDefaultRoute,
                     connection, request, verdict>>
  BY DEF CallbackReturns, Respond, Goto, socketVars, tableVars
<1>2. TypeOK'
  BY <1>1 DEF IInv, TypeOK
<1>3. Connected' /\ Waiting' /\ DefaultSet' /\ NoDescriptorLost'
  BY <1>1 DEF IInv, Connected, Waiting, DefaultSet, NoDescriptorLost, Serving
<1>4. Answering'
  BY <1>1, PollAssumption DEF IInv, Answering
<1> QED
  BY <1>2, <1>3, <1>4 DEF IInv

LEMMA CloseIInv ==
    ASSUME IInv, CloseConnection
    PROVE  IInv'
<1>1. /\ pc = "close" /\ pc' = "idle" /\ open' = open - 1
      /\ peer' = [peer EXCEPT ![connection] = "over"]
      /\ connection' = None /\ connection # None
      /\ connection \in Peers /\ peer[connection] = "accepted"
      /\ peer \in [Peers -> {"away", "queued", "accepted", "over"}]
      /\ UNCHANGED <<listenSocket, backlog, routes, defaultRoute, useDefaultRoute, request, verdict>>
  BY DEF CloseConnection, Goto, tableVars, IInv, TypeOK, Connected, Serving
<1>2. open' = IF listenSocket THEN 1 ELSE 0
  BY <1>1 DEF IInv, NoDescriptorLost
<1>3. NoDescriptorLost'
  BY <1>1, <1>2 DEF NoDescriptorLost
<1>4. open' \in 0 .. 2
  BY <1>2
<1>5. /\ peer' \in [Peers -> {"away", "queued", "accepted", "over"}]
      /\ peer'[connection] = "over"
      /\ \A p \in Peers : p # connection => peer'[p] = peer[p]
  BY <1>1
<1>6. TypeOK'
  BY <1>1, <1>4, <1>5 DEF IInv, TypeOK
<1>7. Waiting'
  <2>1. backlog \in Seq(Peers)
    BY DEF IInv, TypeOK
  <2>2. \A i \in 1 .. Len(backlog) : backlog[i] \in Peers
    BY <2>1, ElementOfSeq
  <2> QED
    BY <1>1, <1>5, <2>2 DEF IInv, Waiting
<1>8. Connected' /\ Answering' /\ DefaultSet'
  BY <1>1 DEF IInv, Connected, Answering, DefaultSet, Serving
<1> QED
  BY <1>3, <1>6, <1>7, <1>8 DEF IInv

LEMMA Inductive == IInv /\ [Next]_vars => IInv'
<1> SUFFICES ASSUME IInv, [Next]_vars PROVE IInv'
  OBVIOUS
<1>1. CASE UNCHANGED vars
  BY <1>1 DEF vars, IInv, TypeOK, Connected, Waiting, Answering, DefaultSet, NoDescriptorLost
<1>2. CASE Next
  BY <1>2, StartIInv, StopIInv, RegisterIInv, PeerConnectsIInv, SelectReadyIInv, AcceptIInv,
     AcceptFailsIInv, AcceptRefusedIInv, ReadIInv, MatchIInv, ReplyIInv, CloseIInv DEF Next, Local
<1> QED
  BY <1>1, <1>2

LEMMA Invariant == Spec => []IInv
  BY InitIInv, Inductive, PTL DEF Spec

-----------------------------------------------------------------------------
(* Every state is one the module's types allow: the table never holds more *)
(* than HTTP_SERVER_MAX_ROUTES, nor the process more than two descriptors. *)
THEOREM TypesCorrect == Spec => []TypeOK
<1>1. IInv => TypeOK
  BY DEF IInv
<1> QED
  BY <1>1, Invariant, PTL

(* No descriptor is leaked or closed twice, by a failed start, a failed    *)
(* accept or a stop from a callback.                                       *)
THEOREM DescriptorsNeverLost == Spec => []NoDescriptorLost
<1>1. IInv => NoDescriptorLost
  BY DEF IInv
<1> QED
  BY <1>1, Invariant, PTL

-----------------------------------------------------------------------------
(* The polled server implements the contract of HttpServer.h.              *)

Keys == {[method |-> MethodOf[e], path |-> PathOf[e]] : e \in Endpoints}

(* The table as the map of the contract, as a function of the table.       *)
MatchesIn(rs, k) ==
    {i \in 1 .. Len(rs) : PathOf[rs[i]] = k.path /\ MethodOf[rs[i]] = k.method}
FirstIn(rs, k) ==
    IF MatchesIn(rs, k) = {} THEN None ELSE rs[Min(MatchesIn(rs, k))]
MapOf(rs) == [k \in Keys |-> FirstIn(rs, k)]

LEMMA MatchesAreMatchesIn == \A k : Matches(k) = MatchesIn(routes, k)
  BY DEF Matches, SamePath, MatchesIn

LEMMA BoundIsMap == Bound = MapOf(routes)
  BY MatchesAreMatchesIn DEF Bound, MapOf, FirstIn, Keys

LEMMA BoundIsMapNext == Bound' = MapOf(routes')
<1>1. \A k : Matches(k)' = MatchesIn(routes', k)
  BY DEF Matches, SamePath, MatchesIn
<1> QED
  BY <1>1 DEF Bound, MapOf, FirstIn, Keys

LEMMA FirstInType ==
    ASSUME NEW rs \in Seq(Endpoints), NEW k
    PROVE  /\ MatchesIn(rs, k) \subseteq 1 .. Len(rs) /\ MatchesIn(rs, k) \subseteq Nat
           /\ MatchesIn(rs, k) # {} =>
                /\ Min(MatchesIn(rs, k)) \in MatchesIn(rs, k)
                /\ \A i \in MatchesIn(rs, k) : Min(MatchesIn(rs, k)) <= i
                /\ FirstIn(rs, k) \in Endpoints /\ FirstIn(rs, k) # None
           /\ MatchesIn(rs, k) = {} => FirstIn(rs, k) = None
<1>1. Len(rs) \in Nat /\ \A i \in 1 .. Len(rs) : rs[i] \in Endpoints
  BY ElementOfSeq
<1>2. MatchesIn(rs, k) \subseteq 1 .. Len(rs) /\ MatchesIn(rs, k) \subseteq Nat
  BY <1>1 DEF MatchesIn
<1>3. MatchesIn(rs, k) # {} => /\ Min(MatchesIn(rs, k)) \in MatchesIn(rs, k)
                               /\ \A i \in MatchesIn(rs, k) : Min(MatchesIn(rs, k)) <= i
  BY <1>2, MinProperties
<1> QED
  BY <1>1, <1>2, <1>3, PollAssumption DEF FirstIn

(* An endpoint registered last answers for its method and path only if no  *)
(* other does.                                                             *)
LEMMA RegisteredLast ==
    ASSUME NEW rs \in Seq(Endpoints), NEW e \in Endpoints, NEW k
    PROVE  FirstIn(Append(rs, e), k) =
              IF MatchesIn(rs, k) = {} /\ PathOf[e] = k.path /\ MethodOf[e] = k.method
              THEN e ELSE FirstIn(rs, k)
<1> DEFINE n == Len(rs)
           t == Append(rs, e)
           old == MatchesIn(rs, k)
           new == MatchesIn(t, k)
           fits == PathOf[e] = k.path /\ MethodOf[e] = k.method
<1>1. /\ t \in Seq(Endpoints) /\ Len(t) = n + 1 /\ n \in Nat
      /\ \A i \in 1 .. n : t[i] = rs[i]
      /\ t[n + 1] = e
  BY AppendProperties
<1>2. \A i \in 1 .. n + 1 : i \in 1 .. n \/ i = n + 1
  BY <1>1
<1>3. 1 .. n \subseteq 1 .. n + 1 /\ n + 1 \in 1 .. n + 1 /\ n + 1 \notin 1 .. n
  BY <1>1
<1> HIDE DEF n, t
<1>4. \A i : i \in new <=> i \in old \/ (i = n + 1 /\ fits)
  <2>1. \A i : i \in new <=> i \in 1 .. n + 1 /\ PathOf[t[i]] = k.path /\ MethodOf[t[i]] = k.method
    BY <1>1 DEF MatchesIn
  <2>2. \A i : i \in old <=> i \in 1 .. n /\ PathOf[rs[i]] = k.path /\ MethodOf[rs[i]] = k.method
    BY DEF MatchesIn, n
  <2> HIDE DEF old, new
  <2> QED
    BY <1>1, <1>2, <1>3, <2>1, <2>2
<1>5. /\ old \subseteq 1 .. n
      /\ old # {} => Min(old) \in old /\ \A i \in old : Min(old) <= i
  BY FirstInType DEF n
<1>6. new # {} => Min(new) \in new /\ \A i \in new : Min(new) <= i
  BY <1>1, FirstInType
<1>7. FirstIn(t, k) = IF new = {} THEN None ELSE t[Min(new)]
  BY DEF FirstIn
<1>8. FirstIn(rs, k) = IF old = {} THEN None ELSE rs[Min(old)]
  BY DEF FirstIn
<1> HIDE DEF old, new, fits
<1>9. CASE old = {} /\ fits
  <2>1. Min(new) = n + 1 /\ new # {}
    BY <1>4, <1>6, <1>9
  <2> QED
    BY <1>1, <1>7, <1>9, <2>1 DEF old, fits, t
<1>10. CASE old = {} /\ ~fits
  <2>1. new = {}
    BY <1>4, <1>10
  <2> QED
    BY <1>7, <1>8, <1>10, <2>1 DEF old, fits, t
<1>11. CASE old # {}
  <2>1. new # {} /\ Min(new) \in new /\ Min(old) \in new /\ Min(old) \in old
    BY <1>4, <1>5, <1>6, <1>11
  <2>2. Min(new) \in old
    <3>1. Min(old) \in 1 .. n /\ Min(new) <= Min(old)
      BY <1>5, <1>6, <2>1
    <3>2. CASE Min(new) = n + 1
      BY <1>1, <3>1, <3>2
    <3> QED
      BY <1>4, <2>1, <3>2
  <2>3. Min(new) <= Min(old) /\ Min(old) <= Min(new) /\ Min(new) \in 1 .. n /\ Min(old) \in 1 .. n
    BY <1>5, <1>6, <1>11, <2>1, <2>2
  <2>4. Min(new) = Min(old)
    BY <1>1, <2>3
  <2> QED
    BY <1>1, <1>7, <1>8, <1>11, <2>1, <2>3, <2>4 DEF old, t
<1> QED
  BY <1>9, <1>10, <1>11

(* What the search decides is what the map of the contract answers.        *)
Found(r) ==
    IF MatchRoute(r) # None THEN MatchRoute(r)
    ELSE IF SamePath(r) # {} THEN "405"
    ELSE "404"

LEMMA SearchAnswers ==
    ASSUME TypeOK, DefaultSet, NEW r \in Requests
    PROVE  Found(r) = Contract!Answer(r)
<1> DEFINE set == IF useDefaultRoute THEN defaultRoute ELSE None
<1>1. routes \in Seq(Endpoints) /\ r = [method |-> r.method, path |-> r.path]
  BY PollAssumption DEF TypeOK
<1>2. \A i \in 1 .. Len(routes) : routes[i] \in Endpoints
  BY <1>1, ElementOfSeq
<1>3. \A k \in Keys : Bound[k] = FirstIn(routes, k)
  BY BoundIsMap DEF MapOf
<1>4. \A k : MatchesIn(routes, k) # {} <=> FirstIn(routes, k) # None
  BY <1>1, FirstInType
<1>5. Matches(r) # {} => r \in Keys
  <2> SUFFICES ASSUME NEW i \in Matches(r) PROVE r \in Keys
    OBVIOUS
  <2>1. routes[i] \in Endpoints /\ PathOf[routes[i]] = r.path /\ MethodOf[routes[i]] = r.method
    BY <1>2 DEF Matches, SamePath
  <2> QED
    BY <1>1, <2>1 DEF Keys
<1>6. Matches(r) # {} <=> r \in Keys /\ Bound[r] # None
  BY <1>3, <1>4, <1>5, MatchesAreMatchesIn
<1>7. Matches(r) # {} => Bound[r] = routes[Min(Matches(r))] /\ Bound[r] # None
  BY <1>3, <1>5, <1>6, MatchesAreMatchesIn DEF FirstIn
<1>8. SamePath(r) # {} <=> \E k \in Keys : Bound[k] # None /\ k.path = r.path
  <2>1. ASSUME NEW i \in SamePath(r)
        PROVE  \E k \in Keys : Bound[k] # None /\ k.path = r.path
    <3> DEFINE e == routes[i]
               k == [method |-> MethodOf[e], path |-> PathOf[e]]
    <3>1. i \in 1 .. Len(routes) /\ e \in Endpoints /\ PathOf[e] = r.path
      BY <1>2 DEF SamePath
    <3>2. k \in Keys /\ k.path = r.path
      BY <3>1 DEF Keys
    <3>3. i \in MatchesIn(routes, k)
      BY <3>1 DEF MatchesIn
    <3> HIDE DEF k
    <3>4. Bound[k] # None
      BY <1>3, <1>4, <3>2, <3>3
    <3> QED
      BY <3>2, <3>4
  <2>2. ASSUME NEW k \in Keys, Bound[k] # None, k.path = r.path
        PROVE  SamePath(r) # {}
    <3>1. MatchesIn(routes, k) # {}
      BY <1>3, <1>4, <2>2
    <3>2. PICK i \in 1 .. Len(routes) : PathOf[routes[i]] = k.path
      BY <3>1 DEF MatchesIn
    <3> QED
      BY <2>2, <3>2 DEF SamePath
  <2> QED
    BY <2>1, <2>2
<1>9. Contract!Answer(r) =
        IF r \in Keys /\ Bound[r] # None THEN Bound[r]
        ELSE IF set # None THEN set
        ELSE IF \E k \in Keys : Bound[k] # None /\ k.path = r.path THEN "405"
        ELSE "404"
  BY DEF Contract!Answer, Contract!Keys, Contract!KeyOf, Keys
<1>10. MatchRoute(r) = IF Matches(r) # {} THEN routes[Min(Matches(r))] ELSE set
  BY DEF MatchRoute
<1> HIDE DEF set
<1>11. CASE Matches(r) # {}
  BY <1>6, <1>7, <1>9, <1>10, <1>11 DEF Found
<1>12. CASE Matches(r) = {}
  BY <1>6, <1>8, <1>9, <1>10, <1>12 DEF Found
<1> QED
  BY <1>11, <1>12

(* The contract's variables, as the refinement mapping has them.           *)
LEMMA ContractKept ==
    ASSUME UNCHANGED <<listenSocket, tableVars, connection, verdict>>
    PROVE  UNCHANGED Contract!vars
<1>1. Bound' = Bound
  BY BoundIsMap, BoundIsMapNext DEF tableVars
<1> QED
  BY <1>1 DEF Contract!vars, tableVars

(* Initially both have nothing.                                            *)
LEMMA InitRefines == Init => Contract!Init
<1> SUFFICES ASSUME Init PROVE Contract!Init
  OBVIOUS
<1>1. \A k : MatchesIn(<<>>, k) = {}
  BY DEF MatchesIn
<1>2. Bound = [k \in Keys |-> None]
  BY <1>1, BoundIsMap DEF Init, MapOf, FirstIn
<1> QED
  BY <1>2 DEF Init, Contract!Init, Contract!Unanswered, Contract!Keys, Contract!KeyOf, Keys

(* The consumer calls between polls, or from the callback its endpoint was *)
(* found for.                                                              *)
LEMMA ConsumerMayCall ==
    ASSUME IInv, MayCall
    PROVE  Contract!Consumer
  BY DEF MayCall, IInv, Connected, Answering, Serving, Contract!Consumer

LEMMA StartRefines ==
    ASSUME IInv, HttpServerStart
    PROVE  [Contract!Next]_Contract!vars
<1>1. Contract!Consumer
  BY ConsumerMayCall DEF HttpServerStart
<1>2. Bound' = Bound /\ UNCHANGED <<tableVars, connection, verdict>>
  BY BoundIsMap, BoundIsMapNext DEF HttpServerStart, tableVars
<1>3. CASE listenSocket' = TRUE
  <2>1. Contract!Start
    BY <1>1, <1>2, <1>3 DEF Contract!Start, tableVars
  <2> QED
    BY <2>1 DEF Contract!Next
<1>4. CASE listenSocket' = FALSE
  <2>1. listenSocket' = listenSocket
    BY <1>4 DEF HttpServerStart, IInv, TypeOK
  <2> QED
    BY <1>2, <2>1, ContractKept
<1>5. listenSocket' \in BOOLEAN
  BY DEF HttpServerStart
<1> QED
  BY <1>3, <1>4, <1>5

LEMMA StopRefines ==
    ASSUME IInv, HttpServerStop
    PROVE  Contract!Next
<1>1. Contract!Consumer
  BY ConsumerMayCall DEF HttpServerStop
<1>2. \A k : MatchesIn(<<>>, k) = {}
  BY DEF MatchesIn
<1>3. Bound' = [k \in Keys |-> None] /\ Len(routes') = 0
  BY <1>2, BoundIsMapNext DEF HttpServerStop, MapOf, FirstIn
<1>4. /\ listenSocket' = FALSE
      /\ UNCHANGED <<defaultRoute, useDefaultRoute, connection, verdict>>
  BY DEF HttpServerStop
<1>5. Contract!Stop
  BY <1>1, <1>3, <1>4
     DEF Contract!Stop, Contract!Unanswered, Contract!Keys, Contract!KeyOf, Keys
<1> QED
  BY <1>5 DEF Contract!Next

LEMMA RegisterRefines ==
    ASSUME IInv, NEW e \in Endpoints, HttpServerRegisterEndpoint(e)
    PROVE  Contract!Next
<1> DEFINE key == [method |-> MethodOf[e], path |-> PathOf[e]]
<1>1. Contract!Consumer
  BY ConsumerMayCall DEF HttpServerRegisterEndpoint
<1>2. /\ routes \in Seq(Endpoints) /\ Len(routes) < MAX_ROUTES
      /\ routes' = Append(routes, e)
      /\ UNCHANGED <<listenSocket, defaultRoute, useDefaultRoute, connection, verdict>>
  BY DEF HttpServerRegisterEndpoint, IInv, TypeOK, socketVars
<1>3. Len(routes') = Len(routes) + 1
  BY <1>2, AppendProperties
<1>4. key \in Keys
  BY DEF Keys
<1>5. \A k \in Keys : k = key <=> PathOf[e] = k.path /\ MethodOf[e] = k.method
  BY DEF Keys
<1>6. \A k \in Keys : Bound[k] = FirstIn(routes, k)
  BY BoundIsMap DEF MapOf
<1>7. \A k : MatchesIn(routes, k) = {} <=> FirstIn(routes, k) = None
  BY <1>2, FirstInType
<1>8. \A k \in Keys : FirstIn(routes', k) = IF k = key /\ Bound[k] = None THEN e ELSE Bound[k]
  BY <1>2, <1>5, <1>6, <1>7, RegisteredLast
<1>9. Bound' = [k \in Keys |-> IF k = key /\ Bound[k] = None THEN e ELSE Bound[k]]
  BY <1>8, BoundIsMapNext DEF MapOf
<1>10. DOMAIN Bound = Keys /\ Bound = [k \in Keys |-> Bound[k]]
  BY BoundIsMap DEF MapOf
<1> HIDE DEF key
<1>11. Bound' = [Bound EXCEPT ![key] = IF Bound[key] = None THEN e ELSE Bound[key]]
  BY <1>4, <1>9, <1>10
<1>12. Contract!KeyOf(e) = key
  BY DEF Contract!KeyOf, key
<1>13. Contract!Register(e)
  BY <1>1, <1>2, <1>3, <1>11, <1>12 DEF Contract!Register
<1> QED
  BY <1>13 DEF Contract!Next

LEMMA SetDefaultRefines ==
    ASSUME IInv, NEW e \in Endpoints, HttpServerSetDefaultEndpoint(e)
    PROVE  Contract!Next
<1>1. Contract!Consumer
  BY ConsumerMayCall DEF HttpServerSetDefaultEndpoint
<1>2. /\ Len(routes) < MAX_ROUTES /\ defaultRoute' = e /\ useDefaultRoute' = TRUE
      /\ UNCHANGED <<listenSocket, routes, connection, verdict>>
  BY DEF HttpServerSetDefaultEndpoint, socketVars
<1>3. Bound' = Bound
  BY <1>2, BoundIsMap, BoundIsMapNext
<1>4. Contract!SetDefault(e)
  BY <1>1, <1>2, <1>3 DEF Contract!SetDefault
<1> QED
  BY <1>4 DEF Contract!Next

LEMMA AcceptRefines ==
    ASSUME IInv, Accept
    PROVE  Contract!Next
<1>1. /\ connection = None /\ listenSocket /\ connection' \in Peers
      /\ verdict[connection'] = "none"
  BY AcceptIInv
<1>2. UNCHANGED <<listenSocket, routes, defaultRoute, useDefaultRoute, verdict>>
  BY DEF Accept, tableVars
<1>3. Bound' = Bound
  BY <1>2, BoundIsMap, BoundIsMapNext
<1>4. Contract!Take(connection')
  BY <1>1, <1>2, <1>3 DEF Contract!Take
<1> QED
  BY <1>1, <1>4 DEF Contract!Next

LEMMA DecideRefines ==
    ASSUME IInv, connection # None, verdict[connection] = "none",
           NEW v \in {"400", "413"} \cup {Found(r) : r \in Requests}, Decide(v),
           UNCHANGED <<listenSocket, tableVars, connection>>
    PROVE  Contract!Next
<1>1. \A r \in Requests : Found(r) = Contract!Answer(r)
  BY SearchAnswers DEF IInv
<1>2. v \in Contract!Refusals \cup {Contract!Answer(r) : r \in Requests}
  BY <1>1 DEF Contract!Refusals
<1>3. Bound' = Bound /\ UNCHANGED <<routes, defaultRoute, useDefaultRoute>>
  BY BoundIsMap, BoundIsMapNext DEF tableVars
<1>4. Contract!Decide
  BY <1>2, <1>3 DEF Contract!Decide, Decide
<1> QED
  BY <1>4 DEF Contract!Next

LEMMA ReadRefines ==
    ASSUME IInv, Read
    PROVE  [Contract!Next]_Contract!vars
<1>1. /\ connection # None /\ verdict[connection] = "none"
      /\ UNCHANGED <<listenSocket, tableVars, connection>>
  BY DEF Read, IInv, Connected, Answering, Serving, socketVars
<1>2. CASE \E status \in {"413", "400"} : Decide(status)
  BY <1>1, <1>2, DecideRefines
<1>3. CASE UNCHANGED verdict
  BY <1>1, <1>3, ContractKept
<1> QED
  BY <1>2, <1>3 DEF Read

LEMMA MatchRefines ==
    ASSUME IInv, Match
    PROVE  Contract!Next
<1>1. /\ connection # None /\ verdict[connection] = "none" /\ request \in Requests
      /\ UNCHANGED <<listenSocket, tableVars, connection>>
  BY DEF Match, IInv, Connected, Answering, Serving, socketVars
<1>2. Decide(Found(request))
  BY DEF Match, Found
<1>3. Found(request) \in {"400", "413"} \cup {Found(r) : r \in Requests}
  BY <1>1
<1> QED
  BY <1>1, <1>2, <1>3, DecideRefines

LEMMA CloseRefines ==
    ASSUME IInv, CloseConnection
    PROVE  Contract!Next
<1>1. /\ connection # None /\ verdict[connection] # "none" /\ connection' = None
      /\ UNCHANGED <<listenSocket, routes, defaultRoute, useDefaultRoute, verdict>>
  BY DEF CloseConnection, IInv, Connected, Answering, Serving, tableVars
<1>2. Bound' = Bound
  BY <1>1, BoundIsMap, BoundIsMapNext
<1>3. Contract!Release
  BY <1>1, <1>2 DEF Contract!Release
<1> QED
  BY <1>3 DEF Contract!Next

LEMMA StepRefines == IInv /\ [Next]_vars => [Contract!Next]_Contract!vars
<1> SUFFICES ASSUME IInv, [Next]_vars PROVE [Contract!Next]_Contract!vars
  OBVIOUS
<1>1. CASE UNCHANGED vars
  BY <1>1, ContractKept DEF vars, tableVars
<1>2. CASE (\E p \in Peers : PeerConnects(p)) \/ SelectReady \/ AcceptFails
           \/ AcceptRefused \/ CallbackReturns \/ Respond
  BY <1>2, ContractKept DEF PeerConnects, SelectReady, AcceptFails, AcceptRefused,
     CallbackReturns, Respond, socketVars
<1>3. CASE HttpServerStart \/ HttpServerStop \/ Accept \/ Read \/ Match \/ CloseConnection
  BY <1>3, StartRefines, StopRefines, AcceptRefines, ReadRefines, MatchRefines, CloseRefines
<1>4. CASE \E e \in Endpoints :
            HttpServerRegisterEndpoint(e) \/ HttpServerSetDefaultEndpoint(e)
  BY <1>4, RegisterRefines, SetDefaultRefines
<1> QED
  BY <1>1, <1>2, <1>3, <1>4 DEF Next, Local

(* Whatever is registered, twice or not, and whenever the consumer stops   *)
(* and starts the server: the polled server is one of HttpServer.h.        *)
THEOREM PolledServerImplementsContract == Spec => ImplementsContract
<1>1. Spec => Contract!Spec
  BY InitRefines, StepRefines, Invariant, PTL DEF Spec, Contract!Spec
<1> QED
  BY <1>1 DEF ImplementsContract

(* No peer is answered twice: a verdict, once given, stays.                *)
VerdictsStay == [][\A p \in Peers : verdict[p] # "none" => verdict'[p] = verdict[p]]_vars

(* However callbacks change the table under the request they serve, what   *)
(* was decided for a peer is never decided again.                          *)
THEOREM VerdictsAreFinal == Spec => VerdictsStay
<1> DEFINE Stay == \A p \in Peers : verdict[p] # "none" => verdict'[p] = verdict[p]
<1>1. IInv /\ [Next]_vars => [Stay]_vars
  <2> SUFFICES ASSUME IInv, Next PROVE Stay
    OBVIOUS
  <2>1. CASE Read \/ Match
    <3>1. verdict[connection] = "none" /\ verdict \in [Peers -> {"none"} \cup Statuses \cup Endpoints]
      BY <2>1 DEF Read, Match, IInv, Answering, TypeOK
    <3>2. verdict' = verdict \/ \E v : verdict' = [verdict EXCEPT ![connection] = v]
      BY <2>1 DEF Read, Match, Decide
    <3> QED
      BY <3>1, <3>2
  <2>2. CASE UNCHANGED verdict
    BY <2>2
  <2> QED
    BY <2>1, <2>2 DEF Next, Local, HttpServerStart, HttpServerStop, HttpServerRegisterEndpoint,
       HttpServerSetDefaultEndpoint, PeerConnects, SelectReady, Accept, AcceptFails,
       AcceptRefused, CallbackReturns, Respond, CloseConnection
<1> QED
  BY <1>1, Invariant, PTL DEF Spec, VerdictsStay

=============================================================================
