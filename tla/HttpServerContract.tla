------------------------- MODULE HttpServerContract -------------------------
(***************************************************************************)
(* What an HTTP server of this library promises its consumer and its peers *)
(* (src/src/lib/HttpServer.h): connections are served one at a time, and   *)
(* each is given one verdict, which depends on what is registered at that  *)
(* moment and on the request alone.  The table is a map here: the first    *)
(* endpoint registered for a method and path keeps it.                     *)
(***************************************************************************)
EXTENDS Integers

CONSTANTS Endpoints, MethodOf, PathOf, Requests, MAX_ROUTES, Peers, None

VARIABLES
    listening,
    bound,          \* the endpoint that has each method and path, or None
    count,          \* registrations since the last stop
    default,        \* the default endpoint, or None
    serving,        \* the peer being served, or None
    verdict         \* what was decided for each peer

vars == <<listening, bound, count, default, serving, verdict>>

KeyOf(e) == [method |-> MethodOf[e], path |-> PathOf[e]]
Keys == {KeyOf(e) : e \in Endpoints}
Refusals == {"400", "413"}
Unanswered == [k \in Keys |-> None]

Answer(request) ==
    IF request \in Keys /\ bound[request] # None THEN bound[request]
    ELSE IF default # None THEN default
    ELSE IF \E k \in Keys : bound[k] # None /\ k.path = request.path THEN "405"
    ELSE "404"

Init ==
    /\ listening = FALSE
    /\ bound = Unanswered
    /\ count = 0
    /\ default = None
    /\ serving = None
    /\ verdict = [p \in Peers |-> "none"]

(* The consumer may call between two polls, and from its own callback.     *)
Consumer == serving # None => verdict[serving] \in Endpoints

Start ==
    /\ Consumer
    /\ listening' = TRUE
    /\ UNCHANGED <<bound, count, default, serving, verdict>>

(* A stop forgets the endpoints, not the default one.                      *)
Stop ==
    /\ Consumer
    /\ listening' = FALSE
    /\ bound' = Unanswered
    /\ count' = 0
    /\ UNCHANGED <<default, serving, verdict>>

Register(e) ==
    /\ Consumer
    /\ count < MAX_ROUTES
    /\ count' = count + 1
    /\ bound' = [bound EXCEPT ![KeyOf(e)] = IF @ = None THEN e ELSE @]
    /\ UNCHANGED <<listening, default, serving, verdict>>

SetDefault(e) ==
    /\ Consumer
    /\ count < MAX_ROUTES
    /\ default' = e
    /\ UNCHANGED <<listening, bound, count, serving, verdict>>

Take(p) ==
    /\ listening
    /\ serving = None
    /\ verdict[p] = "none"
    /\ serving' = p
    /\ UNCHANGED <<listening, bound, count, default, verdict>>

Decide ==
    /\ serving # None
    /\ verdict[serving] = "none"
    /\ \E v \in Refusals \cup {Answer(r) : r \in Requests} :
        verdict' = [verdict EXCEPT ![serving] = v]
    /\ UNCHANGED <<listening, bound, count, default, serving>>

Release ==
    /\ serving # None
    /\ verdict[serving] # "none"
    /\ serving' = None
    /\ UNCHANGED <<listening, bound, count, default, verdict>>

Next ==
    \/ Start \/ Stop
    \/ \E e \in Endpoints : Register(e) \/ SetDefault(e)
    \/ \E p \in Peers : Take(p)
    \/ Decide \/ Release

Spec == Init /\ [][Next]_vars

=============================================================================
