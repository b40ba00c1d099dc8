-------------------------- MODULE MCHttpServerTask --------------------------
(* Two endpoints on one path, one slot fewer than would hold two           *)
(* registrations of each, a request for either and one for another path.   *)
EXTENDS HttpServerTask

CONSTANTS t1, t2

MCEndpoints == {"form", "save"}
MCMethodOf == [e \in MCEndpoints |-> IF e = "form" THEN "GET" ELSE "POST"]
MCPathOf == [e \in MCEndpoints |-> "/setup"]
MCRequests == [method : {"GET", "POST"}, path : {"/setup"}] \cup
              {[method |-> "GET", path |-> "/other"]}
MCTasks == {t1, t2}
=============================================================================
