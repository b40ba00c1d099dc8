---------------------------- MODULE MCPollServer ----------------------------
(* Two peers; two endpoints on one path and one that competes with the     *)
(* first for its method and path; a request of an unknown method and one   *)
(* for an unknown path; a table of two.                                    *)
EXTENDS PollServer

CONSTANTS p1, p2

MCEndpoints == {"form", "form2", "save"}
MCMethodOf == [e \in MCEndpoints |-> IF e = "save" THEN "POST" ELSE "GET"]
MCPathOf == [e \in MCEndpoints |-> "/setup"]
MCRequests == [method : {"GET", "POST", "PUT"}, path : {"/setup"}] \cup
              {[method |-> "POST", path |-> "/other"]}
=============================================================================
