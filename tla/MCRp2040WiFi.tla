---------------------------- MODULE MCRp2040WiFi ----------------------------
(* Room for two networks and scans that report three; two scans, so that   *)
(* entries of the first could be left over; a mailbox of three, so that a  *)
(* restart finds the start and the stop before it still posted.            *)
EXTENDS Rp2040WiFi

(* A plain query; one for the longest name there is; one for a longer name *)
(* that goes on beyond the buffer; one that ends within a label; a label   *)
(* too long; a response; less than a header.                               *)
MCQueries ==
    {[standard |-> TRUE, labels |-> <<3, 7>>, size |-> 29],
     [standard |-> TRUE, labels |-> <<63, 63, 63, 61>>, size |-> 271],
     [standard |-> TRUE, labels |-> <<63, 63, 63, 63, 40>>, size |-> 314],
     [standard |-> TRUE, labels |-> <<63>>, size |-> 20],
     [standard |-> TRUE, labels |-> <<64>>, size |-> 82],
     [standard |-> FALSE, labels |-> <<3>>, size |-> 21],
     [standard |-> TRUE, labels |-> <<3>>, size |-> 5]}
=============================================================================
