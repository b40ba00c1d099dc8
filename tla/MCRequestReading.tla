-------------------------- MODULE MCRequestReading --------------------------
(* A buffer of 4 bytes and an 8-value size_t: headers and bodies below, at *)
(* and above the capacity, announced lengths that wrap in the parse or in  *)
(* the sum with the headers, the announcing line in the header block,      *)
(* after it or nowhere, and peers that send less than they announce or     *)
(* more.                                                                   *)
EXTENDS RequestReading

MCStreams == [head : 1 .. 5, announced : 0 .. 10, line : {1, 3, 5, 7}, total : 0 .. 6]
=============================================================================
