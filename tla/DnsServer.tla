------------------------------ MODULE DnsServer ------------------------------
(***************************************************************************)
(* The answer of the RP2040's DNS server                                   *)
(* (src/src/lib/Platform/RP2040/dnsserver.c), a function of the query: the *)
(* server keeps no state but its socket, which is Rp2040WiFi's.  A query   *)
(* is its size, whether its header asks a standard question, and the       *)
(* length bytes of the name it asks for, whose labels follow each other    *)
(* from the end of the header and end with a zero byte.                    *)
(***************************************************************************)
EXTENDS Integers, Sequences

HEADER == 12                \* sizeof(dns_header_t)
MAX_DNS_MSG_SIZE == 300
MAX_LABEL == 63
MAX_NAME == 255
TYPE_AND_CLASS == 4         \* behind the name of a question
ANSWER == 16                \* the record that dns_server_process appends

LeastOf(S) == CHOOSE x \in S : \A y \in S : x <= y

(* What pbuf_copy_partial leaves of the message.                           *)
Copied(q) == LeastOf({q.size, MAX_DNS_MSG_SIZE})

(* Where each length byte is; the last is the zero byte behind the name.   *)
Positions(q) ==
    LET at[i \in 1 .. Len(q.labels) + 1] ==
            IF i = 1 THEN HEADER ELSE at[i - 1] + 1 + q.labels[i - 1]
    IN  at

Terminator(q) == Positions(q)[Len(q.labels) + 1]

(* The length byte at which the walk over the name ends: a label too long, *)
(* or the zero byte, or none, for the label before runs past the end of    *)
(* the message.                                                            *)
WalkStop(q) ==
    LeastOf({i \in DOMAIN Positions(q) :
                \/ Positions(q)[i] >= Copied(q)
                \/ i = Len(q.labels) + 1
                \/ q.labels[i] > MAX_LABEL})

NameEnd(q) ==
    LET stop == Positions(q)[WalkStop(q)]
    IN  IF stop < Copied(q) THEN stop + 1 ELSE stop

LabelTooLong(q) ==
    /\ Positions(q)[WalkStop(q)] < Copied(q)
    /\ WalkStop(q) # Len(q.labels) + 1

(* The length of the name not checked.                                     *)
Bug_NameFits(q) == TRUE

NameFits(q) == NameEnd(q) - HEADER <= MAX_NAME

(* What dns_server_process does not ignore.                                *)
Answered(q) ==
    /\ Copied(q) >= HEADER /\ q.standard
    /\ ~LabelTooLong(q) /\ NameFits(q)

ReplyLength(q) == NameEnd(q) + TYPE_AND_CLASS + ANSWER

-----------------------------------------------------------------------------
(* A query with one whole question, as RFC 1035 has it.                    *)
WellFormed(q) ==
    /\ q.standard
    /\ \A i \in 1 .. Len(q.labels) : q.labels[i] \in 1 .. MAX_LABEL
    /\ Terminator(q) + 1 - HEADER <= MAX_NAME
    /\ q.size >= Terminator(q) + 1 + TYPE_AND_CLASS

=============================================================================
