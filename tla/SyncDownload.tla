---------------------------- MODULE SyncDownload ----------------------------
(***************************************************************************)
(* HttpDownloadFile of the Simulator and of the ESP32                      *)
(* (src/src/lib/Platform/Simulator/HttpClient.c and ESP32/HttpClient.c).   *)
(* One thread runs the call to its end; what is nondeterministic are the   *)
(* failures of the calls it makes, and how recv cuts the response.         *)
(*                                                                         *)
(* A response is what its lengths are: where the header block ends, how    *)
(* many bytes there are in all, and whether its status is 200.  A byte is  *)
(* its position in the response.  Each call has a target of its own.       *)
(***************************************************************************)
EXTENDS Integers, Sequences

CONSTANTS
    Clients,        \* the clients to consider, of "Simulator" and "ESP32"
    BUFFER,         \* HTTP_BUFFER_SIZE: the most bytes one recv returns
    HEADER_BUFFER,  \* HTTP_BUFFER_SIZE * 2
    Responses       \* the responses servers send

ASSUME ClientAssumption == Clients \subseteq {"Simulator", "ESP32"}
ASSUME BufferAssumption == BUFFER \in Nat \ {0} /\ HEADER_BUFFER \in Nat \ {0}
ASSUME ResponseAssumption ==
    /\ Responses \subseteq [head : Nat \ {0}, total : Nat, found : BOOLEAN]
    /\ \A r \in Responses : r.head <= r.total

VARIABLES
    client, response,
    pc,
    held,           \* what is open or allocated
    received,       \* bytes of the response read so far
    headerBufferLen,
    headersSkipped,
    file,           \* what the target holds
    unseen,         \* what went wrong without the client looking
    result          \* of the call that returned

vars == <<client, response, pc, held, received, headerBufferLen, headersSkipped,
          file, unseen, result>>
callVars == <<client, response>>
readVars == <<received, headerBufferLen, headersSkipped>>

Handles == {"socket", "ssl", "context", "file", "client"}
Mishaps == {"write", "cut", "overflow", "stale"}
OldFile == <<0>>            \* what the target held before the call

Positions == UNION {0 .. r.total : r \in Responses}

TypeOK ==
    /\ client \in Clients /\ response \in Responses
    /\ pc \in {"idle", "connect", "tls", "send", "receive", "cleanup",
               "open", "init", "perform", "close", "returned"}
    /\ held \subseteq Handles
    /\ received \in Positions
    /\ headerBufferLen \in 0 .. HEADER_BUFFER
    /\ headersSkipped \in BOOLEAN
    /\ file \in Seq(Positions)
    /\ unseen \subseteq Mishaps
    /\ result \in BOOLEAN

Init ==
    /\ client \in Clients /\ response \in Responses
    /\ pc = "idle"
    /\ held = {}
    /\ received = 0 /\ headerBufferLen = 0 /\ headersSkipped = FALSE
    /\ file = OldFile
    /\ unseen = {}
    /\ result = FALSE

-----------------------------------------------------------------------------
Span(first, last) == [i \in 1 .. last - first + 1 |-> first + i - 1]
Body == Span(response.head + 1, response.total)
Lesser(a, b) == IF a < b THEN a ELSE b
Goto(next) == pc' = next

(* WriteFile, whose result is not looked at.                               *)
Write(contents, bytes, seen) ==
    \/ file' = contents \o bytes /\ unseen' = seen
    \/ bytes # <<>> /\ file' = contents /\ unseen' = seen \cup {"write"}

(* CloseFile, whose result is not looked at either: when it fails, the end *)
(* of what was written may not have reached the target.                    *)
CloseFile(seen) ==
    \/ UNCHANGED file /\ unseen' = seen
    \/ /\ \E n \in 0 .. Len(file) - 1 : file' = SubSeq(file, 1, n)
       /\ unseen' = seen \cup {"write"}

(* A call begins; the server's answer is settled, not yet received.        *)
HttpDownloadFile ==
    /\ pc = "idle"
    /\ client' \in Clients /\ response' \in Responses
    /\ Goto(IF client' = "Simulator" THEN "connect" ELSE "open")
    /\ received' = 0 /\ headerBufferLen' = 0 /\ headersSkipped' = FALSE
    /\ file' = OldFile
    /\ unseen' = {}
    /\ result' = FALSE
    /\ UNCHANGED held

Return ==
    /\ pc = "returned"
    /\ Goto("idle")
    /\ UNCHANGED <<callVars, readVars, held, file, unseen, result>>

-----------------------------------------------------------------------------
(* The Simulator.                                                          *)

(* No address, or none that a socket connects to: each is closed again.    *)
ConnectSocket ==
    /\ pc = "connect"
    /\ \/ held' = {"socket"} /\ \E https \in BOOLEAN : Goto(IF https THEN "tls" ELSE "send")
       \/ held' = {} /\ Goto("returned")
    /\ UNCHANGED <<callVars, readVars, file, unseen, result>>

(* The socket of a session that fails is left open.                        *)
Bug_EstablishTLS ==
    /\ pc = "tls"
    /\ \/ held' = held \cup {"ssl", "context"} /\ Goto("send")
       \/ UNCHANGED held /\ Goto("returned")
    /\ UNCHANGED <<callVars, readVars, file, unseen, result>>

(* Without a context, or a handshake, EstablishTLS frees what it has, and  *)
(* its caller closes the socket.                                           *)
EstablishTLS ==
    /\ pc = "tls"
    /\ \/ held' = held \cup {"ssl", "context"} /\ Goto("send")
       \/ held' = held \ {"socket"} /\ Goto("returned")
    /\ UNCHANGED <<callVars, readVars, file, unseen, result>>

(* How many bytes went out is not looked at: a request cut short shows in  *)
(* the response only.                                                      *)
SendRequest ==
    /\ pc = "send"
    /\ Goto("receive")
    /\ UNCHANGED <<callVars, readVars, held, file, unseen, result>>

(* What one recv or SSL_read may bring.                                    *)
Pieces == 1 .. Lesser(BUFFER, response.total - received)

(* The room left in headerBuffer miscounted by one.                        *)
Bug_Kept(n) == Lesser(headerBufferLen + n, HEADER_BUFFER + 1)

(* headerBuffer takes what it has room for; the rest is dropped.           *)
Kept(n) == Lesser(headerBufferLen + n, HEADER_BUFFER)

(* The pointer left before the last byte of the blank line.                *)
Bug_BodyKept(kept) == Span(response.head, kept)

(* What of the kept bytes lies behind the blank line.                      *)
BodyKept(kept) == Span(response.head + 1, kept)

(* SkipHeaders: the blank line is among the kept bytes.  Or it is not, but *)
(* the search, which ends at the first zero byte and not at what was kept, *)
(* completes one from bytes an earlier use of the stack left behind; then  *)
(* nothing of the buffer counts as body.                                   *)
SkipHeaders(n, kept) ==
    \/ /\ response.head <= kept
       /\ Write(<<>>, BodyKept(kept),
                IF kept < headerBufferLen + n THEN {"overflow"} ELSE {})
    \/ /\ response.head > kept
       /\ file' = <<>> /\ unseen' = {"stale"}

(* The file opened before the end of the headers is seen.                  *)
Bug_HeadersIncomplete(kept) ==
    /\ response.head > kept
    /\ file' = <<>>
    /\ UNCHANGED <<pc, held, headersSkipped, unseen>>

HeadersIncomplete(kept) ==
    /\ response.head > kept
    /\ UNCHANGED <<pc, held, headersSkipped, file, unseen>>

(* One round of ReadResponseToFile before the headers are skipped.  If the *)
(* file does not open the call releases everything and returns false.      *)
ReceiveHeaders ==
    /\ pc = "receive" /\ ~headersSkipped
    /\ \E n \in Pieces :
        /\ received' = received + n
        /\ headerBufferLen' = Kept(n)
        /\ \/ HeadersIncomplete(Kept(n))
           \/ /\ headersSkipped' = TRUE
              /\ held' = held \cup {"file"}
              /\ SkipHeaders(n, Kept(n))
              /\ UNCHANGED pc
           \/ /\ headersSkipped' = TRUE
              /\ Goto("cleanup")
              /\ UNCHANGED <<held, file, unseen>>
    /\ UNCHANGED <<callVars, result>>

ReceiveBody ==
    /\ pc = "receive" /\ headersSkipped
    /\ \E n \in Pieces :
        /\ received' = received + n
        /\ Write(file, Span(received + 1, received + n), unseen)
    /\ UNCHANGED <<callVars, pc, held, headerBufferLen, headersSkipped, result>>

(* recv brings nothing more: the end of the response, or an error of the   *)
(* connection, which looks the same.                                       *)
ReceiveEnds ==
    /\ pc = "receive"
    /\ result' = ("file" \in held)
    /\ held' = held \ {"file"}
    /\ LET seen == IF received < response.total THEN unseen \cup {"cut"} ELSE unseen
       IN  IF "file" \in held THEN CloseFile(seen) ELSE UNCHANGED file /\ unseen' = seen
    /\ Goto("cleanup")
    /\ UNCHANGED <<callVars, readVars>>

(* CleanupSSL, and close.                                                  *)
Cleanup ==
    /\ pc = "cleanup"
    /\ held' = held \ {"ssl", "context", "socket"}
    /\ Goto("returned")
    /\ UNCHANGED <<callVars, readVars, file, unseen, result>>

Simulator ==
    \/ ConnectSocket \/ EstablishTLS \/ SendRequest
    \/ ReceiveHeaders \/ ReceiveBody \/ ReceiveEnds \/ Cleanup

-----------------------------------------------------------------------------
(* The ESP32: esp_http_client_perform runs the transfer and calls back.    *)

(* OpenFile truncates the target before the server is asked.               *)
OpenTarget ==
    /\ pc = "open"
    /\ \/ held' = {"file"} /\ file' = <<>> /\ Goto("init")
       \/ UNCHANGED <<held, file>> /\ Goto("returned")
    /\ UNCHANGED <<callVars, readVars, unseen, result>>

InitClient ==
    /\ pc = "init"
    /\ \/ held' = held \cup {"client"} /\ Goto("perform")
       \/ held' = held \ {"file"} /\ Goto("returned")
    /\ UNCHANGED <<callVars, readVars, file, unseen, result>>

(* OnHttpEvent with data: body bytes only, whatever the status is.         *)
OnHttpEvent ==
    /\ pc = "perform"
    /\ LET from == IF received < response.head THEN response.head ELSE received IN
       \E n \in 1 .. Lesser(BUFFER, response.total - from) :
          /\ received' = from + n
          /\ Write(file, Span(from + 1, from + n), unseen)
    /\ UNCHANGED <<callVars, pc, held, headerBufferLen, headersSkipped, result>>

(* esp_http_client_perform returns ESP_OK once the body is complete, or an *)
(* error at any time.                                                      *)
PerformEnds ==
    /\ pc = "perform"
    /\ \E ok \in BOOLEAN :
        /\ ok => received = response.total \/ Body = <<>>
        /\ result' = (ok /\ response.found)
    /\ Goto("close")
    /\ UNCHANGED <<callVars, readVars, held, file, unseen>>

CloseTarget ==
    /\ pc = "close"
    /\ held' = held \ {"client", "file"}
    /\ CloseFile(unseen)
    /\ Goto("returned")
    /\ UNCHANGED <<callVars, readVars, result>>

Esp32 == OpenTarget \/ InitClient \/ OnHttpEvent \/ PerformEnds \/ CloseTarget

Next == HttpDownloadFile \/ Return \/ Simulator \/ Esp32

Spec == Init /\ [][Next]_vars

-----------------------------------------------------------------------------
(* Properties.                                                             *)

(* The bytes of s are body bytes, each once and in their order.            *)
InBodyOrder(s) ==
    /\ \A i \in DOMAIN s : s[i] > response.head
    /\ \A i \in 1 .. Len(s) - 1 : s[i] < s[i + 1]

(* A call that returns true has stored the whole body, unless a write, the *)
(* close, the transport or the header buffer failed it unseen; then bytes  *)
(* of the body are missing, but no header byte is stored and none is out   *)
(* of place, except behind a blank line that was not the response's.  The  *)
(* ESP32 takes neither a broken transfer nor another status than 200 for   *)
(* true.                                                                   *)
TrueMeansStored ==
    pc = "returned" /\ result =>
        /\ unseen = {} => file = Body
        /\ "stale" \notin unseen => InBodyOrder(file)
        /\ client = "ESP32" => response.found /\ unseen \subseteq {"write"}

(* Whichever way a call ends, nothing it opened or allocated outlives it.  *)
NothingHeld == pc \in {"idle", "returned"} => held = {}

(* A call of the Simulator that returns false leaves the file alone: it is *)
(* opened, and truncated, only once a response has begun.                  *)
FalseLeavesOldFile ==
    pc = "returned" /\ client = "Simulator" /\ ~result => file = OldFile

=============================================================================
