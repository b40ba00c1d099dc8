--------------------------- MODULE RequestReading ---------------------------
(***************************************************************************)
(* Reading one HTTP request into the server's buffer.  There are two loops *)
(* in the code: ServeConnection of the RP2040 server, and ReadRequest of   *)
(* the Simulator, which the ESP32 server repeats word for word ("POSIX").  *)
(*                                                                         *)
(* A request is what its lengths are: the position just after the blank    *)
(* line, the first line that reads Content-Length and where it ends, and   *)
(* how many bytes the peer sends before it closes.  recv hands them over   *)
(* in pieces of any size, which are the steps.                             *)
(***************************************************************************)
EXTENDS Integers

CONSTANTS
    Loops,          \* the loops to consider, of "RP2040" and "POSIX"
    CAPACITY,       \* HTTP_SERVER_MAX_REQUEST_SIZE - 1
    SIZE_MOD,       \* values of size_t: 2^32 on the boards, 2^64 on the host
    Streams         \* the requests peers send

ASSUME LoopAssumption == Loops \subseteq {"RP2040", "POSIX"}
ASSUME SizeAssumption ==
    /\ CAPACITY \in Nat \ {0}
    /\ SIZE_MOD \in Nat
    /\ CAPACITY < SIZE_MOD
ASSUME StreamAssumption ==
    Streams \subseteq [head : Nat \ {0}, announced : Nat,
                      line : Nat \ {0}, total : Nat]

VARIABLES
    loop,               \* the loop that reads this connection
    stream,             \* the request on the wire
    RequestLength,      \* bytes in RequestBuffer ("received")
    HeadersComplete,
    HeaderLength,       \* "headerEnd"
    ExpectedBodyLength, \* "announcedBody"
    outcome,            \* what the loop decided
    bodyLength,         \* the body length handed to the callback
    recvFailed          \* recv returned an error

vars == <<loop, stream, RequestLength, HeadersComplete, HeaderLength,
          ExpectedBodyLength, outcome, bodyLength, recvFailed>>

Outcomes == {"reading", "closed", "tooLarge", "dispatch"}

TypeOK ==
    /\ loop \in Loops
    /\ stream \in Streams
    /\ RequestLength \in 0 .. CAPACITY
    /\ HeadersComplete \in BOOLEAN
    /\ HeaderLength \in 0 .. CAPACITY
    /\ ExpectedBodyLength \in 0 .. SIZE_MOD - 1
    /\ outcome \in Outcomes
    /\ bodyLength \in 0 .. CAPACITY
    /\ recvFailed \in BOOLEAN

Init ==
    /\ loop \in Loops
    /\ stream \in Streams
    /\ RequestLength = 0
    /\ HeadersComplete = FALSE
    /\ HeaderLength = 0
    /\ ExpectedBodyLength = 0
    /\ outcome = "reading"
    /\ bodyLength = 0
    /\ recvFailed = FALSE

-----------------------------------------------------------------------------
Bug_SizeSum(a, b) == b      \* the header left out of the comparison

SizeSum(a, b) == (a + b) % SIZE_MOD         \* size_t addition

Lesser(a, b) == IF a < b THEN a ELSE b

(* ContentLengthOf, of the n bytes in the buffer: it searches all of them,  *)
(* beyond the blank line too.  The number counts as one digit, there or    *)
(* not, and is 0 without one.  Every value * 10 + digit wraps in an        *)
(* unsigned type, so what is left of the number is its remainder.          *)
ContentLengthOf(n) == IF stream.line <= n THEN stream.announced % SIZE_MOD ELSE 0

(* The blank line noticed only once something follows it.                  *)
Bug_Received(n) ==
    /\ RequestLength' = RequestLength + n
    /\ HeadersComplete' = (stream.head < RequestLength')
    /\ HeaderLength' = IF HeadersComplete' THEN stream.head ELSE 0
    /\ ExpectedBodyLength' = IF HeadersComplete \/ ~HeadersComplete'
                             THEN ExpectedBodyLength
                             ELSE ContentLengthOf(RequestLength')

(* recv returned n bytes; the header block is looked for until it is found *)
(* (CompleteHeaders), and the announced length is read at that moment.     *)
Received(n) ==
    /\ RequestLength' = RequestLength + n
    /\ HeadersComplete' = (stream.head <= RequestLength')
    /\ HeaderLength' = IF HeadersComplete' THEN stream.head ELSE 0
    /\ ExpectedBodyLength' = IF HeadersComplete \/ ~HeadersComplete'
                             THEN ExpectedBodyLength
                             ELSE ContentLengthOf(RequestLength')

(* The capacity without, and with two, bytes set aside for the terminator. *)
Bug_PiecesOver == 1 .. Lesser(CAPACITY + 1, stream.total) - RequestLength
Bug_PiecesUnder == 1 .. Lesser(CAPACITY - 1, stream.total) - RequestLength

(* The sizes recv may return: what fits and what the peer still sends.     *)
Pieces == 1 .. Lesser(CAPACITY, stream.total) - RequestLength

(* The announced length handed on without clamping it.                     *)
Bug_Dispatch ==
    /\ outcome' = "dispatch"
    /\ bodyLength' = ExpectedBodyLength'

Dispatch ==
    /\ outcome' = "dispatch"
    /\ bodyLength' = Lesser(ExpectedBodyLength', RequestLength' - HeaderLength')

Decide(o) == outcome' = o /\ UNCHANGED bodyLength

-----------------------------------------------------------------------------
(* ServeConnection of the RP2040 server: one iteration per action.         *)

LwipBufferFull ==
    /\ loop = "RP2040" /\ outcome = "reading"
    /\ RequestLength >= CAPACITY
    /\ Decide("tooLarge")
    /\ UNCHANGED <<loop, stream, RequestLength, HeadersComplete, HeaderLength,
                   ExpectedBodyLength, recvFailed>>

(* The size check and RequestIsComplete both add in size_t.                *)
LwipReceive ==
    /\ loop = "RP2040" /\ outcome = "reading"
    /\ \E n \in Pieces : Received(n)
    /\ LET needed == SizeSum(HeaderLength', ExpectedBodyLength')
       IN  \/ ~HeadersComplete' /\ Decide("reading")
           \/ HeadersComplete' /\ needed > CAPACITY /\ Decide("tooLarge")
           \/ HeadersComplete' /\ needed <= CAPACITY /\ RequestLength' < needed /\ Decide("reading")
           \/ HeadersComplete' /\ needed <= CAPACITY /\ RequestLength' >= needed /\ Dispatch
    /\ UNCHANGED <<loop, stream, recvFailed>>

(* recv <= 0: the connection is closed without an answer.                  *)
LwipRecvEnds ==
    /\ loop = "RP2040" /\ outcome = "reading"
    /\ RequestLength < CAPACITY
    /\ \/ RequestLength = stream.total /\ UNCHANGED recvFailed
       \/ recvFailed' = TRUE
    /\ Decide("closed")
    /\ UNCHANGED <<loop, stream, RequestLength, HeadersComplete, HeaderLength,
                   ExpectedBodyLength>>

-----------------------------------------------------------------------------
(* ReadRequest of the Simulator and ESP32 servers.  Its caller answers 413 *)
(* whenever it returns false.                                              *)

PosixReceive ==
    /\ loop = "POSIX" /\ outcome = "reading"
    /\ \E n \in Pieces : Received(n)
    /\ LET announcedFits == ExpectedBodyLength' <= CAPACITY - HeaderLength'
           arrived == RequestLength' >= HeaderLength' + ExpectedBodyLength'
       IN  \/ ~HeadersComplete' /\ RequestLength' < CAPACITY /\ Decide("reading")
           \/ ~HeadersComplete' /\ RequestLength' = CAPACITY /\ Decide("tooLarge")
           \/ HeadersComplete' /\ ~announcedFits /\ Decide("tooLarge")
           \/ HeadersComplete' /\ announcedFits /\ ~arrived /\ Decide("reading")
           \/ HeadersComplete' /\ announcedFits /\ arrived /\ Dispatch
    /\ UNCHANGED <<loop, stream, recvFailed>>

(* recv = 0 leaves the loop and returns what there is.                     *)
PosixEndOfStream ==
    /\ loop = "POSIX" /\ outcome = "reading"
    /\ RequestLength = stream.total
    /\ UNCHANGED <<loop, stream, RequestLength, HeadersComplete, HeaderLength,
                   ExpectedBodyLength, recvFailed>>
    /\ IF HeadersComplete THEN Dispatch ELSE Decide("tooLarge")

(* recv < 0 with anything but EINTR returns false.                         *)
PosixRecvFails ==
    /\ loop = "POSIX" /\ outcome = "reading"
    /\ recvFailed' = TRUE
    /\ Decide("tooLarge")
    /\ UNCHANGED <<loop, stream, RequestLength, HeadersComplete, HeaderLength,
                   ExpectedBodyLength>>

Next ==
    \/ LwipBufferFull \/ LwipReceive \/ LwipRecvEnds
    \/ PosixReceive \/ PosixEndOfStream \/ PosixRecvFails

Spec == Init /\ [][Next]_vars

(* recv returns when bytes or the end of the stream are there; the peer    *)
(* sends all of its bytes and closes.  Nothing makes recv fail.            *)
FairSpec == Spec /\ WF_vars(Next /\ ~recvFailed')

-----------------------------------------------------------------------------
(* Properties.                                                             *)

(* The body length the header block announces, and what a size_t keeps of  *)
(* it.                                                                     *)
Announced == IF stream.line <= stream.head THEN stream.announced ELSE 0
Parsed == Announced % SIZE_MOD

(* No line of what follows the header block reads Content-Length.          *)
Plain == stream.line <= stream.head \/ stream.line > stream.total

Needed == stream.head + Announced
Fits == Needed <= CAPACITY
Wraps == Needed >= SIZE_MOD
Sent == stream.total >= Needed

(* The terminator the dispatcher writes behind the body stays inside the   *)
(* buffer and inside the bytes received, even when the announced length is *)
(* so large that the RP2040's size check wraps around.                     *)
TerminatorInBounds ==
    outcome = "dispatch" => /\ HeaderLength + bodyLength <= RequestLength
                            /\ HeaderLength + bodyLength <= CAPACITY

(* The RP2040 server's verdict does not depend on how recv cut the stream: *)
(* 413 is answered only to a request that cannot fit, and a callback sees  *)
(* a short body only if the announced length, or its sum with the headers, *)
(* wraps size_t; as long as the bytes after the header block do not look   *)
(* like one.                                                               *)
LwipVerdict ==
    loop = "RP2040" /\ Plain =>
        /\ outcome = "tooLarge" => ~Fits
        /\ outcome = "dispatch" /\ ~Wraps => Fits /\ Sent /\ bodyLength = Announced

(* The same of the POSIX loop, as long as recv does not fail and the peer  *)
(* sends what the loop waits for.  Its checks cannot wrap, but the parse   *)
(* can: what the callback sees is the parsed length, and only a length     *)
(* that wraps in the parse lets a request through that cannot fit.         *)
PosixVerdict ==
    loop = "POSIX" /\ Plain /\ ~recvFailed /\ stream.total >= stream.head + Parsed =>
        /\ outcome = "tooLarge" => ~Fits
        /\ outcome = "dispatch" => bodyLength = Parsed
        /\ outcome = "dispatch" /\ Announced < SIZE_MOD => Fits /\ bodyLength = Announced

(* A peer that sends a request that fits reaches its callback, however the *)
(* bytes are cut, unless recv fails or a body line reads Content-Length.   *)
FittingRequestServed ==
    (Plain /\ Fits /\ Sent) ~> (outcome = "dispatch" \/ recvFailed)

(* "Fills the buffer until the headers are complete and the announced body *)
(* has arrived" (Simulator/HttpServer.c:153).                              *)
AnnouncedBodyArrived ==
    loop = "POSIX" /\ outcome = "dispatch" =>
        RequestLength >= HeaderLength + ExpectedBodyLength

=============================================================================
