------------------------ MODULE RequestReading_proofs ------------------------
(***************************************************************************)
(* Proofs about the two loops that read a request, for every buffer size,  *)
(* every width of size_t and every set of requests.                        *)
(***************************************************************************)
EXTENDS RequestReading, TLAPS

(* What a size_t keeps of a number: the number itself if it is in range,   *)
(* and never more than the number.                                         *)
LEMMA RemainderValue ==
    ASSUME NEW x \in Nat
    PROVE  /\ x % SIZE_MOD \in 0 .. SIZE_MOD - 1
           /\ x % SIZE_MOD <= x
           /\ x < SIZE_MOD => x % SIZE_MOD = x
<1> DEFINE q == x \div SIZE_MOD
           r == x % SIZE_MOD
<1>1. SIZE_MOD \in Nat \ {0}
  BY SizeAssumption
<1>2. q \in Int /\ r \in 0 .. SIZE_MOD - 1 /\ x = SIZE_MOD * q + r
  BY <1>1
<1> HIDE DEF q, r
<1>3. q >= 0
  <2>1. CASE q <= -1
    <3>1. SIZE_MOD * q <= -SIZE_MOD
      BY <1>1, <1>2, <2>1
    <3> QED
      BY <1>1, <1>2, <3>1
  <2> QED
    BY <1>2, <2>1
<1>4. SIZE_MOD * q >= 0
  BY <1>1, <1>2, <1>3
<1>5. x < SIZE_MOD => r = x
  <2>1. CASE q >= 1
    <3>1. SIZE_MOD * q >= SIZE_MOD
      BY <1>1, <1>2, <2>1
    <3> QED
      BY <1>1, <1>2, <3>1
  <2>2. CASE q = 0
    BY <1>1, <1>2, <2>2
  <2> QED
    BY <1>2, <1>3, <2>1, <2>2
<1>6. r \in 0 .. SIZE_MOD - 1 /\ r <= x
  BY <1>1, <1>2, <1>4
<1> QED
  BY <1>5, <1>6 DEF r

(* A sum of two size_t values wraps at most once.                          *)
LEMMA SizeSumValue ==
    ASSUME NEW a \in 0 .. CAPACITY, NEW b \in 0 .. SIZE_MOD - 1
    PROVE  /\ SizeSum(a, b) \in Nat
           /\ a + b < SIZE_MOD => SizeSum(a, b) = a + b
           /\ a + b >= SIZE_MOD => SizeSum(a, b) = a + b - SIZE_MOD
<1> DEFINE q == (a + b) \div SIZE_MOD
           r == (a + b) % SIZE_MOD
<1>1. /\ a + b \in Nat /\ SIZE_MOD \in Nat \ {0}
      /\ a + b < 2 * SIZE_MOD
  BY SizeAssumption
<1>2. q \in Int /\ r \in 0 .. SIZE_MOD - 1 /\ a + b = SIZE_MOD * q + r
  BY <1>1
<1> HIDE DEF q, r
<1>3. q \in {0, 1}
  <2>1. CASE q <= -1
    <3>1. SIZE_MOD * q <= -SIZE_MOD
      BY <1>1, <1>2, <2>1
    <3> QED
      BY <1>1, <1>2, <3>1
  <2>2. CASE q >= 2
    <3>1. SIZE_MOD * q >= 2 * SIZE_MOD
      BY <1>1, <1>2, <2>2
    <3> QED
      BY <1>1, <1>2, <3>1
  <2> QED
    BY <1>2, <2>1, <2>2
<1>4. SIZE_MOD * q \in {0, SIZE_MOD}
  BY <1>1, <1>3
<1>5. /\ r \in Nat
      /\ a + b < SIZE_MOD => r = a + b
      /\ a + b >= SIZE_MOD => r = a + b - SIZE_MOD
  BY <1>1, <1>2, <1>4
<1> QED
  BY <1>5 DEF SizeSum, r

(* Wrapped or not, a sum above the capacity is a request above it.         *)
LEMMA SumTooLarge ==
    ASSUME NEW a \in 0 .. CAPACITY, NEW b \in 0 .. SIZE_MOD - 1,
           SizeSum(a, b) > CAPACITY
    PROVE  a + b > CAPACITY
  BY SizeSumValue, SizeAssumption

(* The body handed to the callback lies within the bytes received.         *)
LEMMA LesserBound ==
    ASSUME NEW received \in 0 .. CAPACITY, NEW offset \in 0 .. CAPACITY,
           NEW announced \in Nat, offset <= received
    PROVE  /\ Lesser(announced, received - offset) \in 0 .. CAPACITY
           /\ offset + Lesser(announced, received - offset) <= received
           /\ received >= offset + announced => Lesser(announced, received - offset) = announced
  BY SizeAssumption DEF Lesser

LEMMA NotArrived ==
    ASSUME NEW received \in 0 .. CAPACITY, NEW offset \in 0 .. CAPACITY,
           NEW announced \in Nat, ~(received >= offset + announced)
    PROVE  received < offset + announced
  BY SizeAssumption

-----------------------------------------------------------------------------
(* What the connection's state says of the request that is being read.     *)
HeadersKnown ==
    IF HeadersComplete
    THEN /\ HeaderLength = stream.head
         /\ Plain => ExpectedBodyLength = Parsed
         /\ HeaderLength <= RequestLength
    ELSE HeaderLength = 0 /\ ExpectedBodyLength = 0 /\ RequestLength < stream.head

(* The loops go on only while the request fits and is not there yet.       *)
StillReading ==
    outcome = "reading" /\ HeadersComplete =>
        IF loop = "RP2040"
        THEN /\ SizeSum(HeaderLength, ExpectedBodyLength) <= CAPACITY
             /\ RequestLength < SizeSum(HeaderLength, ExpectedBodyLength)
        ELSE /\ ExpectedBodyLength <= CAPACITY - HeaderLength
             /\ RequestLength < HeaderLength + ExpectedBodyLength

(* The peer sends all the POSIX loop waits for.                            *)
Awaited == stream.total >= stream.head + Parsed

WhenDispatched ==
    outcome = "dispatch" =>
        /\ HeadersComplete
        /\ bodyLength = Lesser(ExpectedBodyLength, RequestLength - HeaderLength)
        /\ loop = "RP2040" =>
            /\ SizeSum(HeaderLength, ExpectedBodyLength) <= CAPACITY
            /\ RequestLength >= SizeSum(HeaderLength, ExpectedBodyLength)
        /\ loop = "POSIX" =>
            /\ ExpectedBodyLength <= CAPACITY - HeaderLength
            /\ Plain /\ Awaited => RequestLength >= HeaderLength + ExpectedBodyLength

WhenTooLarge ==
    outcome = "tooLarge" =>
        /\ loop = "RP2040" /\ Plain => ~Fits
        /\ loop = "POSIX" /\ Plain /\ ~recvFailed /\ Awaited => ~Fits

(* The inductive invariant: the loops never hold more than the peer sent,  *)
(* and each verdict was reached on the lengths of the request itself.      *)
IInv == TypeOK /\ RequestLength <= stream.total /\ HeadersKnown
        /\ StillReading /\ WhenDispatched /\ WhenTooLarge

LEMMA InitIInv == Init => IInv
<1> SUFFICES ASSUME Init PROVE IInv
  OBVIOUS
<1>1. stream.head \in Nat \ {0} /\ stream.total \in Nat
  BY StreamAssumption DEF Init
<1>2. TypeOK
  <2>1. 0 \in 0 .. CAPACITY /\ 0 \in 0 .. SIZE_MOD - 1
    BY SizeAssumption
  <2> QED
    BY <2>1 DEF Init, TypeOK, Outcomes
<1> QED
  BY <1>1, <1>2 DEF Init, IInv, HeadersKnown, StillReading, WhenDispatched, WhenTooLarge

(* The body length a request announces, and what is read of it.            *)
LEMMA AnnouncedType ==
    ASSUME stream \in Streams
    PROVE  /\ Announced \in Nat
           /\ Parsed \in 0 .. SIZE_MOD - 1 /\ Parsed \in Nat
           /\ Parsed <= Announced
           /\ Announced < SIZE_MOD => Parsed = Announced
           /\ stream.head \in Nat \ {0} /\ stream.total \in Nat
<1>1. stream.announced \in Nat /\ stream.head \in Nat \ {0} /\ stream.total \in Nat
  BY StreamAssumption
<1>2. Announced \in Nat
  BY <1>1 DEF Announced
<1>3. /\ Parsed \in 0 .. SIZE_MOD - 1
      /\ Parsed <= Announced
      /\ Announced < SIZE_MOD => Parsed = Announced
  BY <1>2, RemainderValue DEF Parsed
<1> QED
  BY <1>1, <1>2, <1>3, SizeAssumption

LEMMA AnnouncedIsRead ==
    ASSUME stream \in Streams, NEW n \in Nat, stream.head <= n, n <= stream.total
    PROVE  /\ ContentLengthOf(n) \in 0 .. SIZE_MOD - 1
           /\ Plain => ContentLengthOf(n) = Parsed
<1>1. /\ stream.announced \in Nat
      /\ stream.head \in Nat /\ stream.line \in Nat /\ stream.total \in Nat
  BY StreamAssumption
<1>2. /\ stream.announced % SIZE_MOD \in 0 .. SIZE_MOD - 1
      /\ 0 \in 0 .. SIZE_MOD - 1 /\ 0 % SIZE_MOD = 0
  BY <1>1, RemainderValue, SizeAssumption
<1>3. ContentLengthOf(n) \in 0 .. SIZE_MOD - 1
  BY <1>2 DEF ContentLengthOf
<1>4. stream.line <= stream.head => stream.line <= n
  BY <1>1
<1>5. stream.line > stream.total => ~(stream.line <= n) /\ ~(stream.line <= stream.head)
  BY <1>1
<1> QED
  BY <1>2, <1>3, <1>4, <1>5 DEF ContentLengthOf, Announced, Parsed, Plain

(* What recv adds keeps the buffer within its bounds and the headers known.*)
LEMMA ReceivedFacts ==
    ASSUME IInv, NEW n \in Pieces, Received(n), UNCHANGED stream
    PROVE  /\ RequestLength' \in 0 .. CAPACITY
           /\ RequestLength' > RequestLength
           /\ RequestLength' <= stream.total
           /\ HeadersKnown'
           /\ HeadersComplete' \in BOOLEAN
           /\ HeadersComplete' => stream.head <= CAPACITY
           /\ HeaderLength' \in 0 .. CAPACITY
           /\ ExpectedBodyLength' \in 0 .. SIZE_MOD - 1
<1>1. /\ stream.head \in Nat \ {0} /\ stream.total \in Nat
  BY StreamAssumption DEF IInv, TypeOK
<1>2. RequestLength \in Nat /\ RequestLength <= CAPACITY
  BY SizeAssumption DEF IInv, TypeOK
<1>3. /\ n \in Nat /\ n >= 1
      /\ RequestLength + n <= CAPACITY /\ RequestLength + n <= stream.total
  BY <1>1, <1>2, SizeAssumption DEF Pieces, Lesser
<1>4. RequestLength' = RequestLength + n
  BY DEF Received
<1>5. HeadersComplete' = (stream.head <= RequestLength + n)
  BY <1>4 DEF Received
<1>6. /\ HeaderLength' = (IF HeadersComplete' THEN stream.head ELSE 0)
      /\ ExpectedBodyLength' = IF HeadersComplete \/ ~HeadersComplete'
                               THEN ExpectedBodyLength
                               ELSE ContentLengthOf(RequestLength')
  BY DEF Received
<1>7. stream' = stream /\ stream \in Streams
  BY DEF IInv, TypeOK
<1>a. Plain' = Plain /\ Parsed' = Parsed
  BY <1>7 DEF Plain, Parsed, Announced
<1>b. ExpectedBodyLength \in 0 .. SIZE_MOD - 1 /\ HeadersKnown
  BY DEF IInv, TypeOK
<1>8. 0 \in 0 .. SIZE_MOD - 1 /\ 0 \in 0 .. CAPACITY
  BY SizeAssumption
<1>9. CASE stream.head <= RequestLength + n
  <2>0. HeadersComplete' = TRUE /\ HeaderLength' = stream.head
    BY <1>5, <1>6, <1>9
  <2>1. /\ ExpectedBodyLength' \in 0 .. SIZE_MOD - 1
        /\ Plain => ExpectedBodyLength' = Parsed
    <3>1. CASE HeadersComplete
      BY <2>0, <1>6, <1>b, <3>1 DEF HeadersKnown
    <3>2. CASE ~HeadersComplete
      <4>1. ExpectedBodyLength' = ContentLengthOf(RequestLength + n)
        BY <2>0, <1>4, <1>6, <3>2
      <4>2. RequestLength + n \in Nat
        BY <1>2, <1>3
      <4> QED
        BY <4>1, <4>2, <1>3, <1>7, <1>9, AnnouncedIsRead
    <3> QED
      BY <3>1, <3>2
  <2>2. stream.head <= CAPACITY /\ stream.head \in 0 .. CAPACITY
    BY <1>1, <1>2, <1>3, <1>9, SizeAssumption
  <2>3. HeadersKnown'
    BY <2>0, <2>1, <1>4, <1>7, <1>9, <1>a DEF HeadersKnown
  <2>4. RequestLength' \in 0 .. CAPACITY /\ RequestLength' > RequestLength
    BY <1>2, <1>3, <1>4, SizeAssumption
  <2> QED
    BY <2>0, <2>1, <2>2, <2>3, <2>4, <1>1, <1>3, <1>4
<1>10. CASE ~(stream.head <= RequestLength + n)
  <2>0. ~HeadersComplete' /\ HeadersComplete' \in BOOLEAN
    <3> DEFINE reached == stream.head <= RequestLength + n
    <3>1. HeadersComplete' = reached /\ ~reached /\ reached \in BOOLEAN
      BY <1>5, <1>10
    <3> HIDE DEF reached
    <3> QED
      BY <3>1, Zenon
  <2>a. ~HeadersComplete
    BY <1>1, <1>2, <1>3, <1>10, <1>b DEF HeadersKnown
  <2>1. HeaderLength' = 0 /\ ExpectedBodyLength' = 0
    BY <1>6, <1>b, <2>0, <2>a DEF HeadersKnown
  <2>2. RequestLength' < stream'.head
    BY <1>1, <1>2, <1>3, <1>4, <1>7, <1>10
  <2>3. HeadersKnown'
    BY <2>0, <2>1, <2>2 DEF HeadersKnown
  <2>4. RequestLength' \in 0 .. CAPACITY /\ RequestLength' > RequestLength
    BY <1>2, <1>3, <1>4, SizeAssumption
  <2> QED
    BY <2>0, <2>1, <2>3, <2>4, <1>3, <1>4, <1>8
<1> QED
  BY <1>9, <1>10

(* The two steps that receive bytes preserve the invariant.                *)
LEMMA LwipReceiveStep == IInv /\ LwipReceive => IInv'
<1> SUFFICES ASSUME IInv, LwipReceive PROVE IInv'
  OBVIOUS
<1>1. /\ loop = "RP2040" /\ loop' = loop /\ outcome = "reading"
      /\ stream' = stream /\ recvFailed' = recvFailed
      /\ \E n \in Pieces : Received(n)
  BY DEF LwipReceive
<1>2. /\ RequestLength' \in 0 .. CAPACITY
      /\ RequestLength' <= stream'.total
      /\ HeadersKnown'
      /\ HeadersComplete' \in BOOLEAN
      /\ HeadersComplete' => stream.head <= CAPACITY
      /\ HeaderLength' \in 0 .. CAPACITY
      /\ ExpectedBodyLength' \in 0 .. SIZE_MOD - 1
  BY <1>1, ReceivedFacts
<1>n. /\ RequestLength' \in 0 .. CAPACITY /\ HeaderLength' \in 0 .. CAPACITY
      /\ ExpectedBodyLength' \in Nat
  BY <1>2, SizeAssumption
<1> DEFINE needed == SizeSum(HeaderLength', ExpectedBodyLength')
<1>3. /\ needed \in Nat
      /\ HeaderLength' + ExpectedBodyLength' < SIZE_MOD =>
            needed = HeaderLength' + ExpectedBodyLength'
      /\ HeaderLength' + ExpectedBodyLength' >= SIZE_MOD =>
            needed = HeaderLength' + ExpectedBodyLength' - SIZE_MOD
  BY <1>2, SizeSumValue
<1>4. /\ loop \in Loops /\ stream \in Streams /\ recvFailed \in BOOLEAN
      /\ bodyLength \in 0 .. CAPACITY
  BY DEF IInv, TypeOK
<1>p. Announced' \in Nat /\ Parsed' <= Announced' /\ Parsed' \in Nat
  <2>1. Announced' = Announced /\ Parsed' = Parsed
    BY <1>1 DEF Announced, Parsed
  <2> QED
    BY <2>1, <1>4, AnnouncedType
<1>5. CASE ~HeadersComplete' /\ Decide("reading")
  <2>1. outcome' = "reading" /\ bodyLength' = bodyLength
    BY <1>5 DEF Decide
  <2> QED
    BY <1>1, <1>2, <1>4, <1>5, <2>1
       DEF IInv, TypeOK, StillReading, WhenDispatched, WhenTooLarge, Outcomes
<1>6. CASE HeadersComplete' /\ needed > CAPACITY /\ Decide("tooLarge")
  <2>1. outcome' = "tooLarge" /\ bodyLength' = bodyLength
    BY <1>6 DEF Decide
  <2>2. HeaderLength' = stream'.head /\ (Plain' => ExpectedBodyLength' = Parsed')
    BY <1>2, <1>6 DEF HeadersKnown
  <2>3. HeaderLength' + ExpectedBodyLength' > CAPACITY
    BY <1>2, <1>n, <1>6, SumTooLarge
  <2>4. Plain' => ~Fits'
    BY <2>3, <2>2, <1>n, <1>p, SizeAssumption DEF Fits, Needed
  <2> QED
    BY <1>1, <1>2, <1>4, <1>6, <2>1, <2>4
       DEF IInv, TypeOK, StillReading, WhenDispatched, WhenTooLarge, Outcomes
<1>7. CASE /\ HeadersComplete' /\ needed <= CAPACITY /\ RequestLength' < needed
           /\ Decide("reading")
  <2>1. outcome' = "reading" /\ bodyLength' = bodyLength
    BY <1>7 DEF Decide
  <2> QED
    BY <1>1, <1>2, <1>4, <1>7, <2>1
       DEF IInv, TypeOK, StillReading, WhenDispatched, WhenTooLarge, Outcomes
<1>8. CASE /\ HeadersComplete' /\ needed <= CAPACITY /\ RequestLength' >= needed
           /\ Dispatch
  <2>1. /\ outcome' = "dispatch"
        /\ bodyLength' = Lesser(ExpectedBodyLength', RequestLength' - HeaderLength')
    BY <1>8 DEF Dispatch
  <2>2. HeaderLength' <= RequestLength'
    BY <1>2, <1>8 DEF HeadersKnown
  <2>3. bodyLength' \in 0 .. CAPACITY
    BY <1>n, <2>1, <2>2, LesserBound
  <2> QED
    BY <1>1, <1>2, <1>4, <1>8, <2>1, <2>3
       DEF IInv, TypeOK, StillReading, WhenDispatched, WhenTooLarge, Outcomes
<1> QED
  BY <1>5, <1>6, <1>7, <1>8 DEF LwipReceive

LEMMA PosixReceiveStep == IInv /\ PosixReceive => IInv'
<1> SUFFICES ASSUME IInv, PosixReceive PROVE IInv'
  OBVIOUS
<1>1. /\ loop = "POSIX" /\ loop' = loop /\ outcome = "reading"
      /\ stream' = stream /\ recvFailed' = recvFailed
      /\ \E n \in Pieces : Received(n)
  BY DEF PosixReceive
<1>2. /\ RequestLength' \in 0 .. CAPACITY
      /\ RequestLength' <= stream'.total
      /\ HeadersKnown'
      /\ HeadersComplete' \in BOOLEAN
      /\ HeadersComplete' => stream.head <= CAPACITY
      /\ HeaderLength' \in 0 .. CAPACITY
      /\ ExpectedBodyLength' \in 0 .. SIZE_MOD - 1
  BY <1>1, ReceivedFacts
<1>n. /\ RequestLength' \in 0 .. CAPACITY /\ HeaderLength' \in 0 .. CAPACITY
      /\ ExpectedBodyLength' \in Nat
  BY <1>2, SizeAssumption
<1>3. /\ loop \in Loops /\ stream \in Streams /\ recvFailed \in BOOLEAN
      /\ bodyLength \in 0 .. CAPACITY
  BY DEF IInv, TypeOK
<1>4. /\ stream'.head \in Nat \ {0} /\ stream'.total \in Nat
      /\ Announced' \in Nat /\ Parsed' \in Nat /\ Parsed' <= Announced'
  <2>1. Announced' = Announced /\ Parsed' = Parsed
    BY <1>1 DEF Announced, Parsed
  <2> QED
    BY <2>1, <1>1, <1>3, AnnouncedType
<1> DEFINE announcedFits == ExpectedBodyLength' <= CAPACITY - HeaderLength'
           arrived == RequestLength' >= HeaderLength' + ExpectedBodyLength'
<1>5. CASE ~HeadersComplete' /\ RequestLength' < CAPACITY /\ Decide("reading")
  <2>1. outcome' = "reading" /\ bodyLength' = bodyLength
    BY <1>5 DEF Decide
  <2> QED
    BY <1>1, <1>2, <1>3, <1>5, <2>1
       DEF IInv, TypeOK, StillReading, WhenDispatched, WhenTooLarge, Outcomes
<1>6. CASE ~HeadersComplete' /\ RequestLength' = CAPACITY /\ Decide("tooLarge")
  <2>1. outcome' = "tooLarge" /\ bodyLength' = bodyLength
    BY <1>6 DEF Decide
  <2>2. stream'.head > CAPACITY
    BY <1>2, <1>6, <1>4, SizeAssumption DEF HeadersKnown
  <2>3. ~Fits'
    BY <2>2, <1>4, SizeAssumption DEF Fits, Needed
  <2> QED
    BY <1>1, <1>2, <1>3, <1>6, <2>1, <2>3
       DEF IInv, TypeOK, StillReading, WhenDispatched, WhenTooLarge, Outcomes
<1>7. CASE HeadersComplete' /\ ~announcedFits /\ Decide("tooLarge")
  <2>1. outcome' = "tooLarge" /\ bodyLength' = bodyLength
    BY <1>7 DEF Decide
  <2>2. HeaderLength' = stream'.head /\ (Plain' => ExpectedBodyLength' = Parsed')
    BY <1>2, <1>7 DEF HeadersKnown
  <2>3. Plain' => ~Fits'
    BY <1>n, <1>4, <1>7, <2>2, SizeAssumption DEF Fits, Needed
  <2> QED
    BY <1>1, <1>2, <1>3, <1>7, <2>1, <2>3
       DEF IInv, TypeOK, StillReading, WhenDispatched, WhenTooLarge, Outcomes
<1>8. CASE HeadersComplete' /\ announcedFits /\ ~arrived /\ Decide("reading")
  <2>1. outcome' = "reading" /\ bodyLength' = bodyLength
    BY <1>8 DEF Decide
  <2>2. RequestLength' < HeaderLength' + ExpectedBodyLength'
    BY <1>n, <1>8, NotArrived
  <2> QED
    BY <1>1, <1>2, <1>3, <1>8, <2>1, <2>2
       DEF IInv, TypeOK, StillReading, WhenDispatched, WhenTooLarge, Outcomes
<1>9. CASE HeadersComplete' /\ announcedFits /\ arrived /\ Dispatch
  <2>1. /\ outcome' = "dispatch"
        /\ bodyLength' = Lesser(ExpectedBodyLength', RequestLength' - HeaderLength')
    BY <1>9 DEF Dispatch
  <2>2. HeaderLength' <= RequestLength'
    BY <1>2, <1>9 DEF HeadersKnown
  <2>3. bodyLength' \in 0 .. CAPACITY
    BY <1>n, <2>1, <2>2, LesserBound
  <2> QED
    BY <1>1, <1>2, <1>3, <1>9, <2>1, <2>3
       DEF IInv, TypeOK, StillReading, WhenDispatched, WhenTooLarge, Outcomes
<1> QED
  BY <1>5, <1>6, <1>7, <1>8, <1>9 DEF PosixReceive

-----------------------------------------------------------------------------
(* The steps that end the loops add nothing to the buffer.                 *)
LEMMA EndingSteps ==
    IInv /\ (LwipBufferFull \/ LwipRecvEnds \/ PosixEndOfStream \/ PosixRecvFails) => IInv'
<1> SUFFICES ASSUME IInv,
                    LwipBufferFull \/ LwipRecvEnds \/ PosixEndOfStream \/ PosixRecvFails
             PROVE  IInv'
  OBVIOUS
<1>1. /\ outcome = "reading" /\ UNCHANGED <<loop, stream, RequestLength, HeadersComplete,
                                           HeaderLength, ExpectedBodyLength>>
      /\ recvFailed' \in BOOLEAN
  BY DEF LwipBufferFull, LwipRecvEnds, PosixEndOfStream, PosixRecvFails, IInv, TypeOK
<1>2. /\ TypeOK /\ RequestLength <= stream.total /\ HeadersKnown /\ StillReading
      /\ (RequestLength <= stream.total)' /\ HeadersKnown'
  BY <1>1 DEF IInv, HeadersKnown, Plain, Parsed, Announced
<1>3. /\ stream.head \in Nat \ {0} /\ stream.total \in Nat
      /\ Announced \in Nat /\ Parsed \in Nat
  BY <1>2, AnnouncedType DEF TypeOK
<1>a. Plain' = Plain /\ Announced' = Announced /\ Parsed' = Parsed
  BY <1>1 DEF Plain, Announced, Parsed
<1>4. /\ RequestLength \in 0 .. CAPACITY /\ HeaderLength \in 0 .. CAPACITY
      /\ ExpectedBodyLength \in 0 .. SIZE_MOD - 1 /\ ExpectedBodyLength \in Nat
  BY <1>2, SizeAssumption DEF TypeOK
<1>5. CASE LwipBufferFull
  <2>1. /\ loop = "RP2040" /\ RequestLength >= CAPACITY /\ outcome' = "tooLarge"
        /\ bodyLength' = bodyLength
    BY <1>5 DEF LwipBufferFull, Decide
  <2>2. ~HeadersComplete
    <3> SUFFICES ASSUME HeadersComplete PROVE FALSE
      OBVIOUS
    <3>1. SizeSum(HeaderLength, ExpectedBodyLength) \in Nat
      BY <1>4, SizeSumValue
    <3> QED
      BY <3>1, <2>1, <1>1, <1>2, <1>4, SizeAssumption DEF StillReading
  <2>3. stream.head > CAPACITY
    BY <2>1, <2>2, <1>2, <1>3, <1>4, SizeAssumption DEF HeadersKnown
  <2>4. ~Fits
    BY <2>3, <1>3, SizeAssumption DEF Fits, Needed
  <2>5. ~Fits'
    BY <2>4, <1>1, <1>a DEF Fits, Needed
  <2> QED
    BY <1>1, <1>2, <2>1, <2>5
       DEF IInv, TypeOK, StillReading, WhenDispatched, WhenTooLarge, Outcomes
<1>6. CASE LwipRecvEnds
  <2>1. outcome' = "closed" /\ bodyLength' = bodyLength
    BY <1>6 DEF LwipRecvEnds, Decide
  <2> QED
    BY <1>1, <1>2, <2>1
       DEF IInv, TypeOK, StillReading, WhenDispatched, WhenTooLarge, Outcomes
<1>7. CASE PosixEndOfStream /\ HeadersComplete
  <2>1. /\ loop = "POSIX" /\ RequestLength = stream.total /\ outcome' = "dispatch"
        /\ bodyLength' = Lesser(ExpectedBodyLength, RequestLength - HeaderLength)
    BY <1>1, <1>7 DEF PosixEndOfStream, Dispatch
  <2>2. /\ HeaderLength = stream.head /\ (Plain => ExpectedBodyLength = Parsed)
        /\ HeaderLength <= RequestLength
        /\ ExpectedBodyLength <= CAPACITY - HeaderLength
        /\ RequestLength < HeaderLength + ExpectedBodyLength
    BY <1>1, <1>2, <1>7, <2>1 DEF HeadersKnown, StillReading
  <2>3. Plain => ~Awaited
    BY <2>1, <2>2, <1>3, <1>4 DEF Awaited
  <2>4. Plain' => ~Awaited'
    BY <2>3, <1>1, <1>a DEF Awaited
  <2>5. bodyLength' \in 0 .. CAPACITY
    BY <2>1, <2>2, <1>4, LesserBound
  <2> QED
    BY <1>1, <1>2, <1>7, <2>1, <2>2, <2>4, <2>5
       DEF IInv, TypeOK, StillReading, WhenDispatched, WhenTooLarge, Outcomes
<1>8. CASE PosixEndOfStream /\ ~HeadersComplete
  <2>1. /\ loop = "POSIX" /\ RequestLength = stream.total /\ outcome' = "tooLarge"
        /\ bodyLength' = bodyLength
    BY <1>8 DEF PosixEndOfStream, Decide
  <2>2. RequestLength < stream.head
    BY <1>2, <1>8 DEF HeadersKnown
  <2>3. ~Awaited
    BY <2>1, <2>2, <1>3, <1>4 DEF Awaited
  <2>4. ~Awaited'
    BY <2>3, <1>1, <1>a DEF Awaited
  <2> QED
    BY <1>1, <1>2, <1>8, <2>1, <2>4
       DEF IInv, TypeOK, StillReading, WhenDispatched, WhenTooLarge, Outcomes
<1>9. CASE PosixRecvFails
  <2>1. /\ loop = "POSIX" /\ recvFailed' = TRUE /\ outcome' = "tooLarge"
        /\ bodyLength' = bodyLength
    BY <1>9 DEF PosixRecvFails, Decide
  <2> QED
    BY <1>1, <1>2, <2>1
       DEF IInv, TypeOK, StillReading, WhenDispatched, WhenTooLarge, Outcomes
<1> QED
  BY <1>5, <1>6, <1>7, <1>8, <1>9

(* The inductive invariant holds of every reachable state.                 *)
THEOREM Inductive == Spec => []IInv
<1>1. IInv /\ UNCHANGED vars => IInv'
  BY DEF vars, IInv, TypeOK, HeadersKnown, StillReading, WhenDispatched, WhenTooLarge,
         Fits, Awaited, Needed, Plain, Parsed, Announced
<1>2. IInv /\ [Next]_vars => IInv'
  BY <1>1, LwipReceiveStep, PosixReceiveStep, EndingSteps DEF Next
<1> QED
  BY InitIInv, <1>2, PTL DEF Spec

(* TypeOK holds of every reachable state: no recv overruns the buffer.     *)
THEOREM TypeCorrect == Spec => []TypeOK
<1>1. IInv => TypeOK
  BY DEF IInv
<1> QED
  BY <1>1, Inductive, PTL

(* TerminatorInBounds holds of every reachable state, wrapped sums         *)
(* included: the body length is clamped to what was received.              *)
THEOREM TerminatorStaysInBounds == Spec => []TerminatorInBounds
<1>1. IInv => TerminatorInBounds
  <2> SUFFICES ASSUME IInv, outcome = "dispatch"
               PROVE  /\ HeaderLength + bodyLength <= RequestLength
                      /\ HeaderLength + bodyLength <= CAPACITY
    BY DEF TerminatorInBounds
  <2>1. /\ HeadersComplete
        /\ bodyLength = Lesser(ExpectedBodyLength, RequestLength - HeaderLength)
    BY DEF IInv, WhenDispatched
  <2>2. /\ RequestLength \in 0 .. CAPACITY /\ HeaderLength \in 0 .. CAPACITY
        /\ ExpectedBodyLength \in Nat /\ bodyLength \in 0 .. CAPACITY
    BY SizeAssumption DEF IInv, TypeOK
  <2>3. HeaderLength <= RequestLength
    BY <2>1 DEF IInv, HeadersKnown
  <2>4. HeaderLength + bodyLength <= RequestLength
    BY <2>1, <2>2, <2>3, LesserBound
  <2> QED
    BY <2>2, <2>4, SizeAssumption
<1> QED
  BY <1>1, Inductive, PTL

(* What a dispatched request's lengths are.                                *)
LEMMA DispatchFacts ==
    ASSUME IInv, outcome = "dispatch"
    PROVE  /\ RequestLength \in 0 .. CAPACITY /\ HeaderLength \in 0 .. CAPACITY
           /\ ExpectedBodyLength \in 0 .. SIZE_MOD - 1 /\ ExpectedBodyLength \in Nat
           /\ stream \in Streams /\ stream.total \in Nat
           /\ RequestLength <= stream.total
           /\ HeaderLength = stream.head
           /\ Plain => ExpectedBodyLength = Parsed
           /\ RequestLength >= HeaderLength + ExpectedBodyLength =>
                  /\ bodyLength = ExpectedBodyLength
                  /\ stream.total >= HeaderLength + ExpectedBodyLength
<1>1. /\ RequestLength \in 0 .. CAPACITY /\ HeaderLength \in 0 .. CAPACITY
      /\ ExpectedBodyLength \in Nat /\ ExpectedBodyLength \in 0 .. SIZE_MOD - 1
      /\ stream \in Streams /\ stream.total \in Nat
      /\ RequestLength <= stream.total
  BY StreamAssumption, SizeAssumption DEF IInv, TypeOK
<1>2. /\ HeaderLength = stream.head
      /\ Plain => ExpectedBodyLength = Parsed
      /\ HeaderLength <= RequestLength
      /\ bodyLength = Lesser(ExpectedBodyLength, RequestLength - HeaderLength)
  BY DEF IInv, WhenDispatched, HeadersKnown
<1>3. ASSUME RequestLength >= HeaderLength + ExpectedBodyLength
      PROVE  /\ bodyLength = ExpectedBodyLength
             /\ stream.total >= HeaderLength + ExpectedBodyLength
  <2>1. Lesser(ExpectedBodyLength, RequestLength - HeaderLength) = ExpectedBodyLength
    BY <1>1, <1>2, <1>3, LesserBound
  <2>2. stream.total >= HeaderLength + ExpectedBodyLength
    BY <1>1, <1>3, SizeAssumption
  <2> QED
    BY <1>2, <2>1, <2>2
<1> QED
  BY <1>1, <1>2, <1>3

(* LwipVerdict holds of every reachable state: what the RP2040's loop      *)
(* decides depends on the request, not on how recv cut it.                 *)
THEOREM VerdictsAreRight == Spec => []LwipVerdict
<1>1. IInv => LwipVerdict
  <2> SUFFICES ASSUME IInv, loop = "RP2040", Plain, outcome = "dispatch", ~Wraps
               PROVE  Fits /\ Sent /\ bodyLength = Announced
    BY DEF LwipVerdict, IInv, WhenTooLarge
  <2>1. /\ SizeSum(HeaderLength, ExpectedBodyLength) <= CAPACITY
        /\ RequestLength >= SizeSum(HeaderLength, ExpectedBodyLength)
    BY DEF IInv, WhenDispatched
  <2>2. ExpectedBodyLength = Announced /\ HeaderLength + ExpectedBodyLength < SIZE_MOD
    BY DispatchFacts, AnnouncedType, SizeAssumption DEF Wraps, Needed
  <2>3. SizeSum(HeaderLength, ExpectedBodyLength) = HeaderLength + ExpectedBodyLength
    BY <2>2, DispatchFacts, SizeSumValue
  <2> QED
    BY <2>1, <2>2, <2>3, DispatchFacts DEF Fits, Sent, Needed
<1> QED
  BY <1>1, Inductive, PTL

(* PosixVerdict holds of every reachable state: the loop of the two polled *)
(* servers ends where the parsed length says, however recv cuts the        *)
(* stream, and that is the announced length unless it wraps.               *)
THEOREM PosixVerdictsAreRight == Spec => []PosixVerdict
<1>1. IInv => PosixVerdict
  <2> SUFFICES ASSUME IInv, loop = "POSIX", Plain, Awaited, outcome = "dispatch"
               PROVE  /\ bodyLength = Parsed
                      /\ Announced < SIZE_MOD => Fits /\ bodyLength = Announced
    BY DEF PosixVerdict, Awaited, IInv, WhenTooLarge
  <2>1. /\ ExpectedBodyLength <= CAPACITY - HeaderLength
        /\ RequestLength >= HeaderLength + ExpectedBodyLength
    BY DEF IInv, WhenDispatched
  <2>2. bodyLength = Parsed /\ stream.head + Parsed <= CAPACITY
    BY <2>1, DispatchFacts, SizeAssumption
  <2>3. Announced < SIZE_MOD => Parsed = Announced
    BY DispatchFacts, AnnouncedType
  <2> QED
    BY <2>2, <2>3 DEF Fits, Needed
<1> QED
  BY <1>1, Inductive, PTL

=============================================================================
