------------------------- MODULE SyncDownload_proofs -------------------------
(***************************************************************************)
(* Proofs about the downloads of the Simulator and of the ESP32: for every *)
(* response, every size of the buffers and every way recv cuts it.         *)
(***************************************************************************)
EXTENDS SyncDownload, SequenceTheorems, TLAPS

SimulatorPcs == {"connect", "tls", "send", "receive", "cleanup"}
Esp32Pcs == {"open", "init", "perform", "close"}

(* What each place in a call holds: the clients do not mix, the file is    *)
(* open while bytes go to it, and a call that is over holds nothing.       *)
Holding ==
    /\ pc \in SimulatorPcs => client = "Simulator"
    /\ pc \in Esp32Pcs => client = "ESP32"
    /\ pc \in {"idle", "connect", "open", "returned"} => held = {}
    /\ pc = "tls" => held = {"socket"}
    /\ pc \in {"send", "cleanup"} => held \subseteq {"socket", "ssl", "context"}
    /\ pc = "receive" => held \subseteq {"socket", "ssl", "context", "file"}
    /\ pc = "receive" => ("file" \in held <=> headersSkipped)
    /\ pc = "init" => held = {"file"}
    /\ pc \in {"perform", "close"} => held \subseteq {"file", "client"}

(* Before the headers are skipped the target is as it was, and the header  *)
(* buffer holds what it has room for.                                      *)
Untouched ==
    /\ pc \in {"connect", "tls", "send", "open", "init"} =>
            received = 0 /\ headerBufferLen = 0 /\ ~headersSkipped /\ unseen = {}
    /\ pc \in {"connect", "tls", "send", "receive"} /\ ~headersSkipped =>
            /\ headerBufferLen = Lesser(received, HEADER_BUFFER)
            /\ file = OldFile /\ unseen = {}
    /\ pc \in {"connect", "tls", "send", "receive", "open", "init", "perform"} => ~result
    /\ pc = "init" => file = <<>>

(* File f holds what there is of the body behind byte h up to byte n: all  *)
(* of it when nothing is in u, and in order as long as no alien blank line *)
(* was taken for the response's.                                           *)
BodyIn(f, u, h, n) ==
    /\ u = {} => f = Span(h + 1, n)
    /\ "stale" \notin u =>
        /\ h <= n
        /\ \A i \in DOMAIN f : f[i] > h /\ f[i] <= n
        /\ \A i \in 1 .. Len(f) - 1 : f[i] < f[i + 1]

(* Where in the response the ESP32's body begins, or goes on.              *)
From == IF received < response.head THEN response.head ELSE received

Storing ==
    /\ received <= response.total
    /\ pc = "receive" /\ headersSkipped => BodyIn(file, unseen, response.head, received)
    /\ pc = "perform" =>
        BodyIn(file, unseen, response.head, From) /\ unseen \subseteq {"write"}

(* The verdict, once it is reached.                                        *)
Settled ==
    /\ pc \in {"cleanup", "close", "returned"} /\ result =>
        /\ unseen = {} => file = Body
        /\ "stale" \notin unseen => InBodyOrder(file)
        /\ client = "ESP32" => response.found /\ unseen \subseteq {"write"}
    /\ pc \in {"cleanup", "returned"} /\ client = "Simulator" /\ ~result => file = OldFile

(* The inductive invariant.                                                *)
IInv == TypeOK /\ Holding /\ Untouched /\ Storing /\ Settled

-----------------------------------------------------------------------------
(* Spans of a response.                                                    *)

LEMMA SpanProperties ==
    ASSUME NEW a \in Nat, NEW b \in Nat, a <= b + 1
    PROVE  /\ Span(a, b) \in Seq(Nat) /\ Span(a, b) \in Seq(a .. b)
           /\ Len(Span(a, b)) = b - a + 1 /\ b - a + 1 \in Nat
           /\ \A i \in 1 .. b - a + 1 : Span(a, b)[i] = a + i - 1
<1> DEFINE n == b - a + 1
           s == Span(a, b)
<1>1. n \in Nat
  OBVIOUS
<1>2. s = [i \in 1 .. n |-> a + i - 1]
  BY DEF Span
<1>3. \A i \in 1 .. n : a + i - 1 \in a .. b /\ a + i - 1 \in Nat
  <2> SUFFICES ASSUME NEW i \in 1 .. n PROVE a + i - 1 \in a .. b /\ a + i - 1 \in Nat
    OBVIOUS
  <2> QED
    BY <1>1
<1> HIDE DEF n, s
<1>4. s \in [1 .. n -> Nat] /\ s \in [1 .. n -> a .. b]
  BY <1>2, <1>3
<1>5. s \in Seq(Nat) /\ s \in Seq(a .. b) /\ Len(s) = n
  BY <1>1, <1>4
<1>6. \A i \in 1 .. n : s[i] = a + i - 1
  BY <1>2
<1> QED
  BY <1>1, <1>5, <1>6 DEF n, s

(* What recv brings, counted from the last byte before it.                 *)
LEMMA NextSpan ==
    ASSUME NEW m \in Nat, NEW c \in Nat, m <= c
    PROVE  /\ Span(m + 1, c) \in Seq(Nat) /\ Len(Span(m + 1, c)) = c - m
           /\ \A i \in 1 .. c - m : Span(m + 1, c)[i] = m + i
<1> DEFINE a == m + 1
<1>1. a \in Nat /\ a <= c + 1 /\ c - a + 1 = c - m
  OBVIOUS
<1>2. \A i \in 1 .. c - m : a + i - 1 = m + i
  OBVIOUS
<1> HIDE DEF a
<1>3. /\ Span(a, c) \in Seq(Nat) /\ Len(Span(a, c)) = c - a + 1
      /\ \A i \in 1 .. c - a + 1 : Span(a, c)[i] = a + i - 1
  BY <1>1, SpanProperties
<1>4. \A i \in 1 .. c - m : Span(a, c)[i] = m + i
  BY <1>1, <1>2, <1>3
<1> QED
  BY <1>1, <1>3, <1>4 DEF a

(* It continues what is there.                                             *)
LEMMA SpanConcat ==
    ASSUME NEW a \in Nat, NEW b \in Nat, NEW c \in Nat, a <= b + 1, b <= c
    PROVE  Span(a, b) \o Span(b + 1, c) = Span(a, c)
<1> DEFINE s == Span(a, b)
           t == Span(b + 1, c)
           u == Span(a, c)
<1>1. /\ s \in Seq(Nat) /\ Len(s) = b - a + 1
      /\ \A i \in 1 .. b - a + 1 : s[i] = a + i - 1
  BY SpanProperties
<1>2. /\ t \in Seq(Nat) /\ Len(t) = c - b
      /\ \A i \in 1 .. c - b : t[i] = b + i
  BY NextSpan
<1>3. /\ u \in Seq(Nat) /\ Len(u) = c - a + 1
      /\ \A i \in 1 .. c - a + 1 : u[i] = a + i - 1
  <2>1. a <= c + 1
    OBVIOUS
  <2> HIDE DEF s, t
  <2> QED
    BY <2>1, SpanProperties
<1> HIDE DEF s, t, u
<1>4. /\ s \o t \in Seq(Nat) /\ Len(s \o t) = Len(s) + Len(t)
      /\ \A i \in 1 .. Len(s) + Len(t) :
            (s \o t)[i] = IF i <= Len(s) THEN s[i] ELSE t[i - Len(s)]
  BY <1>1, <1>2, ConcatProperties
<1>5. Len(s \o t) = Len(u) /\ Len(u) = c - a + 1 /\ Len(s) + Len(t) = c - a + 1
  BY <1>1, <1>2, <1>3, <1>4
<1>6. \A i \in 1 .. Len(u) : (s \o t)[i] = u[i]
  <2> SUFFICES ASSUME NEW i \in 1 .. c - a + 1 PROVE (s \o t)[i] = u[i]
    BY <1>5
  <2>1. CASE i <= Len(s)
    <3>1. i \in 1 .. b - a + 1
      BY <1>1, <2>1
    <3> QED
      BY <1>1, <1>3, <1>4, <1>5, <2>1, <3>1
  <2>2. CASE ~(i <= Len(s))
    <3>1. i - Len(s) \in 1 .. c - b /\ b + (i - Len(s)) = a + i - 1
      BY <1>1, <2>2
    <3>2. (s \o t)[i] = t[i - Len(s)]
      BY <1>4, <1>5, <2>2
    <3>3. t[i - Len(s)] = b + (i - Len(s))
      BY <1>2, <3>1
    <3>4. u[i] = a + i - 1
      BY <1>3
    <3> QED
      BY <3>1, <3>2, <3>3, <3>4
  <2> QED
    BY <2>1, <2>2
<1>7. s \o t = u
  BY <1>3, <1>4, <1>5, <1>6, SeqEqual
<1> QED
  BY <1>7 DEF s, t, u

(* Bytes behind the last that is stored keep the order of the body.        *)
LEMMA OrderKept ==
    ASSUME NEW h \in Nat, NEW m \in Nat, NEW c \in Nat, h <= m, m <= c,
           NEW s \in Seq(Nat),
           \A i \in DOMAIN s : s[i] > h /\ s[i] <= m,
           \A i \in 1 .. Len(s) - 1 : s[i] < s[i + 1]
    PROVE  LET t == s \o Span(m + 1, c) IN
           /\ \A i \in DOMAIN t : t[i] > h /\ t[i] <= c
           /\ \A i \in 1 .. Len(t) - 1 : t[i] < t[i + 1]
<1> DEFINE p == Span(m + 1, c)
           t == s \o p
           n == Len(s)
<1>1. /\ p \in Seq(Nat) /\ Len(p) = c - m
      /\ \A i \in 1 .. c - m : p[i] = m + i
  BY NextSpan
<1> HIDE DEF p
<1>2. /\ t \in Seq(Nat) /\ Len(t) = n + Len(p)
      /\ \A i \in 1 .. n + Len(p) : t[i] = IF i <= n THEN s[i] ELSE p[i - n]
  BY <1>1, ConcatProperties
<1>3. n \in Nat /\ DOMAIN s = 1 .. n /\ \A i \in 1 .. n : s[i] \in Nat
  BY LenProperties, ElementOfSeq
<1> HIDE DEF t
<1>4. Len(t) = n + (c - m) /\ DOMAIN t = 1 .. Len(t)
  BY <1>1, <1>2, LenProperties
<1>5. \A i \in 1 .. n : s[i] > h /\ s[i] <= m
  BY <1>3
<1> HIDE DEF n
<1>6. \A i \in 1 .. n : t[i] \in Nat /\ t[i] = s[i] /\ t[i] > h /\ t[i] <= m
  <2> SUFFICES ASSUME NEW i \in 1 .. n PROVE t[i] = s[i]
    BY <1>3, <1>5
  <2>1. i <= n /\ i \in 1 .. n + Len(p)
    BY <1>1, <1>3
  <2> QED
    BY <1>2, <2>1
<1>7. \A i \in n + 1 .. Len(t) : t[i] = m + (i - n)
  <2> SUFFICES ASSUME NEW i \in n + 1 .. Len(t) PROVE t[i] = m + (i - n)
    OBVIOUS
  <2>1. i - n \in 1 .. c - m /\ ~(i <= n) /\ i \in 1 .. n + Len(p)
    BY <1>1, <1>3, <1>4
  <2> QED
    BY <1>1, <1>2, <2>1
<1>8. \A i \in 1 .. Len(t) : i \in 1 .. n \/ i \in n + 1 .. Len(t)
  BY <1>3, <1>4
<1>9. \A i \in DOMAIN t : t[i] > h /\ t[i] <= c
  <2> SUFFICES ASSUME NEW i \in 1 .. Len(t) PROVE t[i] > h /\ t[i] <= c
    BY <1>4
  <2>1. CASE i \in 1 .. n
    BY <1>6, <2>1
  <2>2. CASE i \in n + 1 .. Len(t)
    BY <1>3, <1>4, <1>7, <2>2
  <2> QED
    BY <1>8, <2>1, <2>2
<1>10. \A i \in 1 .. Len(t) - 1 : t[i] < t[i + 1]
  <2> SUFFICES ASSUME NEW i \in 1 .. Len(t) - 1 PROVE t[i] < t[i + 1]
    OBVIOUS
  <2>1. CASE i + 1 <= n
    <3>1. i \in 1 .. n - 1 /\ i \in 1 .. n /\ i + 1 \in 1 .. n
      BY <1>3, <2>1
    <3>2. s[i] < s[i + 1]
      BY <3>1 DEF n
    <3> QED
      BY <1>6, <3>1, <3>2
  <2>2. CASE i = n
    <3>1. i \in 1 .. n /\ i + 1 \in n + 1 .. Len(t)
      BY <1>3, <1>4, <2>2
    <3>2. t[i] \in Nat /\ t[i] <= m /\ t[i + 1] = m + ((i + 1) - n)
      BY <1>6, <1>7, <3>1
    <3> QED
      BY <1>3, <2>2, <3>2
  <2>3. CASE i > n
    <3>1. i \in n + 1 .. Len(t) /\ i + 1 \in n + 1 .. Len(t)
      BY <1>3, <1>4, <2>3
    <3>2. t[i] = m + (i - n) /\ t[i + 1] = m + ((i + 1) - n)
      BY <1>7, <3>1
    <3> QED
      BY <1>3, <3>2
  <2> QED
    BY <1>3, <2>1, <2>2, <2>3
<1> QED
  BY <1>9, <1>10 DEF t, p

(* A write adds the bytes, or fails and leaves its mark.                   *)
LEMMA WriteSound ==
    ASSUME NEW h \in Nat, NEW n \in Nat, NEW c \in Nat, n <= c,
           NEW f \in Seq(Nat), NEW u, BodyIn(f, u, h, n)
    PROVE  /\ BodyIn(f \o Span(n + 1, c), u, h, c)
           /\ BodyIn(f, u \cup {"write"}, h, c)
<1>1. u = {} => f \o Span(n + 1, c) = Span(h + 1, c)
  <2> SUFFICES ASSUME u = {} PROVE f \o Span(n + 1, c) = Span(h + 1, c)
    OBVIOUS
  <2> DEFINE a == h + 1
  <2>1. f = Span(a, n) /\ a \in Nat /\ a <= n + 1
    BY DEF BodyIn
  <2> HIDE DEF a
  <2>2. f \o Span(n + 1, c) = Span(a, c)
    BY <2>1, SpanConcat
  <2> QED
    BY <2>2 DEF a
<1>2. "stale" \notin u =>
        LET t == f \o Span(n + 1, c) IN
        /\ h <= c
        /\ \A i \in DOMAIN t : t[i] > h /\ t[i] <= c
        /\ \A i \in 1 .. Len(t) - 1 : t[i] < t[i + 1]
  <2> SUFFICES ASSUME "stale" \notin u
               PROVE  LET t == f \o Span(n + 1, c) IN
                      /\ h <= c
                      /\ \A i \in DOMAIN t : t[i] > h /\ t[i] <= c
                      /\ \A i \in 1 .. Len(t) - 1 : t[i] < t[i + 1]
    OBVIOUS
  <2>1. h <= n /\ h <= c
    BY DEF BodyIn
  <2> QED
    BY <2>1, OrderKept DEF BodyIn
<1>3. "stale" \notin u =>
        /\ h <= c
        /\ \A i \in DOMAIN f : f[i] > h /\ f[i] <= c
        /\ \A i \in 1 .. Len(f) - 1 : f[i] < f[i + 1]
  <2>1. \A i \in DOMAIN f : f[i] \in Nat
    BY LenProperties, ElementOfSeq
  <2> QED
    BY <2>1 DEF BodyIn
<1> QED
  BY <1>1, <1>2, <1>3 DEF BodyIn

(* Behind the blank line an empty file is all there is of the body.        *)
LEMMA NothingStored ==
    ASSUME NEW h \in Nat
    PROVE  BodyIn(<<>>, {}, h, h)
  BY DEF BodyIn, Span

-----------------------------------------------------------------------------
LEMMA ResponseFacts ==
    /\ Positions \subseteq Nat
    /\ response \in Responses =>
        /\ response.head \in Nat \ {0} /\ response.total \in Nat
        /\ response.head <= response.total /\ response.found \in BOOLEAN
        /\ 0 .. response.total \subseteq Positions
<1>1. Positions \subseteq Nat
  BY ResponseAssumption DEF Positions
<1> QED
  BY <1>1, ResponseAssumption DEF Positions

(* Bytes of the response, in a file of bytes of responses.                 *)
LEMMA FileGrows ==
    ASSUME NEW a \in Nat, NEW b \in Nat, a <= b + 1, response \in Responses,
           b <= response.total, NEW f \in Seq(Positions)
    PROVE  /\ f \o Span(a, b) \in Seq(Positions)
           /\ f \in Seq(Nat)
<1>1. Span(a, b) \in Seq(a .. b) /\ a .. b \subseteq Positions
  <2>1. response.total \in Nat /\ 0 .. response.total \subseteq Positions
    BY ResponseFacts
  <2>2. a .. b \subseteq 0 .. response.total
    BY <2>1
  <2> QED
    BY <2>1, <2>2, SpanProperties
<1>2. Span(a, b) \in Seq(Positions) /\ f \in Seq(Nat)
  BY <1>1, SeqMonotonic, ResponseFacts
<1> QED
  BY <1>2, ConcatProperties

LEMMA OldFileType == response \in Responses => OldFile \in Seq(Positions)
<1>1. response \in Responses => 0 \in Positions
  BY ResponseFacts
<1> QED
  BY <1>1 DEF OldFile

-----------------------------------------------------------------------------
LEMMA InitIInv == Init => IInv
<1> SUFFICES ASSUME Init PROVE IInv
  OBVIOUS
<1>1. 0 \in 0 .. HEADER_BUFFER /\ Lesser(0, HEADER_BUFFER) = 0
  BY BufferAssumption DEF Lesser
<1>2. /\ 0 <= response.total /\ 0 \in Positions /\ file \in Seq(Positions)
  BY ResponseFacts, OldFileType DEF Init
<1>3. headersSkipped \in BOOLEAN /\ result \in BOOLEAN
  BY DEF Init
<1>4. TypeOK
  BY <1>1, <1>2, <1>3 DEF Init, TypeOK
<1>5. Holding /\ Untouched /\ Storing /\ Settled
  BY <1>1, <1>2 DEF Init, Holding, Untouched, Storing, Settled, SimulatorPcs, Esp32Pcs
<1> QED
  BY <1>4, <1>5 DEF IInv

LEMMA CallIInv ==
    ASSUME IInv, HttpDownloadFile
    PROVE  IInv'
<1>1. 0 \in 0 .. HEADER_BUFFER /\ Lesser(0, HEADER_BUFFER) = 0
  BY BufferAssumption DEF Lesser
<1>2. \A r \in Responses : r.total \in Nat /\ 0 <= r.total /\ 0 \in Positions
  BY ResponseAssumption DEF Positions
<1>3. /\ client' \in {"Simulator", "ESP32"} /\ client' \in Clients /\ response' \in Responses
      /\ pc' = IF client' = "Simulator" THEN "connect" ELSE "open"
      /\ received' = 0 /\ headerBufferLen' = 0 /\ ~headersSkipped' /\ headersSkipped' \in BOOLEAN
      /\ file' = OldFile /\ unseen' = {} /\ ~result' /\ result' \in BOOLEAN
      /\ held' = held /\ held = {}
  BY ClientAssumption DEF HttpDownloadFile, Goto, IInv, Holding
<1>4. file' \in Seq(Positions)
  BY <1>2, <1>3 DEF OldFile
<1>5. TypeOK'
  BY <1>1, <1>2, <1>3, <1>4 DEF IInv, TypeOK
<1>6. Holding' /\ Untouched' /\ Storing' /\ Settled'
  BY <1>1, <1>2, <1>3 DEF Holding, Untouched, Storing, Settled, SimulatorPcs, Esp32Pcs
<1> QED
  BY <1>5, <1>6 DEF IInv

(* Steps that open or release, and touch neither the file nor the counts.  *)
LEMMA QuietIInv ==
    ASSUME IInv, Return \/ ConnectSocket \/ EstablishTLS \/ SendRequest \/ Cleanup
                 \/ InitClient
    PROVE  IInv'
<1>1. UNCHANGED <<client, response, received, headerBufferLen, headersSkipped, file, unseen, result>>
  BY DEF Return, ConnectSocket, EstablishTLS, SendRequest, Cleanup, InitClient,
     callVars, readVars
<1>2. \/ pc = "returned" /\ pc' = "idle" /\ held' = held
      \/ pc = "connect" /\ pc' \in {"tls", "send"} /\ held' = {"socket"}
      \/ pc = "connect" /\ pc' = "returned" /\ held' = {}
      \/ pc = "tls" /\ pc' = "send" /\ held' = held \cup {"ssl", "context"}
      \/ pc = "tls" /\ pc' = "returned" /\ held' = held \ {"socket"}
      \/ pc = "send" /\ pc' = "receive" /\ held' = held
      \/ pc = "cleanup" /\ pc' = "returned" /\ held' = held \ {"ssl", "context", "socket"}
      \/ pc = "init" /\ pc' = "perform" /\ held' = held \cup {"client"}
      \/ pc = "init" /\ pc' = "returned" /\ held' = held \ {"file"}
  BY DEF Return, ConnectSocket, EstablishTLS, SendRequest, Cleanup, InitClient, Goto
<1>3. TypeOK'
  BY <1>1, <1>2 DEF IInv, TypeOK, Handles
<1>4. Holding'
  BY <1>1, <1>2 DEF IInv, Holding, Untouched, SimulatorPcs, Esp32Pcs
<1>5. Untouched'
  BY <1>1, <1>2 DEF IInv, Untouched
<1>6. Storing'
  <2>1. CASE pc = "init" /\ pc' = "perform"
    <3>1. /\ file = <<>> /\ unseen = {} /\ received = 0 /\ response \in Responses
      BY <2>1 DEF IInv, Untouched, TypeOK
    <3>2. response.head \in Nat /\ From = response.head
      BY <3>1, ResponseFacts DEF From
    <3>3. BodyIn(file, unseen, response.head, From)
      BY <3>1, <3>2, NothingStored
    <3> QED
      BY <1>1, <2>1, <3>1, <3>3 DEF IInv, Storing, From
  <2>2. CASE pc' # "perform"
    BY <1>1, <1>2, <2>2 DEF IInv, Storing, Untouched
  <2> QED
    BY <1>2, <2>1, <2>2
<1>7. Settled'
  <2>1. Body' = Body
    BY <1>1 DEF Body
  <2>2. pc' = "returned" => \/ pc \in {"cleanup", "close"}
                            \/ ~result /\ (client = "Simulator" => file = OldFile)
    BY <1>2 DEF IInv, Untouched, Holding, SimulatorPcs, Esp32Pcs
  <2>3. pc = "close" => client = "ESP32"
    BY DEF IInv, Holding, Esp32Pcs
  <2> QED
    BY <1>1, <1>2, <2>1, <2>2, <2>3 DEF IInv, Settled, InBodyOrder
<1> QED
  BY <1>3, <1>4, <1>5, <1>6, <1>7 DEF IInv

-----------------------------------------------------------------------------
(* A piece stays inside the response.                                      *)
LEMMA PieceFacts ==
    ASSUME TypeOK, NEW from \in Nat, from <= response.total,
           NEW n \in 1 .. Lesser(BUFFER, response.total - from)
    PROVE  /\ n \in Nat /\ n > 0 /\ from + n \in Nat /\ from + n <= response.total
           /\ from + n \in Positions /\ response.total \in Nat /\ response.head \in Nat
<1>1. /\ response.total \in Nat /\ response.head \in Nat
      /\ 0 .. response.total \subseteq Positions
  BY ResponseFacts DEF TypeOK
<1>2. n \in Nat /\ n > 0 /\ n <= response.total - from
  BY <1>1, BufferAssumption DEF Lesser
<1>3. from + n \in Nat /\ from + n <= response.total
  BY <1>1, <1>2
<1>4. from + n \in 0 .. response.total
  BY <1>1, <1>3
<1> QED
  BY <1>1, <1>2, <1>3, <1>4

(* What the header buffer holds is the beginning of the response: all that *)
(* came, unless some of it found no room.                                  *)
LEMMA KeptFacts ==
    ASSUME NEW m \in Nat, NEW n \in Nat, n > 0, headerBufferLen = Lesser(m, HEADER_BUFFER)
    PROVE  /\ Kept(n) = Lesser(m + n, HEADER_BUFFER)
           /\ Kept(n) \in 0 .. HEADER_BUFFER /\ Kept(n) \in Nat /\ Kept(n) <= m + n
           /\ Kept(n) < headerBufferLen + n \/ Kept(n) = m + n
<1>1. HEADER_BUFFER \in Nat
  BY BufferAssumption
<1>2. CASE m < HEADER_BUFFER
  <2>1. headerBufferLen = m
    BY <1>2 DEF Lesser
  <2>2. Kept(n) = IF m + n < HEADER_BUFFER THEN m + n ELSE HEADER_BUFFER
    BY <2>1 DEF Kept, Lesser
  <2> QED
    BY <1>1, <2>1, <2>2 DEF Lesser
<1>3. CASE ~(m < HEADER_BUFFER)
  <2>1. headerBufferLen = HEADER_BUFFER
    BY <1>3 DEF Lesser
  <2>2. Kept(n) = HEADER_BUFFER
    BY <1>1, <2>1 DEF Kept, Lesser
  <2>3. Lesser(m + n, HEADER_BUFFER) = HEADER_BUFFER
    BY <1>1, <1>3 DEF Lesser
  <2>4. HEADER_BUFFER < HEADER_BUFFER + n \/ HEADER_BUFFER = m + n
    BY <1>1, <1>3
  <2> QED
    BY <1>1, <1>3, <2>1, <2>2, <2>3, <2>4
<1> QED
  BY <1>2, <1>3

(* A mark excuses missing bytes, never bytes out of order.                 *)
LEMMA MarkedBody ==
    ASSUME NEW h \in Nat, NEW k \in Nat, NEW n \in Nat, k <= n,
           NEW f \in Seq(Nat), NEW u, NEW v, BodyIn(f, u, h, k),
           "stale" \notin v => "stale" \notin u,
           v # {} \/ (u = {} /\ k = n)
    PROVE  BodyIn(f, v, h, n)
<1>1. v = {} => f = Span(h + 1, n)
  BY DEF BodyIn
<1>2. \A i \in DOMAIN f : f[i] \in Nat
  BY LenProperties, ElementOfSeq
<1>3. "stale" \notin v =>
        /\ h <= n
        /\ \A i \in DOMAIN f : f[i] > h /\ f[i] <= n
        /\ \A i \in 1 .. Len(f) - 1 : f[i] < f[i + 1]
  BY <1>2 DEF BodyIn
<1> QED
  BY <1>1, <1>3 DEF BodyIn

(* The headers skipped at byte c of the response, k of them kept.          *)
LEMMA SkipHeadersSound ==
    ASSUME TypeOK, NEW n \in Nat, NEW c \in Nat, NEW k \in Nat, k <= c, c <= response.total,
           k < headerBufferLen + n \/ k = c,
           SkipHeaders(n, k)
    PROVE  /\ BodyIn(file', unseen', response.head, c)
           /\ file' \in Seq(Positions) /\ unseen' \subseteq Mishaps
<1> DEFINE h == response.head
           seen == IF k < headerBufferLen + n THEN {"overflow"} ELSE {}
<1>1. h \in Nat /\ response \in Responses /\ k <= response.total
  BY ResponseFacts DEF TypeOK
<1>2. <<>> \in Seq(Positions) /\ <<>> \in Seq(Nat)
  OBVIOUS
<1>3. CASE h <= k /\ Write(<<>>, BodyKept(k), seen)
  <2>1. BodyIn(<<>>, {}, h, h)
    BY <1>1, NothingStored
  <2>2. /\ BodyIn(<<>> \o Span(h + 1, k), {}, h, k)
        /\ BodyIn(<<>>, {} \cup {"write"}, h, k)
    BY <1>1, <1>2, <1>3, <2>1, WriteSound
  <2>3. <<>> \o Span(h + 1, k) \in Seq(Positions) /\ <<>> \o Span(h + 1, k) \in Seq(Nat)
    <3>1. h + 1 \in Nat /\ h + 1 <= k + 1
      BY <1>1, <1>3
    <3>2. <<>> \o Span(h + 1, k) \in Seq(Positions)
      BY <1>1, <1>2, <3>1, FileGrows
    <3> QED
      BY <3>2, SeqMonotonic, ResponseFacts
  <2>4. seen # {} \/ k = c
    BY DEF seen
  <2>5. "stale" \notin seen /\ seen \subseteq Mishaps
    BY DEF Mishaps
  <2> HIDE DEF h, seen
  <2>6. CASE file' = <<>> \o Span(h + 1, k) /\ unseen' = seen
    <3>1. BodyIn(<<>> \o Span(h + 1, k), seen, h, c)
      BY <1>1, <2>2, <2>3, <2>4, <2>5, MarkedBody
    <3> QED
      BY <2>3, <2>5, <2>6, <3>1 DEF h
  <2>7. CASE file' = <<>> /\ unseen' = seen \cup {"write"}
    <3>1. seen \cup {"write"} # {} /\ "stale" \notin seen \cup {"write"}
          /\ "stale" \notin {} \cup {"write"}
      BY <2>5
    <3>2. BodyIn(<<>>, seen \cup {"write"}, h, c)
      BY <1>1, <1>2, <2>2, <3>1, MarkedBody
    <3> QED
      BY <1>2, <2>5, <2>7, <3>2 DEF h, Mishaps
  <2> QED
    BY <1>3, <2>6, <2>7 DEF Write, BodyKept, h
<1>4. CASE file' = <<>> /\ unseen' = {"stale"}
  BY <1>2, <1>4 DEF BodyIn, Mishaps
<1> QED
  BY <1>3, <1>4 DEF SkipHeaders

LEMMA ReceiveHeadersIInv ==
    ASSUME IInv, ReceiveHeaders
    PROVE  IInv'
<1>1. PICK n \in Pieces :
        /\ received' = received + n
        /\ headerBufferLen' = Kept(n)
        /\ \/ HeadersIncomplete(Kept(n))
           \/ /\ headersSkipped' = TRUE
              /\ held' = held \cup {"file"}
              /\ SkipHeaders(n, Kept(n))
              /\ UNCHANGED pc
           \/ /\ headersSkipped' = TRUE
              /\ Goto("cleanup")
              /\ UNCHANGED <<held, file, unseen>>
  BY DEF ReceiveHeaders
<1>2. /\ TypeOK /\ received <= response.total /\ received \in Nat
      /\ headerBufferLen = Lesser(received, HEADER_BUFFER)
      /\ file = OldFile /\ unseen = {} /\ ~result
      /\ pc = "receive" /\ ~headersSkipped
      /\ client = "Simulator" /\ held \subseteq {"socket", "ssl", "context"}
      /\ client' = client /\ response' = response /\ result' = result
  BY ResponseFacts DEF ReceiveHeaders, IInv, TypeOK, Untouched, Storing, Holding,
     SimulatorPcs, callVars
<1>3. /\ n \in Nat /\ n > 0 /\ received' \in Nat /\ received' <= response.total
      /\ received' \in Positions
  BY <1>1, <1>2, PieceFacts DEF Pieces
<1>4. /\ Kept(n) = Lesser(received + n, HEADER_BUFFER)
      /\ Kept(n) \in 0 .. HEADER_BUFFER /\ Kept(n) \in Nat /\ Kept(n) <= received + n
      /\ Kept(n) < headerBufferLen + n \/ Kept(n) = received + n
  BY <1>2, <1>3, KeptFacts
<1>5. /\ client' \in Clients /\ response' \in Responses /\ headerBufferLen' \in 0 .. HEADER_BUFFER
      /\ file \in Seq(Positions) /\ unseen \subseteq Mishaps /\ held \subseteq Handles
      /\ result' \in BOOLEAN
  BY <1>1, <1>2, <1>4 DEF TypeOK
<1>6. CASE HeadersIncomplete(Kept(n))
  <2>1. UNCHANGED <<pc, held, headersSkipped, file, unseen>>
    BY <1>6 DEF HeadersIncomplete
  <2>2. TypeOK'
    BY <1>2, <1>3, <1>5, <2>1 DEF TypeOK
  <2>3. Holding'
    BY <1>2, <2>1 DEF IInv, Holding
  <2>4. Untouched'
    BY <1>1, <1>2, <1>4, <2>1 DEF Untouched
  <2>5. Storing' /\ Settled'
    BY <1>2, <1>3, <2>1 DEF Storing, Settled
  <2> QED
    BY <2>2, <2>3, <2>4, <2>5 DEF IInv
<1>7. CASE /\ headersSkipped' = TRUE /\ held' = held \cup {"file"}
           /\ SkipHeaders(n, Kept(n)) /\ UNCHANGED pc
  <2>1. /\ BodyIn(file', unseen', response.head, received')
        /\ file' \in Seq(Positions) /\ unseen' \subseteq Mishaps
    BY <1>1, <1>2, <1>3, <1>4, <1>7, SkipHeadersSound
  <2>2. held' \subseteq Handles /\ headersSkipped' \in BOOLEAN
    BY <1>5, <1>7 DEF Handles
  <2>3. TypeOK'
    BY <1>2, <1>3, <1>5, <1>7, <2>1, <2>2 DEF TypeOK
  <2>4. Holding'
    BY <1>2, <1>7 DEF Holding, SimulatorPcs, Esp32Pcs
  <2>5. Untouched' /\ Settled'
    BY <1>2, <1>7 DEF Untouched, Settled
  <2>6. Storing'
    BY <1>2, <1>3, <1>7, <2>1 DEF Storing
  <2> QED
    BY <2>3, <2>4, <2>5, <2>6 DEF IInv
<1>8. CASE /\ headersSkipped' = TRUE /\ Goto("cleanup") /\ UNCHANGED <<held, file, unseen>>
  <2>1. pc' = "cleanup" /\ headersSkipped' \in BOOLEAN
    BY <1>8 DEF Goto
  <2>2. TypeOK'
    BY <1>2, <1>3, <1>5, <1>8, <2>1 DEF TypeOK
  <2>3. Holding'
    BY <1>2, <1>8, <2>1 DEF Holding, SimulatorPcs, Esp32Pcs
  <2>4. Untouched' /\ Storing' /\ Settled'
    BY <1>2, <1>3, <1>8, <2>1 DEF Untouched, Storing, Settled
  <2> QED
    BY <2>2, <2>3, <2>4 DEF IInv
<1> QED
  BY <1>1, <1>6, <1>7, <1>8

(* Bytes of the body written behind byte n of the response, whole or not.  *)
LEMMA BodyWritten ==
    ASSUME TypeOK, NEW n \in Nat, NEW c \in Nat, n <= c, c <= response.total,
           BodyIn(file, unseen, response.head, n),
           Write(file, Span(n + 1, c), unseen)
    PROVE  /\ BodyIn(file', unseen', response.head, c)
           /\ file' \in Seq(Positions) /\ unseen' \subseteq unseen \cup {"write"}
<1>1. response \in Responses /\ response.head \in Nat /\ file \in Seq(Positions)
  BY ResponseFacts DEF TypeOK
<1>2. file \o Span(n + 1, c) \in Seq(Positions) /\ file \in Seq(Nat)
  <2> DEFINE a == n + 1
  <2>1. a \in Nat /\ a <= c + 1
    OBVIOUS
  <2> HIDE DEF a
  <2>2. file \o Span(a, c) \in Seq(Positions) /\ file \in Seq(Nat)
    BY <1>1, <2>1, FileGrows
  <2> QED
    BY <2>2 DEF a
<1>3. /\ BodyIn(file \o Span(n + 1, c), unseen, response.head, c)
      /\ BodyIn(file, unseen \cup {"write"}, response.head, c)
  BY <1>1, <1>2, WriteSound
<1> QED
  BY <1>1, <1>2, <1>3 DEF Write

LEMMA ReceiveBodyIInv ==
    ASSUME IInv, ReceiveBody
    PROVE  IInv'
<1>1. PICK n \in Pieces :
        /\ received' = received + n
        /\ Write(file, Span(received + 1, received + n), unseen)
  BY DEF ReceiveBody
<1>2. /\ TypeOK /\ received <= response.total /\ received \in Nat
      /\ BodyIn(file, unseen, response.head, received)
      /\ pc = "receive" /\ headersSkipped
      /\ UNCHANGED <<client, response, pc, held, headerBufferLen, headersSkipped, result>>
  BY ResponseFacts DEF ReceiveBody, IInv, TypeOK, Storing, callVars
<1>3. /\ n \in Nat /\ received' \in Nat /\ received <= received' /\ received' <= response.total
      /\ received' \in Positions
  BY <1>1, <1>2, PieceFacts DEF Pieces
<1>4. /\ BodyIn(file', unseen', response.head, received')
      /\ file' \in Seq(Positions) /\ unseen' \subseteq unseen \cup {"write"}
  BY <1>1, <1>2, <1>3, BodyWritten
<1>5. TypeOK'
  BY <1>2, <1>3, <1>4 DEF TypeOK, Mishaps
<1>6. Holding'
  BY <1>2 DEF IInv, Holding
<1>7. Untouched' /\ Storing' /\ Settled'
  BY <1>2, <1>3, <1>4 DEF IInv, Untouched, Storing, Settled
<1> QED
  BY <1>5, <1>6, <1>7 DEF IInv

(* A file that is closed keeps its bytes or, unseen, the first of them:    *)
(* what the verdict says of it stays so.                                   *)
LEMMA ClosedFile ==
    ASSUME file \in Seq(Positions), NEW seen, CloseFile(seen),
           seen = {} => file = Body,
           "stale" \notin seen => InBodyOrder(file),
           UNCHANGED response
    PROVE  /\ file' \in Seq(Positions)
           /\ unseen' \subseteq seen \cup {"write"} /\ seen \subseteq unseen'
           /\ unseen' = {} => file' = Body'
           /\ "stale" \notin unseen' => InBodyOrder(file)'
<1>1. Body' = Body
  BY DEF Body
<1>2. CASE UNCHANGED file /\ unseen' = seen
  BY <1>1, <1>2 DEF InBodyOrder
<1>3. CASE ~(UNCHANGED file /\ unseen' = seen)
  <2>1. unseen' = seen \cup {"write"}
    BY <1>3 DEF CloseFile
  <2>2. PICK n \in 0 .. Len(file) - 1 : file' = SubSeq(file, 1, n)
    BY <1>3 DEF CloseFile
  <2>3. /\ n \in Nat /\ Len(file) \in Nat /\ n < Len(file)
        /\ \A i \in 1 .. n : file[i] \in Positions
    OBVIOUS
  <2>4. /\ file' \in Seq(Positions) /\ Len(file') = n
        /\ \A i \in 1 .. n : file'[i] = file[i]
    BY <2>2, <2>3
  <2>5. InBodyOrder(file) => InBodyOrder(file)'
    <3> SUFFICES ASSUME InBodyOrder(file) PROVE InBodyOrder(file)'
      OBVIOUS
    <3>1. DOMAIN file' = 1 .. n /\ DOMAIN file = 1 .. Len(file)
      BY <2>4
    <3>2. \A i \in 1 .. n : file'[i] > response'.head
      <4> SUFFICES ASSUME NEW i \in 1 .. n PROVE file[i] > response.head
        BY <2>4
      <4>1. i \in DOMAIN file
        BY <2>3, <3>1
      <4> QED
        BY <4>1 DEF InBodyOrder
    <3>3. \A i \in 1 .. n - 1 : file'[i] < file'[i + 1]
      BY <2>3, <2>4 DEF InBodyOrder
    <3> QED
      BY <2>4, <3>1, <3>2, <3>3 DEF InBodyOrder
  <2> QED
    BY <2>1, <2>4, <2>5
<1> QED
  BY <1>2, <1>3

LEMMA ReceiveEndsIInv ==
    ASSUME IInv, ReceiveEnds
    PROVE  IInv'
<1> DEFINE seen == IF received < response.total THEN unseen \cup {"cut"} ELSE unseen
<1>1. /\ pc = "receive" /\ pc' = "cleanup"
      /\ result' = ("file" \in held)
      /\ held' = held \ {"file"}
      /\ IF "file" \in held THEN CloseFile(seen) ELSE file' = file /\ unseen' = seen
      /\ UNCHANGED <<client, response, received, headerBufferLen, headersSkipped>>
  BY DEF ReceiveEnds, Goto, callVars, readVars
<1>2. /\ TypeOK /\ received <= response.total /\ received \in Nat /\ response.total \in Nat
      /\ client = "Simulator" /\ held \subseteq {"socket", "ssl", "context", "file"}
      /\ "file" \in held <=> headersSkipped
      /\ file \in Seq(Positions) /\ file \in Seq(Nat) /\ response.head \in Nat
  <2>1. /\ TypeOK /\ received \in Nat /\ response.total \in Nat /\ response.head \in Nat
        /\ file \in Seq(Positions)
    BY ResponseFacts DEF IInv, TypeOK
  <2>2. file \in Seq(Nat)
    BY <2>1, ResponseFacts, SeqMonotonic DEF TypeOK
  <2> QED
    BY <1>1, <2>1, <2>2 DEF IInv, Holding, Storing, SimulatorPcs
<1>3. /\ headersSkipped => /\ seen = {} => file = Body
                           /\ "stale" \notin seen => InBodyOrder(file)
  <2> SUFFICES ASSUME headersSkipped
               PROVE  /\ seen = {} => file = Body
                      /\ "stale" \notin seen => InBodyOrder(file)
    OBVIOUS
  <2>1. BodyIn(file, unseen, response.head, received)
    BY <1>1 DEF IInv, Storing
  <2>2. seen # {} \/ (unseen = {} /\ received = response.total)
    <3>1. CASE received < response.total
      BY <3>1
    <3>2. CASE received = response.total
      BY <3>2
    <3> QED
      BY <1>2, <3>1, <3>2
  <2>3. "stale" \notin seen => "stale" \notin unseen
    OBVIOUS
  <2> HIDE DEF seen
  <2>4. BodyIn(file, seen, response.head, response.total)
    BY <1>2, <2>1, <2>2, <2>3, MarkedBody
  <2> QED
    BY <2>4 DEF BodyIn, Body, InBodyOrder
<1>4. seen \subseteq Mishaps
  BY <1>2 DEF TypeOK, Mishaps
<1> HIDE DEF seen
<1>5. CASE headersSkipped
  <2>1. CloseFile(seen) /\ result' = TRUE
    BY <1>1, <1>2, <1>5
  <2>2. /\ file' \in Seq(Positions) /\ unseen' \subseteq seen \cup {"write"}
        /\ unseen' = {} => file' = Body'
        /\ "stale" \notin unseen' => InBodyOrder(file)'
    BY <1>1, <1>2, <1>3, <1>5, <2>1, ClosedFile
  <2>3. TypeOK'
    BY <1>1, <1>2, <1>4, <2>1, <2>2 DEF TypeOK, Mishaps
  <2>4. Holding' /\ Untouched' /\ Storing'
    BY <1>1, <1>2 DEF Holding, Untouched, Storing, SimulatorPcs, Esp32Pcs
  <2>5. Settled'
    BY <1>1, <1>2, <2>1, <2>2 DEF Settled
  <2> QED
    BY <2>3, <2>4, <2>5 DEF IInv
<1>6. CASE ~headersSkipped
  <2>0. "file" \notin held
    BY <1>2, <1>6
  <2>a. result' = FALSE
    <3>1. ("file" \in held) = FALSE
      BY <2>0
    <3>2. result' = ("file" \in held)
      BY <1>1
    <3> QED
      BY <3>1, <3>2
  <2>1. file' = file /\ unseen' = seen /\ result' = FALSE
    BY <1>1, <2>0, <2>a
  <2>2. TypeOK'
    BY <1>1, <1>2, <1>4, <2>1 DEF TypeOK
  <2>3. Holding' /\ Untouched' /\ Storing'
    BY <1>1, <1>2 DEF Holding, Untouched, Storing, SimulatorPcs, Esp32Pcs
  <2>4. Settled'
    BY <1>1, <1>2, <1>6, <2>1 DEF Settled, IInv, Untouched
  <2> QED
    BY <2>2, <2>3, <2>4 DEF IInv
<1> QED
  BY <1>5, <1>6

LEMMA CloseTargetIInv ==
    ASSUME IInv, CloseTarget
    PROVE  IInv'
<1>1. /\ pc = "close" /\ pc' = "returned" /\ client = "ESP32"
      /\ held' = held \ {"client", "file"}
      /\ CloseFile(unseen)
      /\ UNCHANGED <<client, response, received, headerBufferLen, headersSkipped, result>>
  BY DEF CloseTarget, Goto, callVars, readVars, IInv, Holding, Esp32Pcs
<1>2. TypeOK /\ file \in Seq(Positions)
  BY DEF IInv, TypeOK
<1>3. file' \in Seq(Positions) /\ unseen' \subseteq unseen \cup {"write"}
  BY <1>1, <1>2 DEF CloseFile
<1>4. TypeOK'
  BY <1>1, <1>2, <1>3 DEF TypeOK, Mishaps
<1>5. Holding' /\ Untouched' /\ Storing'
  BY <1>1 DEF IInv, Holding, Untouched, Storing, SimulatorPcs, Esp32Pcs
<1>6. Settled'
  <2> SUFFICES ASSUME result
               PROVE  /\ unseen' = {} => file' = Body'
                      /\ "stale" \notin unseen' => InBodyOrder(file)'
                      /\ response'.found /\ unseen' \subseteq {"write"}
    BY <1>1 DEF Settled
  <2>1. /\ unseen = {} => file = Body
        /\ "stale" \notin unseen => InBodyOrder(file)
        /\ response.found /\ unseen \subseteq {"write"}
    BY <1>1 DEF IInv, Settled
  <2> QED
    BY <1>1, <1>2, <1>3, <2>1, ClosedFile
<1> QED
  BY <1>4, <1>5, <1>6 DEF IInv

LEMMA OpenTargetIInv ==
    ASSUME IInv, OpenTarget
    PROVE  IInv'
<1>1. /\ pc = "open" /\ held = {} /\ client = "ESP32" /\ ~result
      /\ UNCHANGED <<client, response, received, headerBufferLen, headersSkipped, unseen, result>>
      /\ \/ held' = {"file"} /\ file' = <<>> /\ pc' = "init"
         \/ held' = {} /\ file' = file /\ pc' = "returned"
  BY DEF OpenTarget, Goto, callVars, readVars, IInv, Holding, Untouched, Esp32Pcs
<1>2. file' \in Seq(Positions)
  <2>1. file \in Seq(Positions) /\ <<>> \in Seq(Positions)
    BY DEF IInv, TypeOK
  <2> QED
    BY <1>1, <2>1
<1>3. TypeOK'
  BY <1>1, <1>2 DEF IInv, TypeOK, Handles
<1>4. Holding' /\ Untouched' /\ Storing' /\ Settled'
  BY <1>1 DEF IInv, Holding, Untouched, Storing, Settled, SimulatorPcs, Esp32Pcs
<1> QED
  BY <1>3, <1>4 DEF IInv

LEMMA OnHttpEventIInv ==
    ASSUME IInv, OnHttpEvent
    PROVE  IInv'
<1>1. PICK n \in 1 .. Lesser(BUFFER, response.total - From) :
        /\ received' = From + n
        /\ Write(file, Span(From + 1, From + n), unseen)
  BY DEF OnHttpEvent, From
<1>2. /\ TypeOK /\ received <= response.total /\ received \in Nat
      /\ response.head \in Nat /\ response.total \in Nat /\ response.head <= response.total
      /\ BodyIn(file, unseen, response.head, From) /\ unseen \subseteq {"write"}
      /\ pc = "perform"
      /\ UNCHANGED <<client, response, pc, held, headerBufferLen, headersSkipped, result>>
  BY ResponseFacts DEF OnHttpEvent, IInv, TypeOK, Storing, callVars
<1>3. From \in Nat /\ From <= response.total /\ response.head <= From
  BY <1>2 DEF From
<1>4. /\ n \in Nat /\ n > 0 /\ received' \in Nat /\ From <= received'
      /\ received' <= response.total /\ received' \in Positions
  BY <1>1, <1>2, <1>3, PieceFacts
<1>5. /\ BodyIn(file', unseen', response.head, received')
      /\ file' \in Seq(Positions) /\ unseen' \subseteq unseen \cup {"write"}
  BY <1>1, <1>2, <1>3, <1>4, BodyWritten
<1>6. From' = received'
  BY <1>2, <1>3, <1>4 DEF From
<1>7. TypeOK'
  BY <1>2, <1>4, <1>5 DEF TypeOK, Mishaps
<1>8. Holding'
  BY <1>2 DEF IInv, Holding
<1>9. Untouched' /\ Storing' /\ Settled'
  BY <1>2, <1>4, <1>5, <1>6 DEF IInv, Untouched, Storing, Settled
<1> QED
  BY <1>7, <1>8, <1>9 DEF IInv

LEMMA PerformEndsIInv ==
    ASSUME IInv, PerformEnds
    PROVE  IInv'
<1>1. PICK ok \in BOOLEAN :
        /\ ok => received = response.total \/ Body = <<>>
        /\ result' = (ok /\ response.found)
  BY DEF PerformEnds
<1>2. /\ pc = "perform" /\ pc' = "close" /\ client = "ESP32"
      /\ UNCHANGED <<client, response, received, headerBufferLen, headersSkipped, held, file, unseen>>
      /\ response.head \in Nat /\ response.total \in Nat /\ response.head <= response.total
      /\ received \in Nat /\ received <= response.total
      /\ BodyIn(file, unseen, response.head, From) /\ unseen \subseteq {"write"}
  BY ResponseFacts DEF PerformEnds, Goto, callVars, readVars, IInv, Holding, Esp32Pcs,
     TypeOK, Storing
<1>3. result' \in BOOLEAN
  BY <1>1
<1>4. TypeOK'
  BY <1>2, <1>3 DEF IInv, TypeOK
<1>5. Holding' /\ Untouched' /\ Storing'
  BY <1>2 DEF IInv, Holding, Untouched, Storing, SimulatorPcs, Esp32Pcs
<1>6. result' => From = response.total
  <2> SUFFICES ASSUME result' PROVE From = response.total
    OBVIOUS
  <2>1. CASE received = response.total
    BY <1>2, <2>1 DEF From
  <2>2. CASE Body = <<>>
    <3> DEFINE a == response.head + 1
    <3>1. a \in Nat /\ a <= response.total + 1 /\ response.total - a + 1 = response.total - response.head
      BY <1>2
    <3> HIDE DEF a
    <3>2. Len(Span(a, response.total)) = response.total - a + 1
      BY <1>2, <3>1, SpanProperties
    <3>3. Span(a, response.total) = <<>>
      BY <2>2 DEF Body, a
    <3>4. response.total - response.head = 0
      BY <3>1, <3>2, <3>3
    <3> QED
      BY <1>2, <3>4 DEF From
  <2> QED
    BY <1>1, <2>1, <2>2
<1>7. result' => BodyIn(file, unseen, response.head, response.total)
  BY <1>2, <1>6
<1>8. Settled'
  BY <1>1, <1>2, <1>7 DEF Settled, BodyIn, Body, InBodyOrder
<1> QED
  BY <1>4, <1>5, <1>8 DEF IInv

LEMMA Inductive == IInv /\ [Next]_vars => IInv'
<1> SUFFICES ASSUME IInv, [Next]_vars PROVE IInv'
  OBVIOUS
<1>1. CASE UNCHANGED vars
  BY <1>1 DEF vars, IInv, TypeOK, Holding, Untouched, Storing, Settled, BodyIn, From, Body,
     InBodyOrder
<1>2. CASE Next
  BY <1>2, CallIInv, QuietIInv, ReceiveHeadersIInv, ReceiveBodyIInv, ReceiveEndsIInv,
     OpenTargetIInv, OnHttpEventIInv, PerformEndsIInv, CloseTargetIInv DEF Next, Simulator, Esp32
<1> QED
  BY <1>1, <1>2

LEMMA Invariant == Spec => []IInv
  BY InitIInv, Inductive, PTL DEF Spec

-----------------------------------------------------------------------------
(* Every state of a download is one the module's types allow: the counts   *)
(* of bytes stay inside the response and the header buffer.                *)
THEOREM TypesCorrect == Spec => []TypeOK
<1>1. IInv => TypeOK
  BY DEF IInv
<1> QED
  BY <1>1, Invariant, PTL

(* A true of HttpDownloadFile means that the body is in the file, but for  *)
(* what failed unseen, and then never a header byte nor one out of place.  *)
THEOREM TrueStored == Spec => []TrueMeansStored
<1>1. IInv => TrueMeansStored
  BY DEF IInv, Settled, TrueMeansStored
<1> QED
  BY <1>1, Invariant, PTL

(* No way through a call leaves a file, a socket or a session open.        *)
THEOREM NothingEverHeld == Spec => []NothingHeld
<1>1. IInv => NothingHeld
  BY DEF IInv, Holding, NothingHeld
<1> QED
  BY <1>1, Invariant, PTL

(* A call of the Simulator that returns false has not touched the target.  *)
THEOREM FalseLeavesFile == Spec => []FalseLeavesOldFile
<1>1. IInv => FalseLeavesOldFile
  BY DEF IInv, Settled, FalseLeavesOldFile
<1> QED
  BY <1>1, Invariant, PTL

===============================================================================
