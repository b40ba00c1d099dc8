-------------------------- MODULE Rp2040WiFi_proofs --------------------------
(***************************************************************************)
(* Proofs about the RP2040's WiFi: for every number of networks, every     *)
(* length of the mailbox, every timeout and every set of DNS queries.      *)
(***************************************************************************)
EXTENDS Rp2040WiFi, SequenceTheorems, WellFoundedInduction, TLAPS

-----------------------------------------------------------------------------
(* The least element of a set of numbers: what the inductions over the     *)
(* labels of a name below are made of.                                     *)

LEMMA LeastNat ==
    ASSUME NEW T, T \subseteq Nat, T # {}
    PROVE  \E x \in T : \A y \in T : x <= y
<1> DEFINE R == {p \in Nat \X Nat : p[1] < p[2]}
<1>1. IsWellFoundedOn(R, Nat)
  BY NatLessThanWellFounded DEF OpToRel
<1>2. \A x, y \in Nat : y < x => <<y, x>> \in R
  OBVIOUS
<1> HIDE DEF R
<1>3. \E x \in T : \A y \in T : ~ (<<y, x>> \in R)
  BY <1>1, WFMin
<1>4. \A x, y \in Nat : ~(y < x) => x <= y
  OBVIOUS
<1> QED
  BY <1>2, <1>3, <1>4

LEMMA LeastOfProperties ==
    ASSUME NEW T, T \subseteq Nat, T # {}
    PROVE  LeastOf(T) \in T /\ \A y \in T : LeastOf(T) <= y
<1>1. \E x \in T : \A y \in T : x <= y
  BY LeastNat
<1> QED
  BY <1>1 DEF LeastOf

-----------------------------------------------------------------------------
(* The walk over the name of a DNS query.                                  *)

QueryType == [standard : BOOLEAN, labels : Seq(Nat \ {0}), size : Nat]

(* f places the length bytes of the first n labels of l, and the one that  *)
(* follows them.                                                           *)
Places(l, f, n) ==
    /\ f \in [1 .. n + 1 -> Nat]
    /\ f[1] = HEADER
    /\ \A i \in 2 .. n + 1 : f[i] = f[i - 1] + 1 + l[i - 1]

(* One label more can always be placed.                                    *)
LEMMA PlaceOneMore ==
    ASSUME NEW l \in Seq(Nat \ {0}), NEW n \in 1 .. Len(l), NEW f, Places(l, f, n - 1)
    PROVE  \E g : Places(l, g, n)
<1>1. n \in Nat /\ l[n] \in Nat /\ DOMAIN l = 1 .. Len(l)
  BY LenProperties, ElementOfSeq
<1>2. /\ f \in [1 .. n -> Nat] /\ f[1] = HEADER
      /\ \A i \in 2 .. n : f[i] = f[i - 1] + 1 + l[i - 1]
  BY <1>1 DEF Places
<1> DEFINE g == [i \in 1 .. n + 1 |-> IF i = n + 1 THEN f[n] + 1 + l[n] ELSE f[i]]
<1>3. f[n] \in Nat
  BY <1>1, <1>2
<1>4. \A i \in 1 .. n + 1 : i # n + 1 => i \in 1 .. n
  BY <1>1
<1>5. g \in [1 .. n + 1 -> Nat]
  BY <1>1, <1>2, <1>3, <1>4
<1>6. /\ g[1] = HEADER
      /\ \A i \in 1 .. n : g[i] = f[i]
      /\ g[n + 1] = f[n] + 1 + l[n]
  BY <1>1, <1>2
<1> HIDE DEF g
<1>7. ASSUME NEW i \in 2 .. n + 1
      PROVE  g[i] = g[i - 1] + 1 + l[i - 1]
  <2>1. i - 1 \in 1 .. n
    BY <1>1
  <2>2. CASE i = n + 1
    BY <1>1, <1>6, <2>1, <2>2
  <2>3. CASE i # n + 1
    <3>1. i \in 2 .. n /\ i \in 1 .. n
      BY <1>1, <2>3
    <3> QED
      BY <1>2, <1>6, <2>1, <3>1
  <2> QED
    BY <2>2, <2>3
<1>8. Places(l, g, n)
  BY <1>5, <1>6, <1>7 DEF Places
<1> QED
  BY <1>8

(* So the labels of every name can.                                        *)
LEMMA PlacesExist ==
    ASSUME NEW l \in Seq(Nat \ {0})
    PROVE  \E f : Places(l, f, Len(l))
<1> DEFINE Bad == {n \in 0 .. Len(l) : ~ \E f : Places(l, f, n)}
<1>1. Len(l) \in Nat
  OBVIOUS
<1>2. Bad = {}
  <2> SUFFICES ASSUME Bad # {} PROVE FALSE
    OBVIOUS
  <2>1. PICK n \in Bad : \A m \in Bad : n <= m
    <3>1. Bad \subseteq Nat /\ Bad # {}
      BY <1>1
    <3> HIDE DEF Bad
    <3> QED
      BY <3>1, LeastNat
  <2>2. n \in 0 .. Len(l) /\ ~ \E f : Places(l, f, n)
    BY <2>1
  <2>3. CASE n = 0
    <3> DEFINE f == [i \in 1 .. 1 |-> HEADER]
    <3>1. f \in [1 .. 0 + 1 -> Nat] /\ f[1] = HEADER /\ 2 .. 0 + 1 = {}
      BY DEF HEADER
    <3> HIDE DEF f
    <3>2. Places(l, f, 0)
      BY <3>1 DEF Places
    <3> QED
      BY <2>2, <2>3, <3>2
  <2>4. CASE n # 0
    <3>1. n \in 1 .. Len(l) /\ n - 1 \in 0 .. Len(l) /\ ~(n <= n - 1)
      BY <1>1, <2>2, <2>4
    <3>2. \E f : Places(l, f, n - 1)
      BY <2>1, <3>1
    <3>3. \E g : Places(l, g, n)
      BY <3>1, <3>2, PlaceOneMore
    <3> QED
      BY <2>2, <3>3
  <2> QED
    BY <2>3, <2>4
<1>3. Len(l) \in 0 .. Len(l)
  BY <1>1
<1> QED
  BY <1>2, <1>3

(* The recursion of Positions has a solution, which Positions then is.     *)
LEMMA PositionsEquation ==
    ASSUME NEW q \in QueryType
    PROVE  Positions(q) =
              [i \in 1 .. Len(q.labels) + 1 |->
                  IF i = 1 THEN HEADER ELSE Positions(q)[i - 1] + 1 + q.labels[i - 1]]
<1>1. q.labels \in Seq(Nat \ {0}) /\ Len(q.labels) \in Nat
  BY DEF QueryType
<1>2. PICK f : Places(q.labels, f, Len(q.labels))
  BY <1>1, PlacesExist
<1>3. f = [i \in 1 .. Len(q.labels) + 1 |->
                  IF i = 1 THEN HEADER ELSE f[i - 1] + 1 + q.labels[i - 1]]
  <2>1. \A i \in 1 .. Len(q.labels) + 1 : i # 1 => i \in 2 .. Len(q.labels) + 1
    BY <1>1
  <2> QED
    BY <1>2, <2>1 DEF Places
<1> QED
  BY <1>3 DEF Positions

LEMMA PositionsProperties ==
    ASSUME NEW q \in QueryType
    PROVE  LET p == Positions(q)
               n == Len(q.labels) IN
           /\ n \in Nat /\ DOMAIN p = 1 .. n + 1
           /\ \A i \in 1 .. n + 1 : p[i] \in Nat
           /\ \A i \in 1 .. n : p[i + 1] = p[i] + 1 + q.labels[i]
           /\ HEADER <= p[n + 1]
           /\ \A i \in 1 .. n + 1 : p[i] <= p[n + 1]
<1> DEFINE p == Positions(q)
           l == q.labels
           n == Len(l)
<1>1. /\ l \in Seq(Nat \ {0}) /\ n \in Nat
      /\ \A i \in 1 .. n : l[i] \in Nat
  BY ElementOfSeq DEF QueryType
<1>2. p = [i \in 1 .. n + 1 |-> IF i = 1 THEN HEADER ELSE p[i - 1] + 1 + l[i - 1]]
  BY PositionsEquation
<1> HIDE DEF p, l
<1>3. p[1] = HEADER /\ DOMAIN p = 1 .. n + 1
  BY <1>1, <1>2
<1>4. \A i \in 1 .. n : p[i + 1] = p[i] + 1 + l[i]
  <2> SUFFICES ASSUME NEW i \in 1 .. n PROVE p[i + 1] = p[i] + 1 + l[i]
    OBVIOUS
  <2>1. i + 1 \in 1 .. n + 1 /\ i + 1 # 1 /\ (i + 1) - 1 = i
    BY <1>1
  <2> QED
    BY <1>2, <2>1
<1>5. \A i \in 1 .. n + 1 : p[i] \in Nat
  <2> DEFINE Bad == {i \in 1 .. n + 1 : p[i] \notin Nat}
  <2> SUFFICES ASSUME Bad # {} PROVE FALSE
    OBVIOUS
  <2>1. PICK i \in Bad : \A j \in Bad : i <= j
    <3>1. Bad \subseteq Nat /\ Bad # {}
      BY <1>1
    <3> HIDE DEF Bad
    <3> QED
      BY <3>1, LeastNat
  <2>2. i \in 1 .. n + 1 /\ p[i] \notin Nat
    BY <2>1
  <2>3. i # 1
    BY <1>3, <2>2 DEF HEADER
  <2>4. i - 1 \in 1 .. n /\ i - 1 \in 1 .. n + 1 /\ (i - 1) + 1 = i /\ ~(i <= i - 1)
    BY <1>1, <2>2, <2>3
  <2>5. p[i - 1] \in Nat
    BY <2>1, <2>4
  <2>6. p[i] = p[i - 1] + 1 + l[i - 1] /\ l[i - 1] \in Nat
    BY <1>1, <1>4, <2>4
  <2> QED
    BY <2>2, <2>5, <2>6
<1>6. \A i \in 1 .. n + 1 : p[i] <= p[n + 1]
  <2> DEFINE Bad == {k \in 0 .. n : ~(p[n + 1 - k] <= p[n + 1])}
  <2>1. Bad = {}
    <3> SUFFICES ASSUME Bad # {} PROVE FALSE
      OBVIOUS
    <3>1. PICK k \in Bad : \A j \in Bad : k <= j
      <4>1. Bad \subseteq Nat /\ Bad # {}
        BY <1>1
      <4> HIDE DEF Bad
      <4> QED
        BY <4>1, LeastNat
    <3>2. k \in 0 .. n /\ ~(p[n + 1 - k] <= p[n + 1])
      BY <3>1
    <3>3. n + 1 \in 1 .. n + 1 /\ n + 1 - 0 = n + 1
      BY <1>1
    <3>4. k # 0
      BY <1>5, <3>2, <3>3
    <3>5. /\ k - 1 \in 0 .. n /\ ~(k <= k - 1) /\ n + 1 - k \in 1 .. n
          /\ n + 1 - k \in 1 .. n + 1
          /\ n + 1 - (k - 1) = (n + 1 - k) + 1 /\ n + 1 - (k - 1) \in 1 .. n + 1
      BY <1>1, <3>2, <3>4
    <3>6. p[n + 1 - (k - 1)] <= p[n + 1]
      BY <3>1, <3>5
    <3> DEFINE i == n + 1 - k
    <3>7. /\ i \in 1 .. n /\ p[i + 1] <= p[n + 1] /\ p[i] \in Nat /\ p[i + 1] \in Nat
          /\ p[n + 1] \in Nat
      BY <1>5, <3>3, <3>5, <3>6
    <3>8. ~(p[i] <= p[n + 1])
      BY <3>2
    <3> HIDE DEF i
    <3>9. p[i + 1] = p[i] + 1 + l[i] /\ l[i] \in Nat
      BY <1>1, <1>4, <3>7
    <3> QED
      BY <3>7, <3>8, <3>9
  <2> SUFFICES ASSUME NEW i \in 1 .. n + 1 PROVE p[i] <= p[n + 1]
    OBVIOUS
  <2>2. n + 1 - i \in 0 .. n /\ n + 1 - (n + 1 - i) = i
    BY <1>1
  <2>3. p[n + 1 - (n + 1 - i)] <= p[n + 1]
    BY <2>1, <2>2
  <2> QED
    BY <2>2, <2>3
<1>7. HEADER <= p[n + 1]
  BY <1>1, <1>3, <1>6
<1> QED
  BY <1>1, <1>3, <1>4, <1>5, <1>6, <1>7 DEF p, l

(* The walk ends at a length byte of the name, at the first that ends it.  *)
LEMMA WalkStopProperties ==
    ASSUME NEW q \in QueryType
    PROVE  LET Ends(i) == \/ Positions(q)[i] >= Copied(q)
                          \/ i = Len(q.labels) + 1
                          \/ q.labels[i] > MAX_LABEL
           IN  /\ WalkStop(q) \in 1 .. Len(q.labels) + 1
               /\ Ends(WalkStop(q))
<1> DEFINE T == {i \in DOMAIN Positions(q) :
                    \/ Positions(q)[i] >= Copied(q)
                    \/ i = Len(q.labels) + 1
                    \/ q.labels[i] > MAX_LABEL}
<1>1. Len(q.labels) \in Nat /\ DOMAIN Positions(q) = 1 .. Len(q.labels) + 1
  BY PositionsProperties
<1>2. Len(q.labels) + 1 \in T /\ T \subseteq Nat
  BY <1>1
<1>3. WalkStop(q) = LeastOf(T)
  BY DEF WalkStop
<1>4. LeastOf(T) \in T
  <2> HIDE DEF T
  <2> QED
    BY <1>2, LeastOfProperties
<1> QED
  BY <1>1, <1>3, <1>4

(* A name that fits ends so that its reply fits.                           *)
LEMMA ReplyFits ==
    ASSUME NEW q \in QueryType, Answered(q)
    PROVE  ReplyLength(q) \in 0 .. MAX_DNS_MSG_SIZE
<1>1. WalkStop(q) \in 1 .. Len(q.labels) + 1
  BY WalkStopProperties
<1>2. Positions(q)[WalkStop(q)] \in Nat
  BY <1>1, PositionsProperties
<1>3. NameEnd(q) \in Nat
  BY <1>2 DEF NameEnd
<1>4. NameEnd(q) - HEADER <= MAX_NAME
  BY DEF Answered, NameFits
<1> QED
  BY <1>3, <1>4 DEF ReplyLength, HEADER, MAX_NAME, TYPE_AND_CLASS, ANSWER, MAX_DNS_MSG_SIZE

(* The walk over a whole name ends at the zero byte behind it.             *)
LEMMA WellFormedAnswered ==
    ASSUME NEW q \in QueryType, WellFormed(q)
    PROVE  /\ Answered(q)
           /\ ReplyLength(q) = Terminator(q) + 1 + TYPE_AND_CLASS + ANSWER
<1> DEFINE p == Positions(q)
           n == Len(q.labels)
           c == Copied(q)
<1>1. /\ n \in Nat /\ DOMAIN p = 1 .. n + 1
      /\ \A i \in 1 .. n + 1 : p[i] \in Nat /\ p[i] <= p[n + 1]
      /\ HEADER <= p[n + 1]
  BY PositionsProperties
<1>2. /\ q.standard
      /\ \A i \in 1 .. n : q.labels[i] \in 1 .. MAX_LABEL
      /\ p[n + 1] + 1 - HEADER <= MAX_NAME
      /\ q.size >= p[n + 1] + 1 + TYPE_AND_CLASS
  BY DEF WellFormed, Terminator
<1>3. q.size \in Nat
  BY DEF QueryType
<1>4. c \in {q.size, MAX_DNS_MSG_SIZE}
  BY <1>3, LeastOfProperties DEF Copied, MAX_DNS_MSG_SIZE
<1> HIDE DEF p, n, c
<1>5. n + 1 \in 1 .. n + 1 /\ p[n + 1] \in Nat
  BY <1>1
<1>6. p[n + 1] < c /\ c >= HEADER /\ c \in Nat
  BY <1>1, <1>2, <1>3, <1>4, <1>5 DEF HEADER, MAX_NAME, MAX_DNS_MSG_SIZE, TYPE_AND_CLASS
<1>7. \A i \in 1 .. n + 1 : ~(p[i] >= c)
  BY <1>1, <1>5, <1>6
<1>8. WalkStop(q) = n + 1
  <2>1. WalkStop(q) \in 1 .. n + 1
    BY WalkStopProperties DEF n
  <2>2. \/ p[WalkStop(q)] >= c
        \/ WalkStop(q) = n + 1
        \/ q.labels[WalkStop(q)] > MAX_LABEL
    BY WalkStopProperties DEF p, n, c
  <2>3. CASE WalkStop(q) # n + 1
    <3>1. WalkStop(q) \in 1 .. n
      BY <1>1, <2>1, <2>3
    <3>2. ~(q.labels[WalkStop(q)] > MAX_LABEL)
      BY <1>2, <3>1 DEF MAX_LABEL
    <3> QED
      BY <1>7, <2>1, <2>2, <2>3, <3>2
  <2> QED
    BY <2>3
<1>9. NameEnd(q) = p[n + 1] + 1
  BY <1>6, <1>8 DEF NameEnd, p, c
<1>10. ~LabelTooLong(q)
  BY <1>8 DEF LabelTooLong, n
<1>11. NameFits(q)
  BY <1>2, <1>5, <1>9 DEF NameFits, HEADER, MAX_NAME
<1>12. Answered(q)
  BY <1>2, <1>6, <1>10, <1>11 DEF Answered, c
<1>13. Terminator(q) = p[n + 1]
  BY DEF Terminator, p, n
<1> QED
  BY <1>9, <1>12, <1>13 DEF ReplyLength

-----------------------------------------------------------------------------
(* The inductive invariant.                                                *)

(* What is posted and not run yet leads from what lwIP sees to what the    *)
(* application asked for: starts and stops alternate, the next one changes *)
(* the state of the interface, and the last one is the application's.      *)
Posted ==
    lost = 0 =>
        /\ mailbox = <<>> => (accessPointRunning <=> netifUp)
        /\ mailbox # <<>> =>
            /\ mailbox[1] = "start" <=> ~netifUp
            /\ mailbox[Len(mailbox)] = "start" <=> accessPointRunning
        /\ \A i \in 1 .. Len(mailbox) - 1 : mailbox[i] # mailbox[i + 1]

(* With the interface down the servers hold no sockets, and none is lost.  *)
Sockets ==
    lost = 0 =>
        /\ ~netifUp => \A s \in Servers : udp[s] = "null"
        /\ \A s \in Servers : leaked[s] = {}

(* The entries counted are those of the last scan, as far as there was     *)
(* room for them, and the driver adds some only to the scan in progress.   *)
Scanned ==
    /\ active => scanInProgress
    /\ FoundNetworks = Lesser(heard, SCAN_MAX_NETWORKS)
    /\ \A i \in 1 .. FoundNetworks : networks[i] = scan

(* No scan is active between the count and the copy, or while the caller   *)
(* uses its list.                                                          *)
Counted ==
    app.pc = "copy" => ~active /\ app.count = Lesser(FoundNetworks, app.max)

(* The last reply is none, or that of an answered query.                   *)
Replied ==
    \/ reply = NoReply
    \/ /\ reply.query \in Queries /\ Answered(reply.query)
       /\ reply.length = ReplyLength(reply.query)

IInv == TypeOK /\ Posted /\ Sockets /\ Scanned /\ Counted /\ ScanListWhole /\ Replied

AppType == [pc : {"idle", "poll", "copy", "returned", "join"}, elapsed : 0 .. TIMEOUT,
            max : ArraySizes \cup {0}, count : 0 .. SCAN_MAX_NETWORKS]
ReplyType == [query : Queries \cup {NoQuery}, length : 0 .. MAX_DNS_MSG_SIZE]

-----------------------------------------------------------------------------
LEMMA IdleType == Idle \in AppType
<1>1. 0 \in 0 .. TIMEOUT /\ 0 \in 0 .. SCAN_MAX_NETWORKS
  BY ScanAssumption
<1> QED
  BY <1>1 DEF Idle, AppType

LEMMA NoReplyType == NoReply \in ReplyType
  BY DEF NoReply, ReplyType, MAX_DNS_MSG_SIZE

LEMMA LesserProperties ==
    ASSUME NEW a \in Nat, NEW b \in Nat
    PROVE  /\ Lesser(a, b) \in 0 .. b /\ Lesser(a, b) \in Nat /\ Lesser(a, b) <= a
           /\ Lesser(a, b) <= b
           /\ a < b => Lesser(a, b) = a
           /\ a >= b => Lesser(a, b) = b
  BY DEF Lesser

LEMMA InitIInv == Init => IInv
<1> SUFFICES ASSUME Init PROVE IInv
  OBVIOUS
<1>1. /\ SCAN_MAX_NETWORKS \in Nat \ {0} /\ TIMEOUT \in Nat /\ MaxScans \in Nat
      /\ MaxHeard \in Nat /\ MaxLost \in Nat /\ TCPIP_MBOX_SIZE \in Nat
  BY ScanAssumption, MailboxAssumption
<1>2. /\ wifiInitialized \in BOOLEAN /\ accessPointRunning \in BOOLEAN /\ netifUp \in BOOLEAN
      /\ scanInProgress \in BOOLEAN /\ active \in BOOLEAN
  BY DEF Init
<1>3. mailbox \in Seq({"start", "stop"}) /\ Len(mailbox) = 0 /\ list \in Seq(0 .. MaxScans)
  BY DEF Init
<1>4. /\ 0 \in 0 .. MaxLost /\ 0 \in 0 .. SCAN_MAX_NETWORKS /\ 0 \in 0 .. MaxScans
      /\ 0 \in 0 .. MaxHeard /\ 0 <= TCPIP_MBOX_SIZE
  BY <1>1
<1>5. /\ udp \in [Servers -> {"null"} \cup Kinds] /\ leaked \in [Servers -> SUBSET Kinds]
      /\ networks \in [Entries -> 0 .. MaxScans]
  BY <1>4 DEF Init
<1>6. app \in AppType /\ reply \in ReplyType
  BY IdleType, NoReplyType DEF Init
<1>7. TypeOK
  BY <1>2, <1>3, <1>4, <1>5, <1>6 DEF Init, TypeOK, AppType, ReplyType
<1>8. Posted
  BY DEF Init, Posted
<1>9. Sockets
  BY DEF Init, Sockets
<1>10. Scanned
  BY <1>1, LesserProperties DEF Init, Scanned
<1>11. Counted /\ ScanListWhole /\ Replied
  BY DEF Init, Counted, ScanListWhole, Replied, Idle
<1> QED
  BY <1>7, <1>8, <1>9, <1>10, <1>11 DEF IInv

-----------------------------------------------------------------------------
(* The invariant in two halves that share no variable: an action of the    *)
(* one leaves the other alone.                                             *)

AccessPoint ==
    /\ wifiInitialized \in BOOLEAN /\ accessPointRunning \in BOOLEAN
    /\ mailbox \in Seq({"start", "stop"}) /\ Len(mailbox) <= TCPIP_MBOX_SIZE
    /\ lost \in 0 .. MaxLost
    /\ netifUp \in BOOLEAN
    /\ udp \in [Servers -> {"null"} \cup Kinds]
    /\ leaked \in [Servers -> SUBSET Kinds]
    /\ reply \in ReplyType
    /\ Posted /\ Sockets /\ Replied

Scans ==
    /\ scanInProgress \in BOOLEAN /\ active \in BOOLEAN
    /\ FoundNetworks \in 0 .. SCAN_MAX_NETWORKS
    /\ networks \in [Entries -> 0 .. MaxScans]
    /\ scan \in 0 .. MaxScans /\ heard \in 0 .. MaxHeard
    /\ app \in AppType
    /\ list \in Seq(0 .. MaxScans)
    /\ Scanned /\ Counted /\ ScanListWhole

LEMMA Halves == IInv <=> AccessPoint /\ Scans
  BY DEF IInv, TypeOK, AccessPoint, Scans, AppType, ReplyType

LEMMA HalvesNext == IInv' <=> AccessPoint' /\ Scans'
  BY DEF IInv, TypeOK, AccessPoint, Scans, AppType, ReplyType

LEMMA AccessPointKept ==
    ASSUME AccessPoint, wifiInitialized' \in BOOLEAN,
           UNCHANGED <<accessPointRunning, posts, servers>>
    PROVE  AccessPoint'
  BY DEF AccessPoint, Posted, Sockets, Replied, posts, servers, ReplyType

LEMMA ScansKept ==
    ASSUME Scans, UNCHANGED <<scanning, app, list>>
    PROVE  Scans'
  BY DEF Scans, Scanned, Counted, ScanListWhole, scanning, AppType, Entries

-----------------------------------------------------------------------------
(* The access point.                                                       *)

(* A post that changes what the application asks for keeps the order.      *)
LEMMA PostKeepsOrder ==
    ASSUME AccessPoint, NEW c \in {"start", "stop"}, Post(c),
           c = "start" <=> ~accessPointRunning,
           accessPointRunning' = (c = "start"),
           wifiInitialized' \in BOOLEAN,
           UNCHANGED servers
    PROVE  AccessPoint'
<1>1. /\ mailbox \in Seq({"start", "stop"}) /\ Len(mailbox) \in Nat /\ lost \in 0 .. MaxLost
      /\ MaxLost \in Nat /\ TCPIP_MBOX_SIZE \in Nat
      /\ UNCHANGED <<netifUp, udp, leaked, reply>>
      /\ accessPointRunning \in BOOLEAN
  BY MailboxAssumption DEF AccessPoint, servers
<1>2. accessPointRunning' \in BOOLEAN
  OBVIOUS
<1>4. Replied'
  BY <1>1 DEF AccessPoint, Replied
<1>5. CASE /\ Len(mailbox) < TCPIP_MBOX_SIZE
           /\ mailbox' = Append(mailbox, c) /\ lost' = lost
  <2> DEFINE n == Len(mailbox)
  <2>1. /\ mailbox' \in Seq({"start", "stop"}) /\ Len(mailbox') = n + 1
        /\ \A i \in 1 .. n : mailbox'[i] = mailbox[i]
        /\ mailbox'[n + 1] = c
    BY <1>1, <1>5, AppendProperties
  <2>2. /\ mailbox' # <<>> /\ n \in Nat /\ (mailbox # <<>> <=> n > 0)
        /\ \A i \in 1 .. n : mailbox[i] \in {"start", "stop"}
    BY <1>1, <2>1, ElementOfSeq
  <2>3. Len(mailbox') <= TCPIP_MBOX_SIZE
    BY <1>1, <1>5, <2>1
  <2> HIDE DEF n
  <2>4. lost = 0 => /\ n = 0 => (accessPointRunning <=> netifUp)
                    /\ n > 0 =>
                        /\ mailbox[1] = "start" <=> ~netifUp
                        /\ mailbox[n] = "start" <=> accessPointRunning
                    /\ \A i \in 1 .. n - 1 : mailbox[i] # mailbox[i + 1]
    BY <2>2 DEF AccessPoint, Posted, n
  <2>5. Posted'
    <3> SUFFICES ASSUME lost = 0
                 PROVE  /\ mailbox'[1] = "start" <=> ~netifUp
                        /\ mailbox'[n + 1] = "start" <=> accessPointRunning'
                        /\ \A i \in 1 .. n : mailbox'[i] # mailbox'[i + 1]
      <4>1. (n + 1) - 1 = n
        BY <2>2
      <4> QED
        BY <1>1, <1>5, <2>1, <2>2, <4>1 DEF Posted
    <3>1. mailbox'[n + 1] = "start" <=> accessPointRunning'
      BY <2>1
    <3>2. mailbox'[1] = "start" <=> ~netifUp
      <4>1. CASE n = 0
        BY <2>1, <2>4, <4>1
      <4>2. CASE n > 0
        <5>1. mailbox'[1] = mailbox[1]
          BY <2>1, <2>2, <4>2
        <5> QED
          BY <2>4, <4>2, <5>1
      <4> QED
        BY <2>2, <4>1, <4>2
    <3>3. ASSUME NEW i \in 1 .. n PROVE mailbox'[i] # mailbox'[i + 1]
      <4>1. CASE i = n
        <5>1. n > 0 /\ n \in 1 .. n
          BY <2>2, <4>1
        <5>2. mailbox'[n] = mailbox[n] /\ mailbox[n] \in {"start", "stop"}
          BY <2>1, <2>2, <5>1
        <5>3. mailbox[n] = "start" <=> accessPointRunning
          BY <2>4, <5>1
        <5> QED
          BY <2>1, <4>1, <5>2, <5>3
      <4>2. CASE i # n
        <5>1. i \in 1 .. n - 1 /\ i + 1 \in 1 .. n
          BY <2>2, <4>2
        <5> QED
          BY <2>1, <2>4, <5>1
      <4> QED
        BY <4>1, <4>2
    <3> QED
      BY <3>1, <3>2, <3>3
  <2>6. Sockets'
    BY <1>1, <1>5 DEF AccessPoint, Sockets
  <2> QED
    BY <1>1, <1>2, <1>4, <1>5, <2>1, <2>3, <2>5, <2>6 DEF AccessPoint
<1>6. CASE lost < MaxLost /\ lost' = lost + 1 /\ mailbox' = mailbox
  <2>1. lost' \in 0 .. MaxLost /\ lost' # 0
    BY <1>1, <1>6
  <2>2. Posted' /\ Sockets'
    BY <2>1 DEF Posted, Sockets
  <2> QED
    BY <1>1, <1>2, <1>4, <1>6, <2>1, <2>2 DEF AccessPoint
<1> QED
  BY <1>5, <1>6 DEF Post

LEMMA ApplicationSteps ==
    ASSUME IInv, WiFiInitialize \/ WiFiDeinitialize \/ WiFiAccessPointStart \/ WiFiAccessPointStop
    PROVE  IInv'
<1>1. AccessPoint /\ Scans
  BY Halves
<1>2. CASE WiFiInitialize
  <2>1. wifiInitialized' \in BOOLEAN
    BY <1>2 DEF WiFiInitialize
  <2> QED
    BY <1>1, <1>2, <2>1, AccessPointKept, ScansKept, HalvesNext DEF WiFiInitialize
<1>3. CASE WiFiAccessPointStart
  <2>1. /\ Post("start") /\ ~accessPointRunning /\ accessPointRunning' = ("start" = "start")
        /\ wifiInitialized' \in BOOLEAN /\ UNCHANGED servers
        /\ UNCHANGED <<scanning, app, list>>
    BY <1>1, <1>3 DEF WiFiAccessPointStart, AccessPoint
  <2>2. AccessPoint'
    BY <1>1, <2>1, PostKeepsOrder
  <2> QED
    BY <1>1, <2>1, <2>2, ScansKept, HalvesNext
<1>4. ASSUME StopAccessPoint, wifiInitialized' \in BOOLEAN, UNCHANGED servers
      PROVE  AccessPoint'
  <2>1. CASE accessPointRunning
    <3>1. Post("stop") /\ accessPointRunning' = ("stop" = "start")
      BY <1>4, <2>1 DEF StopAccessPoint
    <3> QED
      BY <1>1, <1>4, <2>1, <3>1, PostKeepsOrder
  <2>2. CASE ~accessPointRunning
    BY <1>1, <1>4, <2>2, AccessPointKept DEF StopAccessPoint
  <2> QED
    BY <2>1, <2>2
<1>5. CASE WiFiAccessPointStop
  <2>1. wifiInitialized' \in BOOLEAN /\ StopAccessPoint /\ UNCHANGED servers
    BY <1>1, <1>5 DEF WiFiAccessPointStop, AccessPoint
  <2>2. UNCHANGED <<scanning, app, list>>
    BY <1>5 DEF WiFiAccessPointStop
  <2> QED
    BY <1>1, <1>4, <2>1, <2>2, ScansKept, HalvesNext
<1>6. CASE WiFiDeinitialize
  <2>1. wifiInitialized' \in BOOLEAN /\ active' \in BOOLEAN
    BY <1>6 DEF WiFiDeinitialize
  <2>2. /\ StopAccessPoint /\ ~active' /\ UNCHANGED servers
        /\ UNCHANGED <<scanInProgress, FoundNetworks, networks, scan, heard, app, list>>
    BY <1>6 DEF WiFiDeinitialize
  <2>3. Scans'
    BY <1>1, <2>1, <2>2 DEF Scans, Scanned, Counted, ScanListWhole
  <2> QED
    BY <1>4, <2>1, <2>2, <2>3, HalvesNext
<1> QED
  BY <1>2, <1>3, <1>5, <1>6

(* Running what was posted first keeps the order of the rest.              *)
LEMMA TakeKeepsOrder ==
    ASSUME AccessPoint, NEW c \in {"start", "stop"}, Taken(c),
           netifUp' = (c = "start"), UNCHANGED <<accessPointRunning, lost>>
    PROVE  /\ mailbox' \in Seq({"start", "stop"}) /\ Len(mailbox') <= TCPIP_MBOX_SIZE
           /\ Posted'
           /\ lost = 0 => (c = "start" <=> ~netifUp)
<1> DEFINE n == Len(mailbox)
<1>1. /\ mailbox \in Seq({"start", "stop"}) /\ mailbox # <<>> /\ n <= TCPIP_MBOX_SIZE
      /\ mailbox' = Tail(mailbox) /\ TCPIP_MBOX_SIZE \in Nat
      /\ accessPointRunning \in BOOLEAN
  BY MailboxAssumption DEF AccessPoint, Taken
<1>2. n \in Nat /\ n > 0
  BY <1>1
<1>3. /\ mailbox' \in Seq({"start", "stop"}) /\ Len(mailbox') = n - 1
      /\ \A i \in 1 .. n - 1 : mailbox'[i] = mailbox[i + 1]
  BY <1>1, HeadTailProperties
<1>4. mailbox[1] = c
  BY DEF Taken
<1>5. \A i \in 1 .. n : mailbox[i] \in {"start", "stop"}
  BY <1>1, ElementOfSeq
<1>6. mailbox' = <<>> <=> n = 1
  BY <1>2, <1>3
<1>7. lost = 0 => /\ mailbox[1] = "start" <=> ~netifUp
                  /\ mailbox[n] = "start" <=> accessPointRunning
                  /\ \A i \in 1 .. n - 1 : mailbox[i] # mailbox[i + 1]
  BY <1>1 DEF AccessPoint, Posted
<1> HIDE DEF n
<1>8. Posted'
  <2> SUFFICES ASSUME lost = 0
               PROVE  /\ n = 1 => (accessPointRunning <=> netifUp')
                      /\ n > 1 =>
                          /\ mailbox'[1] = "start" <=> ~netifUp'
                          /\ mailbox'[n - 1] = "start" <=> accessPointRunning
                      /\ \A i \in 1 .. (n - 1) - 1 : mailbox'[i] # mailbox'[i + 1]
    BY <1>2, <1>3, <1>6 DEF Posted
  <2>1. CASE n = 1
    <3>1. 1 .. (n - 1) - 1 = {} /\ ~(n > 1)
      BY <2>1
    <3>2. c = "start" <=> accessPointRunning
      BY <1>4, <1>7, <2>1
    <3>3. accessPointRunning <=> netifUp'
      BY <3>2, Zenon
    <3> QED
      BY <3>1, <3>3
  <2>2. CASE n > 1
    <3>1. /\ 1 \in 1 .. n - 1 /\ n - 1 \in 1 .. n - 1 /\ 1 + 1 = 2 /\ (n - 1) + 1 = n
          /\ 2 \in 1 .. n
      BY <1>2, <2>2
    <3>2. mailbox'[1] = mailbox[2] /\ mailbox'[n - 1] = mailbox[n]
      BY <1>3, <3>1
    <3>3. mailbox[1] # mailbox[2] /\ mailbox[2] \in {"start", "stop"}
      BY <1>5, <1>7, <3>1
    <3>4. ASSUME NEW i \in 1 .. (n - 1) - 1 PROVE mailbox'[i] # mailbox'[i + 1]
      <4>1. i \in 1 .. n - 1 /\ i + 1 \in 1 .. n - 1
        BY <1>2
      <4>2. mailbox'[i] = mailbox[i + 1] /\ mailbox'[i + 1] = mailbox[(i + 1) + 1]
        BY <1>3, <4>1
      <4> QED
        BY <1>7, <4>1, <4>2
    <3> QED
      BY <1>4, <1>7, <2>2, <3>2, <3>3, <3>4
  <2> QED
    BY <1>2, <2>1, <2>2
<1>9. Len(mailbox') <= TCPIP_MBOX_SIZE
  BY <1>1, <1>2, <1>3 DEF n
<1> QED
  BY <1>3, <1>4, <1>7, <1>8, <1>9

LEMMA StartIInv ==
    ASSUME IInv, StartAccessPointDhcpDns
    PROVE  IInv'
<1>1. AccessPoint /\ Scans
  BY Halves
<1>2. /\ Taken("start") /\ netifUp' = ("start" = "start")
      /\ UNCHANGED <<wifiInitialized, accessPointRunning, lost>>
      /\ UNCHANGED <<scanning, app, list>>
      /\ udp' \in [Servers -> {"null"} \cup Kinds]
      /\ leaked' = [s \in Servers |-> leaked[s] \cup ({udp[s]} \ {"null"})]
      /\ reply' = NoReply
  BY DEF StartAccessPointDhcpDns
<1>3. /\ mailbox' \in Seq({"start", "stop"}) /\ Len(mailbox') <= TCPIP_MBOX_SIZE
      /\ Posted' /\ (lost = 0 => ~netifUp)
  BY <1>1, <1>2, TakeKeepsOrder
<1>4. leaked' \in [Servers -> SUBSET Kinds]
  BY <1>1, <1>2 DEF AccessPoint
<1>5. netifUp' /\ netifUp' \in BOOLEAN
  BY <1>2
<1>6. Sockets'
  BY <1>1, <1>2, <1>3, <1>5 DEF AccessPoint, Sockets
<1>7. Replied' /\ reply' \in ReplyType
  BY <1>2, NoReplyType DEF Replied
<1>8. AccessPoint'
  BY <1>1, <1>2, <1>3, <1>4, <1>5, <1>6, <1>7 DEF AccessPoint, ReplyType
<1> QED
  BY <1>1, <1>2, <1>8, ScansKept, HalvesNext

LEMMA StopIInv ==
    ASSUME IInv, StopAccessPointDhcp
    PROVE  IInv'
<1>1. AccessPoint /\ Scans
  BY Halves
<1>2. /\ Taken("stop") /\ netifUp' = ("stop" = "start")
      /\ UNCHANGED <<wifiInitialized, accessPointRunning, lost, leaked>>
      /\ UNCHANGED <<scanning, app, list>>
      /\ udp' = [s \in Servers |-> "null"]
      /\ reply' = NoReply
  BY DEF StopAccessPointDhcp
<1>3. /\ mailbox' \in Seq({"start", "stop"}) /\ Len(mailbox') <= TCPIP_MBOX_SIZE
      /\ Posted'
  BY <1>1, <1>2, TakeKeepsOrder
<1>4. netifUp' \in BOOLEAN /\ udp' \in [Servers -> {"null"} \cup Kinds]
  BY <1>2
<1>5. Sockets'
  BY <1>1, <1>2 DEF AccessPoint, Sockets
<1>6. Replied' /\ reply' \in ReplyType
  BY <1>2, NoReplyType DEF Replied
<1>7. AccessPoint'
  BY <1>1, <1>2, <1>3, <1>4, <1>5, <1>6 DEF AccessPoint, ReplyType
<1> QED
  BY <1>1, <1>2, <1>7, ScansKept, HalvesNext

LEMMA DnsQueryIInv ==
    ASSUME IInv, DnsQuery
    PROVE  IInv'
<1>1. AccessPoint /\ Scans
  BY Halves
<1>2. PICK q \in Queries : Answered(q) /\ reply' = [query |-> q, length |-> ReplyLength(q)]
  BY DEF DnsQuery
<1>3. /\ UNCHANGED <<wifiInitialized, accessPointRunning, mailbox, lost, netifUp, udp, leaked>>
      /\ UNCHANGED <<scanning, app, list>>
  BY DEF DnsQuery, posts
<1>4. ReplyLength(q) \in 0 .. MAX_DNS_MSG_SIZE
  BY <1>2, QueryAssumption, ReplyFits DEF QueryType
<1>5. Replied' /\ reply' \in ReplyType
  BY <1>2, <1>4 DEF Replied, ReplyType
<1>6. AccessPoint'
  BY <1>1, <1>3, <1>5 DEF AccessPoint, Posted, Sockets, ReplyType
<1> QED
  BY <1>1, <1>3, <1>6, ScansKept, HalvesNext

-----------------------------------------------------------------------------
(* Scans.                                                                  *)

(* The driver adds an entry only while it scans, and so to no list.        *)
LEMMA DriverIInv ==
    ASSUME IInv, Driver
    PROVE  IInv'
<1>1. AccessPoint /\ Scans
  BY Halves
<1>2. /\ UNCHANGED <<wifiInitialized, accessPointRunning, posts, servers>>
      /\ UNCHANGED <<scanInProgress, scan, app, list>> /\ active
  BY DEF Driver, ScanResultReceived, ScanEnds
<1>3. AccessPoint'
  BY <1>1, <1>2, AccessPointKept DEF AccessPoint
<1>4. app.pc \notin {"copy", "returned"}
  BY <1>1, <1>2 DEF Scans, Counted, ScanListWhole
<1>5. CASE ScanEnds
  <2>1. active' \in BOOLEAN
    BY <1>5 DEF ScanEnds
  <2>2. Scans'
    BY <1>1, <1>5, <2>1 DEF ScanEnds, Scans, Scanned, Counted, ScanListWhole
  <2> QED
    BY <1>3, <2>2, HalvesNext
<1>6. CASE ScanResultReceived
  <2>1. /\ SCAN_MAX_NETWORKS \in Nat \ {0} /\ MaxHeard \in Nat /\ MaxScans \in Nat
        /\ heard \in 0 .. MaxHeard /\ scan \in 0 .. MaxScans
        /\ networks \in [Entries -> 0 .. MaxScans]
        /\ FoundNetworks = Lesser(heard, SCAN_MAX_NETWORKS)
        /\ FoundNetworks \in 0 .. SCAN_MAX_NETWORKS
        /\ \A i \in 1 .. FoundNetworks : networks[i] = scan
        /\ scanInProgress
    BY <1>1, <1>2, ScanAssumption DEF Scans, Scanned
  <2>2. heard < MaxHeard /\ heard' = heard + 1 /\ active' = active
    BY <1>6 DEF ScanResultReceived
  <2>3. heard' \in 0 .. MaxHeard /\ heard' \in Nat
    BY <2>1, <2>2
  <2>4. /\ networks' \in [Entries -> 0 .. MaxScans]
        /\ FoundNetworks' = Lesser(heard', SCAN_MAX_NETWORKS)
        /\ FoundNetworks' \in 0 .. SCAN_MAX_NETWORKS
        /\ \A i \in 1 .. FoundNetworks' : networks'[i] = scan
    <3>1. CASE FoundNetworks < SCAN_MAX_NETWORKS
      <4>1. /\ FoundNetworks' = FoundNetworks + 1
            /\ networks' = [networks EXCEPT ![FoundNetworks'] = scan]
        BY <1>6, <3>1 DEF ScanResultReceived
      <4>2. heard = FoundNetworks
        BY <2>1, <3>1 DEF Lesser
      <4>3. FoundNetworks' \in Entries /\ FoundNetworks' = Lesser(heard', SCAN_MAX_NETWORKS)
        BY <2>1, <2>2, <3>1, <4>1, <4>2 DEF Entries, Lesser
      <4>4. networks' \in [Entries -> 0 .. MaxScans] /\ networks'[FoundNetworks'] = scan
        BY <2>1, <4>1, <4>3
      <4>5. ASSUME NEW i \in 1 .. FoundNetworks' PROVE networks'[i] = scan
        <5>1. CASE i = FoundNetworks'
          BY <4>4, <5>1
        <5>2. CASE i # FoundNetworks'
          <6>1. i \in 1 .. FoundNetworks /\ i \in Entries
            BY <2>1, <4>1, <5>2 DEF Entries
          <6> QED
            BY <2>1, <4>1, <5>2, <6>1
        <5> QED
          BY <5>1, <5>2
      <4> QED
        BY <2>1, <4>3, <4>4, <4>5 DEF Entries
    <3>2. CASE ~(FoundNetworks < SCAN_MAX_NETWORKS)
      <4>1. FoundNetworks' = FoundNetworks /\ networks' = networks
        BY <1>6, <3>2 DEF ScanResultReceived
      <4>2. FoundNetworks = Lesser(heard', SCAN_MAX_NETWORKS)
        BY <2>1, <2>2, <3>2 DEF Lesser
      <4> QED
        BY <2>1, <4>1, <4>2
    <3> QED
      BY <3>1, <3>2
  <2>5. Scanned' /\ Counted' /\ ScanListWhole'
    BY <1>2, <1>4, <2>1, <2>4 DEF Scanned, Counted, ScanListWhole
  <2>6. Scans'
    BY <1>1, <1>2, <2>2, <2>3, <2>4, <2>5 DEF Scans
  <2> QED
    BY <1>3, <2>6, HalvesNext
<1> QED
  BY <1>5, <1>6 DEF Driver

(* A scan that starts has found nothing; one that goes on is left alone.   *)
LEMMA ScanStartSound ==
    ASSUME Scans, NEW started \in BOOLEAN, ScanStart(started)
    PROVE  /\ scanInProgress' \in BOOLEAN /\ active' \in BOOLEAN
           /\ FoundNetworks' \in 0 .. SCAN_MAX_NETWORKS
           /\ networks' \in [Entries -> 0 .. MaxScans]
           /\ scan' \in 0 .. MaxScans /\ heard' \in 0 .. MaxHeard
           /\ Scanned'
<1>1. CASE scanInProgress
  BY <1>1 DEF ScanStart, Scans, Scanned, scanning, Entries
<1>2. CASE ~scanInProgress
  <2>1. /\ scan < MaxScans /\ scan' = scan + 1 /\ heard' = 0 /\ FoundNetworks' = 0
        /\ scanInProgress' = started /\ active' = started /\ networks' = networks
    BY <1>2 DEF ScanStart, DriverScan
  <2>2. SCAN_MAX_NETWORKS \in Nat \ {0} /\ MaxHeard \in Nat /\ MaxScans \in Nat
    BY ScanAssumption
  <2>3. /\ scan' \in 0 .. MaxScans /\ heard' \in 0 .. MaxHeard
        /\ FoundNetworks' \in 0 .. SCAN_MAX_NETWORKS
    BY <2>1, <2>2 DEF Scans
  <2>4. Scanned'
    BY <2>1, <2>2 DEF Scanned, Lesser
  <2>5. scanInProgress' \in BOOLEAN /\ active' \in BOOLEAN
    BY <2>1
  <2> QED
    BY <2>1, <2>3, <2>4, <2>5 DEF Scans
<1> QED
  BY <1>1, <1>2

LEMMA ScanStartIInv ==
    ASSUME IInv, WiFiScanStart \/ WiFiScan
    PROVE  IInv'
<1>1. AccessPoint /\ Scans
  BY Halves
<1>2. /\ UNCHANGED <<wifiInitialized, accessPointRunning, posts, servers>>
      /\ list' = list /\ app.pc = "idle"
  BY DEF WiFiScanStart, WiFiScan
<1>3. AccessPoint'
  BY <1>1, <1>2, AccessPointKept DEF AccessPoint
<1>4. \E started \in BOOLEAN : ScanStart(started)
  BY DEF WiFiScanStart, WiFiScan
<1>5. /\ scanInProgress' \in BOOLEAN /\ active' \in BOOLEAN
      /\ FoundNetworks' \in 0 .. SCAN_MAX_NETWORKS
      /\ networks' \in [Entries -> 0 .. MaxScans]
      /\ scan' \in 0 .. MaxScans /\ heard' \in 0 .. MaxHeard
      /\ Scanned'
  BY <1>1, <1>4, ScanStartSound
<1>6. app' \in AppType /\ app'.pc \notin {"copy", "returned"}
  <2>1. CASE WiFiScanStart
    BY <1>1, <1>2, <2>1 DEF WiFiScanStart, Scans
  <2>2. CASE WiFiScan
    <3>1. PICK max \in ArraySizes : app' = [Idle EXCEPT !.pc = "poll", !.max = max]
      BY <2>2 DEF WiFiScan
    <3> QED
      BY <3>1, IdleType DEF AppType
  <2> QED
    BY <2>1, <2>2
<1>7. Counted' /\ ScanListWhole'
  BY <1>6 DEF Counted, ScanListWhole
<1>8. Scans'
  BY <1>1, <1>2, <1>5, <1>6, <1>7 DEF Scans, AppType, Entries
<1> QED
  BY <1>3, <1>8, HalvesNext

(* Whether a scan is over is asked of the driver; the answer changes       *)
(* nothing but the flag.                                                   *)
LEMMA ScanIsCompleteSound ==
    ASSUME Scans, NEW result \in BOOLEAN, ScanIsComplete(result)
    PROVE  /\ scanInProgress' \in BOOLEAN /\ Scanned'
           /\ UNCHANGED <<FoundNetworks, networks, active, scan, heard>>
           /\ result => ~active
<1>1. /\ result = ~(scanInProgress /\ active)
      /\ scanInProgress' = (scanInProgress /\ active)
      /\ UNCHANGED <<FoundNetworks, networks, active, scan, heard>>
  BY DEF ScanIsComplete
<1>2. scanInProgress' \in BOOLEAN
  BY <1>1
<1>3. active => scanInProgress
  BY DEF Scans, Scanned
<1>4. (result => ~active) /\ (active => scanInProgress')
  BY <1>1, <1>3
<1>5. Scanned'
  BY <1>1, <1>4 DEF Scans, Scanned
<1> QED
  BY <1>1, <1>2, <1>4, <1>5

LEMMA CompleteIInv ==
    ASSUME IInv, WiFiScanIsComplete \/ PollWaits
    PROVE  IInv'
<1>1. AccessPoint /\ Scans
  BY Halves
<1>2. /\ UNCHANGED <<wifiInitialized, accessPointRunning, posts, servers>>
      /\ list' = list /\ app.pc \in {"idle", "poll"}
  BY DEF WiFiScanIsComplete, PollWaits
<1>3. AccessPoint'
  BY <1>1, <1>2, AccessPointKept DEF AccessPoint
<1>4. \E result \in BOOLEAN : ScanIsComplete(result)
  BY DEF WiFiScanIsComplete, PollWaits
<1>5. /\ scanInProgress' \in BOOLEAN /\ Scanned'
      /\ UNCHANGED <<FoundNetworks, networks, active, scan, heard>>
  BY <1>1, <1>4, ScanIsCompleteSound
<1>6. app' \in AppType /\ app'.pc \notin {"copy", "returned"}
  <2>1. CASE WiFiScanIsComplete
    BY <1>1, <1>2, <2>1 DEF WiFiScanIsComplete, Scans
  <2>2. CASE PollWaits
    <3>1. app' = IF app.elapsed >= TIMEOUT THEN Idle ELSE [app EXCEPT !.elapsed = @ + 1]
      BY <2>2 DEF PollWaits
    <3>2. app \in AppType /\ app.pc \in {"idle", "poll"} /\ app.elapsed \in 0 .. TIMEOUT
      BY <1>1, <1>2 DEF Scans, AppType
    <3>3. CASE app.elapsed >= TIMEOUT
      BY <3>1, <3>3, IdleType DEF Idle
    <3>4. CASE ~(app.elapsed >= TIMEOUT)
      <4>1. app.elapsed + 1 \in 0 .. TIMEOUT
        BY <3>2, <3>4, ScanAssumption
      <4>2. app' = [app EXCEPT !.elapsed = app.elapsed + 1]
        BY <3>1, <3>4
      <4> QED
        BY <3>2, <4>1, <4>2 DEF AppType
    <3> QED
      BY <3>3, <3>4
  <2> QED
    BY <2>1, <2>2
<1>7. Counted' /\ ScanListWhole'
  BY <1>6 DEF Counted, ScanListWhole
<1>8. Scans'
  BY <1>1, <1>2, <1>5, <1>6, <1>7 DEF Scans, AppType, Entries
<1> QED
  BY <1>3, <1>8, HalvesNext

LEMMA CountIInv ==
    ASSUME IInv, WiFiScanGetResults \/ PollFinds
    PROVE  IInv'
<1>1. AccessPoint /\ Scans
  BY Halves
<1>2. /\ UNCHANGED <<wifiInitialized, accessPointRunning, posts, servers>>
      /\ list' = list
  BY DEF WiFiScanGetResults, PollFinds
<1>3. AccessPoint'
  BY <1>1, <1>2, AccessPointKept DEF AccessPoint
<1>4. PICK max \in ArraySizes \cup {0} :
        /\ ScanIsComplete(TRUE)
        /\ app' = [app EXCEPT !.pc = "copy", !.max = max, !.count = Lesser(FoundNetworks, max)]
  <2>1. app.max \in ArraySizes \cup {0}
    BY <1>1 DEF Scans, AppType
  <2> QED
    BY <2>1 DEF WiFiScanGetResults, PollFinds, ReadCount
<1>5. /\ scanInProgress' \in BOOLEAN /\ Scanned'
      /\ UNCHANGED <<FoundNetworks, networks, active, scan, heard>>
      /\ ~active
  BY <1>1, <1>4, ScanIsCompleteSound
<1>6. max \in Nat /\ FoundNetworks \in 0 .. SCAN_MAX_NETWORKS /\ SCAN_MAX_NETWORKS \in Nat
      /\ app \in AppType
  BY <1>1, ScanAssumption DEF Scans
<1>7. Lesser(FoundNetworks, max) \in 0 .. SCAN_MAX_NETWORKS
  BY <1>6 DEF Lesser
<1>8. /\ app' \in AppType /\ app'.pc = "copy" /\ app'.max = max
      /\ app'.count = Lesser(FoundNetworks, max)
  BY <1>4, <1>6, <1>7 DEF AppType
<1>9. Counted' /\ ScanListWhole'
  BY <1>5, <1>8 DEF Counted, ScanListWhole, Lesser
<1>10. Scans'
  BY <1>1, <1>2, <1>5, <1>8, <1>9 DEF Scans, AppType, Entries
<1> QED
  BY <1>3, <1>10, HalvesNext

(* What is copied is all of one scan, for nothing was added since the      *)
(* count was read.                                                         *)
LEMMA CopyIInv ==
    ASSUME IInv, CopyResults
    PROVE  IInv'
<1>1. AccessPoint /\ Scans
  BY Halves
<1>2. /\ app.pc = "copy" /\ list' = SubSeq(networks, 1, app.count)
      /\ app' = [app EXCEPT !.pc = "returned"]
      /\ UNCHANGED <<wifiInitialized, accessPointRunning, posts, servers>>
      /\ UNCHANGED <<scanInProgress, FoundNetworks, networks, active, scan, heard>>
  BY DEF CopyResults, scanning
<1>3. AccessPoint'
  BY <1>1, <1>2, AccessPointKept DEF AccessPoint
<1>4. /\ app \in AppType /\ app.max \in Nat /\ SCAN_MAX_NETWORKS \in Nat
      /\ networks \in [Entries -> 0 .. MaxScans]
      /\ FoundNetworks \in 0 .. SCAN_MAX_NETWORKS
      /\ FoundNetworks = Lesser(heard, SCAN_MAX_NETWORKS)
      /\ \A i \in 1 .. FoundNetworks : networks[i] = scan
      /\ ~active /\ app.count = Lesser(FoundNetworks, app.max)
  BY <1>1, <1>2, ScanAssumption DEF Scans, Scanned, Counted, AppType
<1> DEFINE n == app.count
<1>5. n \in Nat /\ n \in 0 .. SCAN_MAX_NETWORKS /\ n <= FoundNetworks
  BY <1>4 DEF Lesser
<1> HIDE DEF n
<1>6. \A i \in 1 .. n : networks[i] \in 0 .. MaxScans /\ networks[i] = scan
  <2> SUFFICES ASSUME NEW i \in 1 .. n
               PROVE  networks[i] \in 0 .. MaxScans /\ networks[i] = scan
    OBVIOUS
  <2>1. i \in Entries /\ i \in 1 .. FoundNetworks
    BY <1>4, <1>5 DEF Entries
  <2> QED
    BY <1>4, <2>1
<1>7. /\ list' \in Seq(0 .. MaxScans) /\ Len(list') = n
      /\ \A i \in 1 .. n : list'[i] = scan
  <2> DEFINE s == SubSeq(networks, 1, n)
  <2>1. \A i \in 1 .. n : networks[i] \in 0 .. MaxScans
    BY <1>6
  <2>2. /\ s \in Seq(0 .. MaxScans)
        /\ Len(s) = IF 1 <= n THEN n - 1 + 1 ELSE 0
        /\ \A i \in 1 .. n - 1 + 1 : s[i] = networks[1 + i - 1]
    BY <1>5, <2>1, SubSeqProperties
  <2>3. Len(s) = n /\ n - 1 + 1 = n
    BY <1>5, <2>2
  <2>4. ASSUME NEW i \in 1 .. n PROVE s[i] = scan
    <3>1. 1 + i - 1 = i
      BY <1>5
    <3> QED
      BY <1>6, <2>2, <2>3, <3>1
  <2>5. list' = s
    BY <1>2 DEF n
  <2> HIDE DEF s
  <2> QED
    BY <2>2, <2>3, <2>4, <2>5
<1>8. app' \in AppType /\ app'.pc = "returned" /\ app'.max = app.max
  BY <1>2, <1>4 DEF AppType
<1>9. ScanListWhole'
  BY <1>2, <1>4, <1>7, <1>8 DEF ScanListWhole, n
<1>10. Counted' /\ Scanned'
  BY <1>1, <1>2, <1>8 DEF Scans, Counted, Scanned
<1>11. Scans'
  BY <1>1, <1>2, <1>7, <1>8, <1>9, <1>10 DEF Scans, AppType, Entries
<1> QED
  BY <1>3, <1>11, HalvesNext

(* Steps of the application that touch neither scan nor access point.      *)
LEMMA QuietIInv ==
    ASSUME IInv, ResultsUsed \/ WiFiStationConnect \/ StationPoll
    PROVE  IInv'
<1>1. AccessPoint /\ Scans
  BY Halves
<1>2. /\ UNCHANGED <<wifiInitialized, accessPointRunning, posts, servers>>
      /\ UNCHANGED <<scanInProgress, FoundNetworks, networks, active, scan, heard>>
  BY DEF ResultsUsed, WiFiStationConnect, StationPoll, scanning
<1>3. AccessPoint'
  BY <1>1, <1>2, AccessPointKept DEF AccessPoint
<1>4. list' \in Seq(0 .. MaxScans)
  <2>1. list' = <<>> \/ list' = list
    BY DEF ResultsUsed, WiFiStationConnect, StationPoll
  <2>2. list \in Seq(0 .. MaxScans) /\ <<>> \in Seq(0 .. MaxScans)
    BY <1>1 DEF Scans
  <2> QED
    BY <2>1, <2>2
<1>5. app' \in AppType /\ app'.pc \in {"idle", "join"}
  <2>1. CASE app' = Idle
    BY <2>1, IdleType DEF Idle
  <2>2. CASE app' = [Idle EXCEPT !.pc = "join"]
    BY <2>2, IdleType DEF AppType
  <2>3. CASE app.pc = "join" /\ app.elapsed < TIMEOUT /\ app' = [app EXCEPT !.elapsed = @ + 1]
    <3>1. app \in AppType /\ app.elapsed \in 0 .. TIMEOUT
      BY <1>1 DEF Scans, AppType
    <3>2. app.elapsed + 1 \in 0 .. TIMEOUT
      BY <2>3, <3>1, ScanAssumption
    <3>3. app' = [app EXCEPT !.elapsed = app.elapsed + 1]
      BY <2>3
    <3> QED
      BY <2>3, <3>1, <3>2, <3>3 DEF AppType
  <2> QED
    BY <2>1, <2>2, <2>3 DEF ResultsUsed, WiFiStationConnect, StationPoll
<1>6. Counted' /\ ScanListWhole'
  BY <1>5 DEF Counted, ScanListWhole
<1>7. Scanned'
  BY <1>1, <1>2 DEF Scans, Scanned
<1>8. Scans'
  BY <1>1, <1>2, <1>4, <1>5, <1>6, <1>7 DEF Scans, AppType, Entries
<1> QED
  BY <1>3, <1>8, HalvesNext

LEMMA Inductive == IInv /\ [Next]_vars => IInv'
<1> SUFFICES ASSUME IInv, [Next]_vars PROVE IInv'
  OBVIOUS
<1>1. CASE UNCHANGED vars
  <2>1. AccessPoint /\ Scans
    BY Halves
  <2>2. /\ wifiInitialized' \in BOOLEAN
        /\ UNCHANGED <<accessPointRunning, posts, servers>>
        /\ UNCHANGED <<scanning, app, list>>
    BY <1>1, <2>1 DEF vars, AccessPoint
  <2> QED
    BY <2>1, <2>2, AccessPointKept, ScansKept, HalvesNext
<1>2. CASE Next
  BY <1>2, ApplicationSteps, StartIInv, StopIInv, DnsQueryIInv, DriverIInv, ScanStartIInv,
     CompleteIInv, CountIInv, CopyIInv, QuietIInv
     DEF Next, App, AppInCall, TcpipTask
<1> QED
  BY <1>1, <1>2

LEMMA Invariant == Spec => []IInv
  BY InitIInv, Inductive, PTL DEF Spec

-----------------------------------------------------------------------------
(* Every state is one the module's types allow: a scan reports no entry    *)
(* beyond scanNetworks, and the mailbox never holds more than its length.  *)
THEOREM TypesCorrect == Spec => []TypeOK
<1>1. IInv => TypeOK
  BY DEF IInv
<1> QED
  BY <1>1, Invariant, PTL

(* Once the TCP/IP task has caught up, the servers are what the            *)
(* application asked for last, in whatever order it started and stopped.   *)
THEOREM ServersFollow == Spec => []ServersFollowAccessPoint
<1>1. IInv => ServersFollowAccessPoint
  BY DEF IInv, Posted, Sockets, ServersFollowAccessPoint, Silent
<1> QED
  BY <1>1, Invariant, PTL

(* No start of the access point's servers overwrites a socket in use.      *)
THEOREM SocketsNeverLeak == Spec => []NoSocketLeaked
<1>1. IInv => NoSocketLeaked
  BY DEF IInv, Sockets, NoSocketLeaked
<1> QED
  BY <1>1, Invariant, PTL

(* The list WiFiScan and WiFiScanGetResults hand out is that of one scan.  *)
THEOREM ScanListsWhole == Spec => []ScanListWhole
<1>1. IInv => ScanListWhole
  BY DEF IInv
<1> QED
  BY <1>1, Invariant, PTL

(* Whatever names are asked for, the DNS server's reply fits its buffer,   *)
(* and it answers every well formed question directly behind it.           *)
THEOREM DnsRepliesFit == Spec => []DnsReplyFits
<1>1. \A q \in Queries : q \in QueryType
  BY QueryAssumption DEF QueryType
<1>2. \A q \in Queries : WellFormed(q) =>
            /\ Answered(q)
            /\ ReplyLength(q) = Terminator(q) + 1 + TYPE_AND_CLASS + ANSWER
  BY <1>1, WellFormedAnswered
<1>3. IInv => DnsReplyFits
  <2> SUFFICES ASSUME IInv PROVE DnsReplyFits
    OBVIOUS
  <2>1. reply.length <= MAX_DNS_MSG_SIZE
    <3>1. reply \in ReplyType
      BY DEF IInv, TypeOK, ReplyType
    <3>2. reply.length \in 0 .. MAX_DNS_MSG_SIZE
      BY <3>1 DEF ReplyType
    <3> QED
      BY <3>2 DEF MAX_DNS_MSG_SIZE
  <2>2. WellFormed(reply.query) =>
            reply.length = Terminator(reply.query) + 1 + TYPE_AND_CLASS + ANSWER
    BY <1>2 DEF IInv, Replied, NoReply, NoQuery, WellFormed
  <2> QED
    BY <1>2, <2>1, <2>2 DEF DnsReplyFits
<1> QED
  BY <1>3, Invariant, PTL

=============================================================================
