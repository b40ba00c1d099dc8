-------------------------- MODULE DhcpServer_proofs --------------------------
(***************************************************************************)
(* Proofs about the DHCP lease table, for every number of stations and     *)
(* slots and every clock whose range is at least twice a lease and a       *)
(* grain.                                                                  *)
(***************************************************************************)
EXTENDS DhcpServer, TLAPS

-----------------------------------------------------------------------------
(* Arithmetic of the tick counter.                                         *)

(* Division with remainder, as the tick counter and its upper half use it. *)
LEMMA DivMod ==
    ASSUME NEW x \in Int, NEW m \in Nat \ {0}
    PROVE  /\ x \div m \in Int
           /\ x % m \in 0 .. m - 1
           /\ x = m * (x \div m) + (x % m)
  OBVIOUS

(* A remainder is the only value of the range that differs from the        *)
(* dividend by a multiple of the modulus.                                  *)
LEMMA ModUnique ==
    ASSUME NEW x \in Int, NEW m \in Nat \ {0}, NEW k \in Int, NEW r \in 0 .. m - 1,
           x = m * k + r
    PROVE  x % m = r
<1> DEFINE q == x \div m
           s == x % m
<1>1. q \in Int /\ s \in 0 .. m - 1 /\ x = m * q + s
  BY DivMod
<1> HIDE DEF q, s
<1>2. m * (k - q) = s - r
  BY <1>1
<1>3. k - q \in Int /\ s - r < m /\ r - s < m
  BY <1>1
<1>4. CASE k - q >= 1
  <2>1. m * (k - q) >= m
    BY <1>3, <1>4
  <2> QED
    BY <1>2, <1>3, <2>1
<1>5. CASE k - q <= -1
  <2>1. m * (k - q) <= -m
    BY <1>3, <1>5
  <2>2. s - r <= -m
    BY <1>2, <2>1
  <2> QED
    BY <1>1, <1>3, <2>2
<1>6. CASE k - q = 0
  <2>1. s = r
    BY <1>1, <1>2, <1>6
  <2> QED
    BY <2>1 DEF s
<1> QED
  BY <1>3, <1>4, <1>5, <1>6

LEMMA ClockPositive == CLOCK \in Nat \ {0}
<1>1. GRAIN * GRAINS \in Nat
  BY ClockAssumption
<1>2. GRAIN * GRAINS # 0
  BY ClockAssumption
<1> QED
  BY <1>1, <1>2 DEF CLOCK

(* The stored expiry fits in its 16 bits.                                  *)
LEMMA StampRange ==
    ASSUME NEW t \in Nat
    PROVE  Stamp(t) \in 0 .. GRAINS - 1
<1> DEFINE r == t % CLOCK
           a == r \div GRAIN
<1>1. r \in 0 .. CLOCK - 1
  BY ClockPositive, DivMod
<1> HIDE DEF r
<1>2. /\ a \in Int
      /\ r % GRAIN \in 0 .. GRAIN - 1
      /\ r = GRAIN * a + (r % GRAIN)
  BY <1>1, ClockAssumption, DivMod, ClockPositive
<1> HIDE DEF a
<1> DEFINE b == r % GRAIN
<1>2a. b \in 0 .. GRAIN - 1 /\ r = GRAIN * a + b /\ a \in Int
  BY <1>2
<1> HIDE DEF b
<1>3. a >= 0
  <2>1. CASE a <= -1
    <3>1. GRAIN * a <= -GRAIN
      BY <2>1, <1>2a, ClockAssumption
    <3> QED
      BY <3>1, <1>1, <1>2a, ClockAssumption, ClockPositive
  <2> QED
    BY <2>1, <1>2a
<1>4. a < GRAINS
  <2>1. CASE a >= GRAINS
    <3>1. GRAIN * a >= GRAIN * GRAINS
      BY <2>1, <1>2a, ClockAssumption
    <3> QED
      BY <3>1, <1>1, <1>2a, ClockAssumption, ClockPositive DEF CLOCK
  <2> QED
    BY <2>1, <1>2a, ClockAssumption
<1>5. a \in 0 .. GRAINS - 1
  BY <1>2a, <1>3, <1>4, ClockAssumption
<1> QED
  BY <1>5 DEF Stamp, a, r

(* The deadline read back from the stored expiry of a lease that ends at g *)
(* is, as a difference to the time n, g - n plus less than a grain, up to  *)
(* multiples of the clock's range.                                         *)
LEMMA DeadlineDifference ==
    ASSUME NEW g \in Nat, NEW n \in Nat
    PROVE  \E k \in Int, up \in 0 .. GRAIN - 1 :
               RoundedUp(Stamp(g)) - (n % CLOCK) = CLOCK * k + (g - n + up)
<1> DEFINE r == g % CLOCK
           qg == g \div CLOCK
           qn == n \div CLOCK
           tn == n % CLOCK
<1>1. r \in 0 .. CLOCK - 1 /\ qg \in Int /\ g = CLOCK * qg + r
  BY ClockPositive, DivMod
<1>2. tn \in 0 .. CLOCK - 1 /\ qn \in Int /\ n = CLOCK * qn + tn
  BY ClockPositive, DivMod
<1>s. Stamp(g) = r \div GRAIN
  BY DEF Stamp
<1> HIDE DEF r, qg, qn, tn
<1> DEFINE a == r \div GRAIN
           b == r % GRAIN
<1>3. a \in Int /\ b \in 0 .. GRAIN - 1 /\ r = GRAIN * a + b
  BY <1>1, ClockAssumption, DivMod, ClockPositive
<1> HIDE DEF a, b
<1>4. RoundedUp(Stamp(g)) = a * GRAIN + (GRAIN - 1)
  BY <1>s DEF RoundedUp, a
<1>5. a * GRAIN = r - b
  BY <1>1, <1>3, ClockAssumption, ClockPositive
<1>6. RoundedUp(Stamp(g)) = (g - CLOCK * qg) - b + (GRAIN - 1)
  BY <1>1, <1>3, <1>4, <1>5, ClockAssumption, ClockPositive
<1>7. RoundedUp(Stamp(g)) - tn = CLOCK * (qn - qg) + (g - n + (GRAIN - 1 - b))
  BY <1>1, <1>2, <1>3, <1>6, ClockAssumption, ClockPositive
<1>8. qn - qg \in Int /\ GRAIN - 1 - b \in 0 .. GRAIN - 1
  BY <1>1, <1>2, <1>3, ClockAssumption
<1> QED
  BY <1>7, <1>8 DEF tn

(* A lease is not taken for expired before it has run out, whatever the    *)
(* number of times the tick counter has wrapped in between.                *)
LEMMA NeverEarly ==
    ASSUME NEW g \in Nat, NEW n \in Nat, n <= g, g <= n + LEASE
    PROVE  /\ (RoundedUp(Stamp(g)) - (n % CLOCK)) % CLOCK \in Int
           /\ 2 * ((RoundedUp(Stamp(g)) - (n % CLOCK)) % CLOCK) < CLOCK
<1>1. PICK k \in Int, up \in 0 .. GRAIN - 1 :
          RoundedUp(Stamp(g)) - (n % CLOCK) = CLOCK * k + (g - n + up)
  BY DeadlineDifference
<1>2. /\ RoundedUp(Stamp(g)) - (n % CLOCK) \in Int
      /\ g - n + up \in 0 .. CLOCK - 1
      /\ 2 * (g - n + up) < CLOCK
  BY <1>1, ClockAssumption, HalfRangeAssumption, ClockPositive
<1>3. (RoundedUp(Stamp(g)) - (n % CLOCK)) % CLOCK = g - n + up
  BY <1>1, <1>2, ClockPositive, ModUnique
<1> QED
  BY <1>2, <1>3

(* A lease that ran out at least a grain and at most half of the range ago *)
(* is taken for expired.                                                   *)
LEMMA NeverLate ==
    ASSUME NEW g \in Nat, NEW n \in Nat, g + GRAIN <= n, 2 * (n - g) <= CLOCK
    PROVE  2 * ((RoundedUp(Stamp(g)) - (n % CLOCK)) % CLOCK) >= CLOCK
<1>1. PICK k \in Int, up \in 0 .. GRAIN - 1 :
          RoundedUp(Stamp(g)) - (n % CLOCK) = CLOCK * k + (g - n + up)
  BY DeadlineDifference
<1>2. CLOCK * k = CLOCK * (k - 1) + CLOCK
  BY ClockPositive
<1>3. /\ RoundedUp(Stamp(g)) - (n % CLOCK) \in Int
      /\ k - 1 \in Int
      /\ RoundedUp(Stamp(g)) - (n % CLOCK) = CLOCK * (k - 1) + (CLOCK + g - n + up)
      /\ CLOCK + g - n + up \in 0 .. CLOCK - 1
      /\ 2 * (CLOCK + g - n + up) >= CLOCK
  BY <1>1, <1>2, ClockAssumption, ClockPositive
<1>4. (RoundedUp(Stamp(g)) - (n % CLOCK)) % CLOCK = CLOCK + g - n + up
  BY <1>3, ClockPositive, ModUnique
<1> QED
  BY <1>3, <1>4

-----------------------------------------------------------------------------
(* The lease table.                                                        *)

(* Every reachable state is well typed: in particular an accepted REQUEST  *)
(* indexes the table inside its bounds, even though the slot is computed   *)
(* in eight bits, and the stored expiry fits in sixteen.                   *)
THEOREM TypeCorrect == Spec => []TypeOK
<1>1. Init => TypeOK
  <2>1. 0 \in 0 .. GRAINS - 1
    BY ClockAssumption
  <2>2. ZeroedTable \in [Slots -> Entry]
    BY <2>1 DEF ZeroedTable, Entry
  <2>3. FALSE \in BOOLEAN /\ 0 \in Nat
    OBVIOUS
  <2>4. NoOffers \in [Clients -> Slots \cup {NoSlot}]
    BY DEF NoOffers
  <2>5. NoGrants \in [Clients \X Slots -> Nat \cup {Never}]
    BY DEF NoGrants
  <2> QED
    BY <2>2, <2>3, <2>4, <2>5 DEF Init, TypeOK
<1>2. TypeOK /\ [Next]_vars => TypeOK'
  <2> SUFFICES ASSUME TypeOK, [Next]_vars PROVE TypeOK'
    OBVIOUS
  <2>1. CASE Tick
    BY <2>1 DEF Tick, TypeOK
  <2>2. CASE StartServer
    <3>1. ZeroedTable \in [Slots -> Entry]
      BY ClockAssumption DEF ZeroedTable, Entry
    <3> QED
      BY <2>2, <3>1 DEF StartServer, TypeOK, NoOffers, NoGrants
  <2>3. CASE StopServer
    BY <2>3 DEF StopServer, TypeOK
  <2>4. ASSUME NEW c \in Clients, Discover(c) PROVE TypeOK'
    <3>1. Reclaimed(c) \in [Slots -> Entry]
      BY DEF Reclaimed, TypeOK, Entry
    <3> QED
      BY <2>4, <3>1 DEF Discover, Offers, TypeOK
  <2>5. ASSUME NEW c \in Clients, NEW byte \in RequestBytes, Request(c, byte)
        PROVE  TypeOK'
    <3>1. SlotOf(byte) \in Slots
      BY <2>5, PoolAssumption DEF Request, SlotOf, Slots
    <3>2. now + LEASE \in Nat
      BY ClockAssumption DEF TypeOK
    <3>3. [mac |-> c, expiry |-> Stamp(now + LEASE)] \in Entry
      BY <3>2, StampRange DEF Entry
    <3> QED
      BY <2>5, <3>1, <3>2, <3>3 DEF Request, TypeOK
  <2>6. CASE UNCHANGED vars
    BY <2>6 DEF vars, TypeOK
  <2> QED
    BY <2>1, <2>2, <2>3, <2>4, <2>5, <2>6 DEF Next
<1> QED
  BY <1>1, <1>2, PTL DEF Spec

(* What an entry of the table says of the station whose address it holds.  *)
RecordsGrant ==
    \A c \in Clients, s \in Slots :
        lease[s].mac = c => /\ granted[<<c, s>>] \in Nat
                            /\ lease[s].expiry = Stamp(granted[<<c, s>>])

GrantBounded ==
    \A c \in Clients, s \in Slots : granted[<<c, s>>] <= now + LEASE

LiveIsRecorded ==
    \A c \in Clients, s \in Slots : Live(c, s) => lease[s].mac = c

(* The inductive invariant: a running lease keeps its entry, and the entry *)
(* keeps the stamp of the lease's end, so that it is not reclaimed.        *)
IInv == TypeOK /\ RecordsGrant /\ GrantBounded /\ LiveIsRecorded

(* The entry of a running lease is not available to another station.       *)
LEMMA LiveNotAvailable ==
    ASSUME IInv, NEW c \in Clients, NEW d \in Clients, NEW s \in Slots,
           Live(d, s)
    PROVE  s \notin Available(c)
<1>1. lease[s].mac = d /\ granted[<<d, s>>] \in Nat /\ now \in Nat
  BY DEF IInv, LiveIsRecorded, RecordsGrant, TypeOK
<1>2. lease[s].expiry = Stamp(granted[<<d, s>>])
  BY <1>1 DEF IInv, RecordsGrant
<1>3. now <= granted[<<d, s>>] /\ granted[<<d, s>>] <= now + LEASE
  BY DEF IInv, GrantBounded, Live
<1>4. /\ (RoundedUp(lease[s].expiry) - Ticks) % CLOCK \in Int
      /\ 2 * ((RoundedUp(lease[s].expiry) - Ticks) % CLOCK) < CLOCK
  BY <1>1, <1>2, <1>3, NeverEarly DEF Ticks
<1>5. ~Expired(s)
  BY <1>4, ClockPositive DEF Expired
<1>6. lease[s].mac # NoMac
  BY <1>1, MacAssumption
<1> QED
  BY <1>5, <1>6 DEF Available

-----------------------------------------------------------------------------
(* The inductive invariant holds of every reachable state.                 *)
THEOREM Inductive == Spec => []IInv
<1>1. Init => RecordsGrant /\ GrantBounded /\ LiveIsRecorded
  <2> SUFFICES ASSUME Init, NEW c \in Clients, NEW s \in Slots
               PROVE  /\ lease[s].mac # c
                      /\ granted[<<c, s>>] <= now + LEASE
                      /\ ~Live(c, s)
    BY DEF RecordsGrant, GrantBounded, LiveIsRecorded
  <2>1. lease[s].mac = NoMac /\ granted[<<c, s>>] = -1 /\ now = 0
    BY DEF Init, ZeroedTable, NoGrants, Never
  <2> QED
    BY <2>1, MacAssumption, ClockAssumption DEF Live
<1>2. TypeOK /\ TypeOK' /\ IInv /\ [Next]_vars
      => (RecordsGrant /\ GrantBounded /\ LiveIsRecorded)'
  <2> SUFFICES ASSUME TypeOK, TypeOK', IInv, [Next]_vars,
                      NEW c \in Clients, NEW s \in Slots
               PROVE  /\ lease'[s].mac = c =>
                          /\ granted'[<<c, s>>] \in Nat
                          /\ lease'[s].expiry = Stamp(granted'[<<c, s>>])
                      /\ granted'[<<c, s>>] <= now' + LEASE
                      /\ Live(c, s)' => lease'[s].mac = c
    BY DEF RecordsGrant, GrantBounded, LiveIsRecorded
  <2> DEFINE g == granted[<<c, s>>]
  <2>0. /\ now \in Nat /\ LEASE \in Nat
        /\ g \in Nat \cup {-1}
        /\ g <= now + LEASE
        /\ lease[s].mac = c => g \in Nat /\ lease[s].expiry = Stamp(g)
        /\ now <= g => lease[s].mac = c
    BY ClockAssumption DEF IInv, TypeOK, RecordsGrant, GrantBounded, LiveIsRecorded, Live, Never
  <2>1. CASE Tick
    <3>1. lease' = lease /\ granted' = granted /\ now' = now + 1
      BY <2>1 DEF Tick
    <3> QED
      BY <3>1, <2>0 DEF Live
  <2>2. CASE StartServer
    <3>1. lease'[s].mac = NoMac /\ granted'[<<c, s>>] = -1 /\ now' = now
      BY <2>2 DEF StartServer, ZeroedTable, NoGrants, Never
    <3> QED
      BY <3>1, <2>0, MacAssumption DEF Live
  <2>3. CASE StopServer
    <3>1. lease' = lease /\ granted' = granted /\ now' = now
      BY <2>3 DEF StopServer
    <3> QED
      BY <3>1, <2>0 DEF Live
  <2>4. ASSUME NEW d \in Clients, Discover(d)
        PROVE  /\ lease'[s].mac = c =>
                      /\ granted'[<<c, s>>] \in Nat
                      /\ lease'[s].expiry = Stamp(granted'[<<c, s>>])
               /\ granted'[<<c, s>>] <= now' + LEASE
               /\ Live(c, s)' => lease'[s].mac = c
    <3>1. lease' = Reclaimed(d) /\ granted' = granted /\ now' = now
      BY <2>4 DEF Discover
    <3>2. lease'[s].mac \in {lease[s].mac, NoMac} /\ lease'[s].expiry = lease[s].expiry
      BY <3>1 DEF Reclaimed, TypeOK, Entry
    <3>3. Live(c, s) => lease'[s] = lease[s]
      BY <3>1, LiveNotAvailable DEF Reclaimed, IsFirst
    <3> QED
      BY <3>1, <3>2, <3>3, <2>0, MacAssumption DEF Live
  <2>5. ASSUME NEW d \in Clients, NEW byte \in RequestBytes, Request(d, byte)
        PROVE  /\ lease'[s].mac = c =>
                      /\ granted'[<<c, s>>] \in Nat
                      /\ lease'[s].expiry = Stamp(granted'[<<c, s>>])
               /\ granted'[<<c, s>>] <= now' + LEASE
               /\ Live(c, s)' => lease'[s].mac = c
    <3> DEFINE yi == SlotOf(byte)
    <3>1. yi \in Slots
      BY <2>5, PoolAssumption DEF Request, SlotOf, Slots
    <3>2. /\ now' = now
          /\ lease[yi].mac \in {d, NoMac}
          /\ lease' = [lease EXCEPT ![yi] = [mac |-> d, expiry |-> Stamp(now + LEASE)]]
          /\ granted' = [granted EXCEPT ![<<d, yi>>] = now + LEASE]
      BY <2>5 DEF Request
    <3> HIDE DEF yi
    <3>3. CASE s # yi
      <4>1. lease'[s] = lease[s] /\ granted'[<<c, s>>] = g
        BY <3>1, <3>2, <3>3 DEF TypeOK
      <4> QED
        BY <4>1, <3>2, <2>0 DEF Live
    <3>4. CASE s = yi /\ c = d
      <4>1. /\ lease'[s] = [mac |-> c, expiry |-> Stamp(now + LEASE)]
            /\ granted'[<<c, s>>] = now + LEASE
        BY <3>1, <3>2, <3>4 DEF TypeOK
      <4> QED
        BY <4>1, <3>2, <2>0
    <3>5. CASE s = yi /\ c # d
      <4>1. lease'[s].mac = d /\ granted'[<<c, s>>] = g
        BY <3>1, <3>2, <3>5 DEF TypeOK
      <4>2. lease[s].mac # c
        BY <3>2, <3>5, MacAssumption
      <4> QED
        BY <4>1, <4>2, <3>2, <3>5, <2>0 DEF Live
    <3> QED
      BY <3>3, <3>4, <3>5
  <2>6. CASE UNCHANGED vars
    <3>1. lease' = lease /\ granted' = granted /\ now' = now
      BY <2>6 DEF vars
    <3> QED
      BY <3>1, <2>0 DEF Live
  <2> QED
    BY <2>1, <2>2, <2>3, <2>4, <2>5, <2>6 DEF Next
<1> QED
  BY <1>1, <1>2, TypeCorrect, PTL DEF Spec, IInv

(* UniqueAddress holds of every reachable state: the entry of a slot names *)
(* one station, and every running lease is recorded in its entry.          *)
THEOREM AddressesAreUnique == Spec => []UniqueAddress
<1>1. IInv => UniqueAddress
  BY DEF IInv, LiveIsRecorded, UniqueAddress
<1> QED
  BY <1>1, Inductive, PTL

(* LapsedIsExpired holds of every reachable state: the entry's stamp is    *)
(* that of the grant, and NeverLate applies to it.                         *)
THEOREM LapsedAreExpired == Spec => []LapsedIsExpired
<1>1. IInv => LapsedIsExpired
  <2> SUFFICES ASSUME IInv, NEW c \in Clients, NEW s \in Slots,
                      lease[s].mac = c,
                      granted[<<c, s>>] + GRAIN <= now,
                      2 * (now - granted[<<c, s>>]) <= CLOCK
               PROVE  Expired(s)
    BY DEF LapsedIsExpired
  <2>1. /\ granted[<<c, s>>] \in Nat
        /\ lease[s].expiry = Stamp(granted[<<c, s>>])
        /\ now \in Nat
    BY DEF IInv, RecordsGrant, TypeOK
  <2>2. 2 * ((RoundedUp(lease[s].expiry) - Ticks) % CLOCK) >= CLOCK
    BY <2>1, NeverLate DEF Ticks
  <2> QED
    BY <2>2 DEF Expired
<1> QED
  BY <1>1, Inductive, PTL

(* OfferAvoidsLive holds of every reachable state: a DISCOVER is answered  *)
(* with the station's own slot or with an available one, and a running     *)
(* lease of another station is neither.                                    *)
THEOREM OffersAvoidLive == Spec => []OfferAvoidsLive
<1>1. IInv => OfferAvoidsLive
  <2> SUFFICES ASSUME IInv, NEW c \in Clients, NEW d \in Clients, c # d,
                      NEW yi \in Offers(c), Live(d, yi)
               PROVE  FALSE
    BY DEF OfferAvoidsLive
  <2>1. yi \in Slots /\ yi \in Choices(c)
    BY DEF Offers, IsFirst
  <2>2. lease[yi].mac = d
    BY <2>1 DEF IInv, LiveIsRecorded
  <2>3. yi \notin OwnSlots(c)
    BY <2>2 DEF OwnSlots
  <2>4. yi \in Available(c)
    BY <2>1, <2>3 DEF Choices
  <2> QED
    BY <2>1, <2>4, LiveNotAvailable
<1> QED
  BY <1>1, Inductive, PTL
=============================================================================
