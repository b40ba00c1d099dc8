----------------------------- MODULE DhcpServer -----------------------------
(***************************************************************************)
(* The lease table of the RP2040 access point's DHCP server                *)
(* (src/src/lib/Platform/RP2040/dhcpserver.c).                             *)
(*                                                                         *)
(* dhcp_server_process runs to completion for each datagram on the lwIP    *)
(* task, so a datagram is one action.  The stations are the environment:   *)
(* any of them may send a DISCOVER, or a REQUEST for any address, at any   *)
(* time, which covers lost, late, duplicated and reordered datagrams.      *)
(* A datagram the code ignores changes nothing and is no step.             *)
(***************************************************************************)
EXTENDS Integers

CONSTANTS
    Clients,        \* the stations' hardware addresses (chaddr)
    NoMac,          \* the all-zero address that marks an unused slot
    MAX_IP,         \* DHCPS_MAX_IP
    BASE_IP,        \* DHCPS_BASE_IP
    RequestBytes,   \* last bytes of the addresses REQUESTs ask for
    GRAIN,          \* 2^16: milliseconds per unit of the stored expiry
    GRAINS,         \* 2^16: number of values of the stored expiry
    LEASE,          \* DEFAULT_LEASE_TIME_S * 1000
    MaxNow          \* bound on the time a behaviour covers

Slots == 0 .. MAX_IP - 1
NoSlot == MAX_IP            \* the loop's "no address yet" value of yi
CLOCK == GRAIN * GRAINS     \* cyw43_hal_ticks_ms() counts modulo 2^32
Never == -1                 \* no ACK was sent for this station and slot

ASSUME MacAssumption == NoMac \notin Clients
ASSUME PoolAssumption ==
    /\ MAX_IP \in Nat \ {0}
    /\ BASE_IP \in Nat
    /\ RequestBytes \subseteq 0 .. 255
ASSUME ClockAssumption ==
    /\ GRAIN \in Nat \ {0}
    /\ GRAINS \in Nat \ {0}
    /\ LEASE \in Nat \ {0}
    /\ MaxNow \in Nat
ASSUME HalfRangeAssumption == 2 * (LEASE + GRAIN) <= CLOCK

VARIABLES
    now,        \* milliseconds since boot, never wrapping
    running,    \* the UDP socket exists and is bound
    lease,      \* d->lease
    offered,    \* slot of the last OFFER sent to each station
    granted     \* end of the last lease ACKed to a station on a slot,
                \* since the table was last initialised

vars == <<now, running, lease, offered, granted>>

Entry == [mac : Clients \cup {NoMac}, expiry : 0 .. GRAINS - 1]

TypeOK ==
    /\ now \in Nat
    /\ running \in BOOLEAN
    /\ lease \in [Slots -> Entry]
    /\ offered \in [Clients -> Slots \cup {NoSlot}]
    /\ granted \in [Clients \X Slots -> Nat \cup {Never}]

-----------------------------------------------------------------------------
(* Time.  A stored expiry is the upper half of a 32-bit tick count; it is  *)
(* read back rounded up to the end of its grain, and compared as a signed  *)
(* 32-bit difference.                                                      *)

Ticks == now % CLOCK

Bug_Stamp(t) == t % CLOCK       \* the shift by 16 forgotten

Stamp(t) == (t % CLOCK) \div GRAIN

Bug_RoundedUp(stamp) == stamp * GRAIN       \* the "| 0xffff" forgotten

RoundedUp(stamp) == stamp * GRAIN + (GRAIN - 1)

(* Deadline and clock compared as unsigned numbers.                        *)
Bug_Expired(s) == RoundedUp(lease[s].expiry) < Ticks

Expired(s) ==
    2 * ((RoundedUp(lease[s].expiry) - Ticks) % CLOCK) >= CLOCK

-----------------------------------------------------------------------------
ZeroedTable == [s \in Slots |-> [mac |-> NoMac, expiry |-> 0]]
NoOffers == [c \in Clients |-> NoSlot]
NoGrants == [g \in Clients \X Slots |-> Never]

Init ==
    /\ now = 0
    /\ running = FALSE
    /\ lease = ZeroedTable
    /\ offered = NoOffers
    /\ granted = NoGrants

Tick ==
    /\ now < MaxNow
    /\ now' = now + 1
    /\ UNCHANGED <<running, lease, offered, granted>>

(* dhcp_server_init.  The table is cleared before the socket is created,   *)
(* and a failed socket only leaves the server deaf.                        *)
StartServer ==
    /\ ~running
    /\ running' \in BOOLEAN
    /\ lease' = ZeroedTable
    /\ offered' = NoOffers
    /\ granted' = NoGrants
    /\ UNCHANGED now

(* dhcp_server_deinit. *)
StopServer ==
    /\ running
    /\ running' = FALSE
    /\ UNCHANGED <<now, lease, offered, granted>>

-----------------------------------------------------------------------------
IsFirst(s, S) == s \in S /\ \A r \in S : s <= r

OwnSlots(c) == {s \in Slots : lease[s].mac = c}

(* The slots the loop of DHCPDISCOVER examines: a match of the station's   *)
(* own address ends it.                                                    *)
Scanned(c) == {s \in Slots : \A own \in OwnSlots(c) : s < own}

Available(c) == {s \in Scanned(c) : lease[s].mac = NoMac \/ Expired(s)}

(* The first available slot is cleared even when the station's own slot    *)
(* comes later and is the one offered.                                     *)
Reclaimed(c) ==
    [s \in Slots |-> IF IsFirst(s, Available(c))
                     THEN [lease[s] EXCEPT !.mac = NoMac]
                     ELSE lease[s]]

Choices(c) == IF OwnSlots(c) # {} THEN OwnSlots(c) ELSE Available(c)

(* The slot a DISCOVER of the station is answered with, if any.            *)
Offers(c) == {yi \in Slots : IsFirst(yi, Choices(c))}

(* case DHCPDISCOVER: nothing is reserved for the station the offer is     *)
(* made to.                                                                *)
Discover(c) ==
    /\ running
    /\ \E yi \in Offers(c) : offered' = [offered EXCEPT ![c] = yi]
    /\ lease' = Reclaimed(c)
    /\ UNCHANGED <<now, running, granted>>

SlotOf(byte) == (byte - BASE_IP) % 256      \* uint8_t yi

(* case DHCPREQUEST: renews, or takes an unused slot; an expired slot of   *)
(* another station is refused like a live one.                             *)
Request(c, byte) ==
    LET yi == SlotOf(byte)
    IN  /\ running
        /\ yi < MAX_IP
        /\ lease[yi].mac \in {c, NoMac}
        /\ lease' = [lease EXCEPT ![yi] =
                        [mac |-> c, expiry |-> Stamp(now + LEASE)]]
        /\ granted' = [granted EXCEPT ![<<c, yi>>] = now + LEASE]
        /\ UNCHANGED <<now, running, offered>>

Next ==
    \/ Tick
    \/ StartServer
    \/ StopServer
    \/ \E c \in Clients : Discover(c)
    \/ \E c \in Clients, byte \in RequestBytes : Request(c, byte)

Spec == Init /\ [][Next]_vars

-----------------------------------------------------------------------------
(* Properties.                                                             *)

Live(c, s) == granted[<<c, s>>] >= now

(* No two stations may use one address at the same time: while the lease   *)
(* ACKed to one runs, the address is ACKed to no other, whatever datagrams *)
(* arrive, in whatever order, and however often the clock has wrapped.     *)
UniqueAddress ==
    \A c, d \in Clients, s \in Slots : Live(c, s) /\ Live(d, s) => c = d

(* Whenever a DISCOVER arrives, a first one or a retry that repeats the    *)
(* slot of an earlier OFFER, it is not answered with the address of        *)
(* another station's running lease: the scan skips a slot that was ACKed   *)
(* to another station meanwhile, and reclaims nothing early although it    *)
(* only keeps the upper 16 bits of a deadline.                             *)
OfferAvoidsLive ==
    \A c, d \in Clients : c # d => \A yi \in Offers(c) : ~Live(d, yi)

(* A lease that ran out a grain ago is seen as expired until half of the   *)
(* clock's range has passed: rounding loses at most one grain, and the     *)
(* signed comparison stays right across the wrap of the tick counter.      *)
LapsedIsExpired ==
    \A c \in Clients, s \in Slots :
        /\ lease[s].mac = c
        /\ granted[<<c, s>>] + GRAIN <= now
        /\ 2 * (now - granted[<<c, s>>]) <= CLOCK
        => Expired(s)

=============================================================================
