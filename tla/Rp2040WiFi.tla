----------------------------- MODULE Rp2040WiFi -----------------------------
(***************************************************************************)
(* Scanning, the access point and the station on the RP2040                *)
(* (src/src/lib/Platform/RP2040/WiFi.c).  Three actors meet here: the      *)
(* application's task, which calls the API; the TCP/IP task, which runs    *)
(* the callbacks posted to its mailbox and answers DNS queries; and the    *)
(* radio driver, which reports scan results into scanNetworks while a scan *)
(* is active, and the state of the station's link.                         *)
(***************************************************************************)
EXTENDS Integers, Sequences, DnsServer

CONSTANTS
    SCAN_MAX_NETWORKS,  \* size of scanNetworks
    ArraySizes,         \* sizes of the arrays callers of WiFiScan own
    TIMEOUT,            \* polls until WiFiScan or WiFiStationConnect gives up
    Queries,            \* DNS queries of the access point's stations
    TCPIP_MBOX_SIZE,    \* length of the TCP/IP task's mailbox
    MaxScans,           \* bound on the scans a behaviour covers
    MaxHeard,           \* bound on the results the driver reports of one scan
    MaxLost             \* bound on the posts the TCP/IP task has no room for

ASSUME ScanAssumption ==
    /\ SCAN_MAX_NETWORKS \in Nat \ {0}
    /\ ArraySizes \subseteq Nat \ {0}
    /\ TIMEOUT \in Nat /\ MaxScans \in Nat /\ MaxHeard \in Nat
ASSUME QueryAssumption ==
    Queries \subseteq [standard : BOOLEAN, labels : Seq(Nat \ {0}), size : Nat]
ASSUME MailboxAssumption == TCPIP_MBOX_SIZE \in Nat \ {0} /\ MaxLost \in Nat

VARIABLES
    wifiInitialized, accessPointRunning,
    mailbox,            \* callbacks posted with tcpip_callback, not run yet
    lost,               \* posts refused: the result of tcpip_callback is not looked at
    netifUp,            \* the access point's interface, as lwIP sees it
    udp,                \* dhcpServer.udp and dnsServer.udp
    leaked,             \* kinds of UDP sockets no pointer reaches any more
    reply,              \* of the servers of now: the last DNS query and its reply
    scanInProgress,
    FoundNetworks,      \* of scanTarget
    networks,           \* scanNetworks: the scan each entry was reported by
    active,             \* cyw43_wifi_scan_active
    scan, heard,        \* number of the last scan asked for, its results so far
    app,                \* the application task: the call it is in
    list                \* what WiFiScanGetResults handed to the caller

servers == <<netifUp, udp, leaked, reply>>
posts == <<mailbox, lost>>
scanning == <<scanInProgress, FoundNetworks, networks, active, scan, heard>>
vars == <<wifiInitialized, accessPointRunning, posts, servers, scanning, app, list>>

Servers == {"dhcp", "dns"}
Kinds == {"deaf", "serving"}        \* of UDP sockets: without the port, with it
Entries == 1 .. SCAN_MAX_NETWORKS

NoQuery == [standard |-> FALSE, labels |-> <<>>, size |-> 0]
NoReply == [query |-> NoQuery, length |-> 0]

TypeOK ==
    /\ wifiInitialized \in BOOLEAN /\ accessPointRunning \in BOOLEAN
    /\ mailbox \in Seq({"start", "stop"}) /\ Len(mailbox) <= TCPIP_MBOX_SIZE
    /\ lost \in 0 .. MaxLost
    /\ netifUp \in BOOLEAN
    /\ udp \in [Servers -> {"null"} \cup Kinds]
    /\ leaked \in [Servers -> SUBSET Kinds]
    /\ reply \in [query : Queries \cup {NoQuery}, length : 0 .. MAX_DNS_MSG_SIZE]
    /\ scanInProgress \in BOOLEAN /\ active \in BOOLEAN
    /\ FoundNetworks \in 0 .. SCAN_MAX_NETWORKS
    /\ networks \in [Entries -> 0 .. MaxScans]
    /\ scan \in 0 .. MaxScans /\ heard \in 0 .. MaxHeard
    /\ app \in [pc : {"idle", "poll", "copy", "returned", "join"}, elapsed : 0 .. TIMEOUT,
                max : ArraySizes \cup {0}, count : 0 .. SCAN_MAX_NETWORKS]
    /\ list \in Seq(0 .. MaxScans)

Idle == [pc |-> "idle", elapsed |-> 0, max |-> 0, count |-> 0]

Init ==
    /\ wifiInitialized = FALSE /\ accessPointRunning = FALSE
    /\ mailbox = <<>> /\ lost = 0
    /\ netifUp = FALSE
    /\ udp = [s \in Servers |-> "null"]
    /\ leaked = [s \in Servers |-> {}]
    /\ reply = NoReply
    /\ scanInProgress = FALSE /\ active = FALSE
    /\ FoundNetworks = 0
    /\ networks = [i \in Entries |-> 0]
    /\ scan = 0 /\ heard = 0
    /\ app = Idle
    /\ list = <<>>

-----------------------------------------------------------------------------
(* The access point, on the application's task.                            *)

(* tcpip_callback waits for room in the mailbox; without memory for the    *)
(* message it fails.                                                       *)
Post(callback) ==
    \/ /\ Len(mailbox) < TCPIP_MBOX_SIZE
       /\ mailbox' = Append(mailbox, callback)
       /\ UNCHANGED lost
    \/ /\ lost < MaxLost
       /\ lost' = lost + 1
       /\ UNCHANGED mailbox

(* No look at accessPointRunning.                                          *)
Bug_WiFiAccessPointStart ==
    /\ app.pc = "idle"
    /\ wifiInitialized
    /\ Post("start")
    /\ accessPointRunning' = TRUE
    /\ UNCHANGED <<wifiInitialized, servers, scanning, app, list>>

WiFiAccessPointStart ==
    /\ app.pc = "idle"
    /\ wifiInitialized /\ ~accessPointRunning
    /\ Post("start")
    /\ accessPointRunning' = TRUE
    /\ UNCHANGED <<wifiInitialized, servers, scanning, app, list>>

(* The servers are stopped where the caller is, ahead of what was posted.  *)
Bug_StopAccessPoint ==
    IF accessPointRunning
    THEN /\ mailbox' = <<"stop">> \o mailbox
         /\ accessPointRunning' = FALSE
         /\ UNCHANGED lost
    ELSE UNCHANGED <<accessPointRunning, posts>>

(* The body of WiFiAccessPointStop.                                        *)
StopAccessPoint ==
    IF accessPointRunning
    THEN Post("stop") /\ accessPointRunning' = FALSE
    ELSE UNCHANGED <<accessPointRunning, posts>>

WiFiAccessPointStop ==
    /\ app.pc = "idle"
    /\ accessPointRunning
    /\ StopAccessPoint
    /\ UNCHANGED <<wifiInitialized, servers, scanning, app, list>>

WiFiInitialize ==
    /\ app.pc = "idle"
    /\ ~wifiInitialized
    /\ wifiInitialized' = TRUE
    /\ UNCHANGED <<accessPointRunning, posts, servers, scanning, app, list>>

(* cyw43_arch_deinit powers the radio down: a scan ends with it.           *)
WiFiDeinitialize ==
    /\ app.pc = "idle"
    /\ wifiInitialized
    /\ StopAccessPoint
    /\ active' = FALSE
    /\ wifiInitialized' = FALSE
    /\ UNCHANGED <<servers, scanInProgress, FoundNetworks, networks, scan, heard, app, list>>

-----------------------------------------------------------------------------
(* The callbacks, on the TCP/IP task.                                      *)

Taken(callback) == mailbox # <<>> /\ Head(mailbox) = callback /\ mailbox' = Tail(mailbox)

(* dhcp_server_init or dns_server_init overwrites the pointer: the socket  *)
(* may not be had, and stays deaf when the port cannot be bound, as while  *)
(* an earlier socket still holds it.                                       *)
MayOpen(s, u) == u = "serving" => udp[s] # "serving" /\ "serving" \notin leaked[s]

StartAccessPointDhcpDns ==
    /\ Taken("start")
    /\ netifUp' = TRUE
    /\ udp' \in [Servers -> {"null"} \cup Kinds]
    /\ \A s \in Servers : MayOpen(s, udp'[s])
    /\ leaked' = [s \in Servers |-> leaked[s] \cup ({udp[s]} \ {"null"})]
    /\ reply' = NoReply
    /\ UNCHANGED <<wifiInitialized, accessPointRunning, lost, scanning, app, list>>

(* The DNS server left running.                                            *)
Bug_StopAccessPointDhcp ==
    /\ Taken("stop")
    /\ netifUp' = FALSE
    /\ udp' = [udp EXCEPT !["dhcp"] = "null"]
    /\ reply' = NoReply
    /\ UNCHANGED <<wifiInitialized, accessPointRunning, lost, leaked, scanning, app, list>>

StopAccessPointDhcp ==
    /\ Taken("stop")
    /\ netifUp' = FALSE
    /\ udp' = [s \in Servers |-> "null"]
    /\ reply' = NoReply
    /\ UNCHANGED <<wifiInitialized, accessPointRunning, lost, leaked, scanning, app, list>>

TcpipTask == StartAccessPointDhcpDns \/ StopAccessPointDhcp

(* dns_server_process; a query it ignores changes nothing.                 *)
DnsQuery ==
    /\ udp["dns"] = "serving" /\ netifUp
    /\ \E q \in {x \in Queries : Answered(x)} :
        reply' = [query |-> q, length |-> ReplyLength(q)]
    /\ UNCHANGED <<wifiInitialized, accessPointRunning, posts, netifUp, udp, leaked,
                   scanning, app, list>>

-----------------------------------------------------------------------------
(* The driver, while a scan is active.                                     *)

(* No room is looked for in scanNetworks.                                  *)
Bug_ScanResultReceived ==
    /\ active /\ heard < MaxHeard
    /\ heard' = heard + 1
    /\ FoundNetworks' = FoundNetworks + 1
    /\ networks' = [networks EXCEPT ![FoundNetworks'] = scan]
    /\ UNCHANGED <<wifiInitialized, accessPointRunning, posts, servers,
                   scanInProgress, active, scan, app, list>>

ScanResultReceived ==
    /\ active /\ heard < MaxHeard
    /\ heard' = heard + 1
    /\ IF FoundNetworks < SCAN_MAX_NETWORKS
       THEN /\ FoundNetworks' = FoundNetworks + 1
            /\ networks' = [networks EXCEPT ![FoundNetworks'] = scan]
       ELSE UNCHANGED <<FoundNetworks, networks>>
    /\ UNCHANGED <<wifiInitialized, accessPointRunning, posts, servers,
                   scanInProgress, active, scan, app, list>>

ScanEnds ==
    /\ active
    /\ active' = FALSE
    /\ UNCHANGED <<wifiInitialized, accessPointRunning, posts, servers,
                   scanInProgress, FoundNetworks, networks, scan, heard, app, list>>

Driver == ScanResultReceived \/ ScanEnds

-----------------------------------------------------------------------------
(* Scanning, on the application's task.                                    *)

(* cyw43_wifi_scan: a new scan, or a failure to start one.                 *)
DriverScan(started) ==
    /\ scan < MaxScans
    /\ scan' = scan + 1
    /\ heard' = 0
    /\ FoundNetworks' = 0
    /\ scanInProgress' = started /\ active' = started
    /\ UNCHANGED networks

(* WiFiScanStart returns "true" with a scan under way, old or new.         *)
ScanStart(started) ==
    IF scanInProgress
    THEN started /\ UNCHANGED scanning
    ELSE DriverScan(started)

WiFiScanStart ==
    /\ app.pc = "idle"
    /\ wifiInitialized
    /\ \E started \in BOOLEAN : ScanStart(started)
    /\ UNCHANGED <<wifiInitialized, accessPointRunning, posts, servers, app, list>>

(* The radio is not asked whether the scan is over.                        *)
Bug_ScanIsComplete(result) ==
    /\ result
    /\ scanInProgress' = FALSE
    /\ UNCHANGED <<FoundNetworks, networks, active, scan, heard>>

(* WiFiScanIsComplete: the flag is cleared when the driver is found idle.  *)
ScanIsComplete(result) ==
    /\ result = ~(scanInProgress /\ active)
    /\ scanInProgress' = (scanInProgress /\ active)
    /\ UNCHANGED <<FoundNetworks, networks, active, scan, heard>>

WiFiScanIsComplete ==
    /\ app.pc = "idle"
    /\ \E result \in BOOLEAN : ScanIsComplete(result)
    /\ UNCHANGED <<wifiInitialized, accessPointRunning, posts, servers, app, list>>

(* WiFiScanGetResults reads the count and then copies.                     *)
Lesser(a, b) == IF a < b THEN a ELSE b

ReadCount(max) ==
    /\ ScanIsComplete(TRUE)
    /\ app' = [app EXCEPT !.pc = "copy", !.max = max, !.count = Lesser(FoundNetworks, max)]

WiFiScanGetResults ==
    /\ app.pc = "idle"
    /\ \E max \in ArraySizes : ReadCount(max)
    /\ UNCHANGED <<wifiInitialized, accessPointRunning, posts, servers, list>>

CopyResults ==
    /\ app.pc = "copy"
    /\ list' = SubSeq(networks, 1, app.count)
    /\ app' = [app EXCEPT !.pc = "returned"]
    /\ UNCHANGED <<wifiInitialized, accessPointRunning, posts, servers, scanning>>

ResultsUsed ==
    /\ app.pc = "returned"
    /\ list' = <<>>
    /\ app' = Idle
    /\ UNCHANGED <<wifiInitialized, accessPointRunning, posts, servers, scanning>>

(* WiFiScan: starts a scan or joins one, and polls it to its end or to the *)
(* deadline.  A scan it gives up goes on.                                  *)
WiFiScan ==
    /\ app.pc = "idle"
    /\ wifiInitialized
    /\ ScanStart(TRUE)
    /\ \E max \in ArraySizes : app' = [Idle EXCEPT !.pc = "poll", !.max = max]
    /\ UNCHANGED <<wifiInitialized, accessPointRunning, posts, servers, list>>

PollFinds ==
    /\ app.pc = "poll"
    /\ ReadCount(app.max)
    /\ UNCHANGED <<wifiInitialized, accessPointRunning, posts, servers, list>>

(* The deadline is not looked at.                                          *)
Bug_PollWaits ==
    /\ app.pc = "poll"
    /\ ScanIsComplete(FALSE)
    /\ UNCHANGED <<wifiInitialized, accessPointRunning, posts, servers, app, list>>

PollWaits ==
    /\ app.pc = "poll"
    /\ ScanIsComplete(FALSE)
    /\ app' = IF app.elapsed >= TIMEOUT THEN Idle ELSE [app EXCEPT !.elapsed = @ + 1]
    /\ UNCHANGED <<wifiInitialized, accessPointRunning, posts, servers, list>>

-----------------------------------------------------------------------------
(* The station.                                                            *)

(* cyw43_arch_wifi_connect_async; if it fails nothing has changed.  The    *)
(* access point may run.                                                   *)
WiFiStationConnect ==
    /\ app.pc = "idle"
    /\ wifiInitialized
    /\ app' = [Idle EXCEPT !.pc = "join"]
    /\ UNCHANGED <<wifiInitialized, accessPointRunning, posts, servers, scanning, list>>

(* WaitForStationAddress: StationHasAddress at any poll, or at none of     *)
(* them.  An attempt it gives up goes on.                                  *)
StationPoll ==
    /\ app.pc = "join"
    /\ \/ app.elapsed < TIMEOUT /\ app' = [app EXCEPT !.elapsed = @ + 1]
       \/ app' = Idle
    /\ UNCHANGED <<wifiInitialized, accessPointRunning, posts, servers, scanning, list>>

AppInCall == PollFinds \/ PollWaits \/ CopyResults \/ StationPoll

App ==
    \/ WiFiInitialize \/ WiFiDeinitialize
    \/ WiFiAccessPointStart \/ WiFiAccessPointStop
    \/ WiFiScanStart \/ WiFiScanIsComplete \/ WiFiScanGetResults \/ WiFiScan
    \/ ResultsUsed \/ WiFiStationConnect

Next == App \/ AppInCall \/ TcpipTask \/ DnsQuery \/ Driver

Spec == Init /\ [][Next]_vars

(* Both tasks are scheduled; nothing is asked of the radio.                *)
FairSpec == Spec /\ WF_vars(TcpipTask) /\ WF_vars(AppInCall)

-----------------------------------------------------------------------------
(* Properties.                                                             *)

Silent == ~netifUp /\ \A s \in Servers : udp[s] = "null"

(* Whatever starts, stops and radio restarts come one after the other,     *)
(* once the TCP/IP task has caught up the interface is up exactly if the   *)
(* access point is running, and with the access point stopped neither      *)
(* server holds a socket; as long as no post was lost.                     *)
ServersFollowAccessPoint ==
    mailbox = <<>> /\ lost = 0 =>
        IF accessPointRunning THEN netifUp ELSE Silent

(* A server is never started over its own live socket, which nothing could *)
(* close any more and which would keep the port, unless a stop was lost.   *)
NoSocketLeaked == lost = 0 => \A s \in Servers : leaked[s] = {}

(* The list a caller gets is all of one scan, the last one asked for, and  *)
(* that scan is over: no result of an earlier scan is left in it, and the  *)
(* driver adds none between the count and the copy.                        *)
ScanListWhole ==
    app.pc = "returned" =>
        /\ ~active
        /\ Len(list) = Lesser(Lesser(heard, SCAN_MAX_NETWORKS), app.max)
        /\ \A i \in 1 .. Len(list) : list[i] = scan

(* A stopped access point falls silent, unless it is started again or the  *)
(* post of the stop was lost.                                              *)
StopSilencesServers ==
    ~accessPointRunning ~> (Silent \/ accessPointRunning \/ lost > 0)

(* A DNS reply fits the buffer it is written to, whatever its query looks  *)
(* like; every query with one whole question is answered, and the answer   *)
(* stands directly behind the question.                                    *)
DnsReplyFits ==
    /\ reply.length <= MAX_DNS_MSG_SIZE
    /\ \A q \in Queries : WellFormed(q) => Answered(q)
    /\ WellFormed(reply.query) =>
            reply.length = Terminator(reply.query) + 1 + TYPE_AND_CLASS + ANSWER

(* WiFiScan returns even if the radio never reports the end of the scan,   *)
(* and WiFiStationConnect even if no address is ever obtained.             *)
CallsReturn == (app.pc \in {"poll", "join"}) ~> (app.pc \in {"idle", "returned"})

=============================================================================
