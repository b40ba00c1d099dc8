------------------------------ MODULE Esp32WiFi ------------------------------
(***************************************************************************)
(* The access point and the station of the ESP32                           *)
(* (src/src/lib/Platform/ESP32/WiFi.c).  The library is one thread above   *)
(* esp_wifi, whose every call may fail; the link to a network comes and    *)
(* goes by itself while WiFiStationConnect polls for it.                   *)
(*                                                                         *)
(* What ESP-IDF does is external and kept in one record, radio.  The       *)
(* events its driver posts are taken to be handled before the next call.   *)
(***************************************************************************)
EXTENDS Integers

CONSTANTS
    Networks,   \* networks to connect to
    None,       \* no network
    TIMEOUT     \* WIFI_STATION_CONNECT_TIMEOUT / POLL _MILLISECONDS

ASSUME NetworksAssumption == None \notin Networks
ASSUME TimeoutAssumption == TIMEOUT \in Nat \ {0}

VARIABLES
    wifiInitialized, accessPointRunning,
    stationNetif, accessPointNetif,     \* whether they are not NULL
    radio,
    app,        \* WiFiStationConnect: where it is, what it was asked, its polls,
                \* and what it last answered
    earlier,    \* a connection of a call before is still there: one that was
                \* answered true, or that the radio refused to let go of
    stuck       \* the way back to station mode failed

flags == <<wifiInitialized, accessPointRunning>>
netifs == <<stationNetif, accessPointNetif>>
vars == <<flags, netifs, radio, app, earlier, stuck>>

Addresses == {"default", "ours"}    \* 192.168.4.1, WIFI_ACCESS_POINT_ADDRESS

Radio ==
    [driver : BOOLEAN,                      \* initialised and started
     mode : {"none", "STA", "AP"},
     address : Addresses,                   \* of the access point's netif
     dhcps : Addresses \cup {"down"},       \* the gateway its DHCP server hands out
     net : Networks \cup {None},            \* the station's link: to which network,
     link : {"down", "joining", "up"},
     ip : Networks \cup {None}]             \* and whose address it has

Caller == [pc : {"idle", "wait"}, asked : Networks \cup {None},
           waited : 0 .. TIMEOUT, answer : BOOLEAN]

Off == [driver |-> FALSE, mode |-> "none", address |-> "default", dhcps |-> "down",
        net |-> None, link |-> "down", ip |-> None]
Idle == [pc |-> "idle", asked |-> None, waited |-> 0, answer |-> FALSE]

TypeOK ==
    /\ wifiInitialized \in BOOLEAN /\ accessPointRunning \in BOOLEAN
    /\ stationNetif \in BOOLEAN /\ accessPointNetif \in BOOLEAN
    /\ radio \in Radio
    /\ app \in Caller
    /\ earlier \in BOOLEAN /\ stuck \in BOOLEAN

Init ==
    /\ wifiInitialized = FALSE /\ accessPointRunning = FALSE
    /\ stationNetif = FALSE /\ accessPointNetif = FALSE
    /\ radio = Off
    /\ app = Idle
    /\ earlier = FALSE /\ stuck = FALSE

-----------------------------------------------------------------------------
(* Calls of ESP-IDF: what a call, or a sequence of calls up to the first   *)
(* that fails, may make of the radio, and whether it succeeds.             *)
Outcome(r, ok) == [radio |-> r, ok |-> ok]
Call(done, r) == {Outcome(done, TRUE), Outcome(r, FALSE)}
Then(outcomes, Op(_)) ==
    {o \in outcomes : ~o.ok} \cup UNION {Op(o.radio) : o \in {x \in outcomes : x.ok}}

Unlinked(r) == [r EXCEPT !.net = None, !.link = "down", !.ip = None]

(* The interface of the mode left goes down, the one of the mode entered   *)
(* comes up; the DHCP server latches the address its interface has.        *)
InMode(r, m) ==
    IF r.mode = m THEN r
    ELSE [Unlinked(r) EXCEPT !.mode = m, !.dhcps = IF m = "AP" THEN r.address ELSE "down"]

esp_wifi_set_mode(r, m) == Call(InMode(r, m), r)
esp_wifi_deinit(r) == [Off EXCEPT !.address = r.address]

(* A connection under way is kept, or given up for the new one.            *)
esp_wifi_connect(r, net) ==
    LET anew == [r EXCEPT !.net = net, !.link = "joining", !.ip = None]
    IN  Call(anew, r) \cup (IF r.link = "down" THEN {} ELSE {Outcome(r, TRUE)})

-----------------------------------------------------------------------------
(* Bring-up.                                                               *)

(* The driver left initialised when it does not start.                     *)
Bug_StartRadioInStationMode(r) ==
    Then(Call([r EXCEPT !.driver = TRUE], r), LAMBDA i : esp_wifi_set_mode(i, "STA"))

(* esp_wifi_init, esp_wifi_set_mode and esp_wifi_start; if one of the last *)
(* two fails the driver is taken down again.                               *)
StartRadioInStationMode(r) ==
    Then(Call([r EXCEPT !.driver = TRUE], r),
         LAMBDA i : {Outcome(InMode(i, "STA"), TRUE), Outcome(esp_wifi_deinit(i), FALSE)})

(* Before the netif is made a failure changes nothing; without one the     *)
(* library goes on.                                                        *)
WiFiInitialize ==
    /\ app.pc = "idle" /\ ~wifiInitialized
    /\ stationNetif' \in {stationNetif, TRUE}
    /\ \E o \in StartRadioInStationMode(radio) :
        radio' = o.radio /\ wifiInitialized' = o.ok
    /\ UNCHANGED <<accessPointRunning, accessPointNetif, app, earlier, stuck>>

(* esp_wifi_stop and esp_wifi_deinit fail only without a driver.           *)
WiFiDeinitialize ==
    /\ app.pc = "idle" /\ wifiInitialized
    /\ radio' = esp_wifi_deinit(radio)
    /\ accessPointRunning' = FALSE
    /\ wifiInitialized' = FALSE
    /\ earlier' = FALSE /\ stuck' = FALSE
    /\ UNCHANGED <<netifs, app>>

-----------------------------------------------------------------------------
(* The access point.                                                       *)

(* The address changed while the DHCP server runs, which goes on with the  *)
(* one it latched.                                                         *)
Bug_ConfigureAccessPointAddress(r) ==
    {Outcome([r EXCEPT !.address = "ours"], TRUE), Outcome(r, FALSE)}

(* The DHCP server is down while the address changes.  Without the new     *)
(* address it is started with the old one, which may fail unseen.          *)
ConfigureAccessPointAddress(r) ==
    LET stopped == [r EXCEPT !.dhcps = "down"]
        moved == [stopped EXCEPT !.address = "ours"]
    IN  {Outcome(stopped, FALSE), Outcome([stopped EXCEPT !.dhcps = r.address], FALSE)}
        \cup Call([moved EXCEPT !.dhcps = "ours"], moved)

(* set_mode, then set_config and start, which change nothing here, and the *)
(* address.                                                                *)
ApplyAccessPointConfig(r) ==
    Then(Then(esp_wifi_set_mode(r, "AP"), LAMBDA a : Call(a, a)), ConfigureAccessPointAddress)

(* The radio left as it is.                                                *)
Bug_Rollback(r) == {Outcome(r, TRUE)}

(* Back to station mode after a failure; the result is not looked at.      *)
Rollback(r) == esp_wifi_set_mode(r, "STA")

WiFiAccessPointStart ==
    /\ app.pc = "idle" /\ wifiInitialized /\ ~accessPointRunning
    /\ accessPointNetif' \in {accessPointNetif, TRUE}
    /\ IF accessPointNetif'
       THEN \E o \in ApplyAccessPointConfig(radio) :
                IF o.ok
                THEN /\ radio' = o.radio
                     /\ accessPointRunning' = TRUE
                     /\ stuck' = FALSE
                     /\ earlier' = FALSE
                ELSE \E back \in Rollback(o.radio) :
                        /\ radio' = back.radio
                        /\ stuck' = ~back.ok
                        /\ earlier' = (earlier /\ back.radio.link # "down")
                        /\ UNCHANGED accessPointRunning
       ELSE UNCHANGED <<radio, accessPointRunning, earlier, stuck>>
    /\ UNCHANGED <<wifiInitialized, stationNetif, app>>

(* The radio may refuse; then the access point still runs.                 *)
WiFiAccessPointStop ==
    /\ app.pc = "idle" /\ accessPointRunning
    /\ \E o \in esp_wifi_set_mode(radio, "STA") :
        radio' = o.radio /\ accessPointRunning' = ~o.ok
    /\ UNCHANGED <<wifiInitialized, netifs, app, earlier, stuck>>

-----------------------------------------------------------------------------
(* The station.                                                            *)

(* set_mode, set_config and connect.                                       *)
StartStationConnection(r, ssid) ==
    Then(Then(esp_wifi_set_mode(r, "STA"), LAMBDA s : Call(s, s)),
         LAMBDA s : esp_wifi_connect(s, ssid))

(* The running access point is not looked at.                              *)
Bug_MayConnect == wifiInitialized

MayConnect == wifiInitialized /\ ~accessPointRunning

WiFiStationConnect ==
    /\ app.pc = "idle" /\ MayConnect
    /\ \E ssid \in Networks : \E o \in StartStationConnection(radio, ssid) :
        /\ radio' = o.radio
        /\ app' = IF o.ok THEN [Idle EXCEPT !.pc = "wait", !.asked = ssid] ELSE Idle
    /\ earlier' = (earlier /\ radio' = radio)
    /\ stuck' = (stuck /\ radio'.mode = "AP")
    /\ UNCHANGED <<flags, netifs>>

(* Association taken for enough.                                           *)
Bug_StationHasAddress == radio.link = "up"

StationHasAddress == radio.link = "up" /\ stationNetif /\ radio.ip # None

StationFound ==
    /\ app.pc = "wait" /\ app.waited < TIMEOUT
    /\ StationHasAddress
    /\ app' = [Idle EXCEPT !.answer = TRUE]
    /\ earlier' = TRUE
    /\ UNCHANGED <<flags, netifs, radio, stuck>>

(* One poll too many.                                                      *)
Bug_StationPolls ==
    /\ app.pc = "wait"
    /\ app' = [app EXCEPT !.waited = @ + 1]
    /\ UNCHANGED <<flags, netifs, radio, earlier, stuck>>

(* No address yet, or a query of esp_wifi that failed.                     *)
StationPolls ==
    /\ app.pc = "wait" /\ app.waited < TIMEOUT
    /\ app' = [app EXCEPT !.waited = @ + 1]
    /\ UNCHANGED <<flags, netifs, radio, earlier, stuck>>

(* The attempt goes on when nobody waits for it any more.                  *)
Bug_StationTimesOut ==
    /\ app.pc = "wait" /\ app.waited = TIMEOUT
    /\ app' = Idle
    /\ earlier' = FALSE
    /\ UNCHANGED <<flags, netifs, radio, stuck>>

(* esp_wifi_disconnect, whose result is not looked at.                     *)
StationTimesOut ==
    /\ app.pc = "wait" /\ app.waited = TIMEOUT
    /\ \E o \in Call(Unlinked(radio), radio) :
        /\ radio' = o.radio
        /\ earlier' = (~o.ok /\ radio.link # "down")
    /\ app' = Idle
    /\ UNCHANGED <<flags, netifs, stuck>>

Library ==
    \/ WiFiInitialize \/ WiFiDeinitialize
    \/ WiFiAccessPointStart \/ WiFiAccessPointStop
    \/ WiFiStationConnect \/ StationFound \/ StationPolls \/ StationTimesOut

-----------------------------------------------------------------------------
(* The link, in its own time.                                              *)

LinkChange(r) ==
    /\ radio' = r
    /\ earlier' = (earlier /\ r.link # "down")
    /\ UNCHANGED <<flags, netifs, app, stuck>>

Joined == radio.link = "joining" /\ LinkChange([radio EXCEPT !.link = "up"])

AddressObtained ==
    /\ radio.link = "up" /\ stationNetif /\ radio.ip = None
    /\ LinkChange([radio EXCEPT !.ip = radio.net])

LinkLost == radio.link # "down" /\ LinkChange(Unlinked(radio))

Link == Joined \/ AddressObtained \/ LinkLost

Next == Library \/ Link

Spec == Init /\ [][Next]_vars

-----------------------------------------------------------------------------
(* Properties.                                                             *)

(* While the library says the access point runs the radio is in its mode   *)
(* and the DHCP server hands out the library's own address, whatever       *)
(* failed in the starts before and whatever the station was asked.         *)
RunningServes ==
    accessPointRunning => radio.driver /\ radio.mode = "AP" /\ radio.dhcps = "ours"

(* While it says the access point does not run nothing of one is on the    *)
(* air: a start that failed halfway was undone, unless the radio refused   *)
(* that too.                                                               *)
StoppedIsSilent ==
    ~accessPointRunning /\ ~stuck => radio.mode # "AP" /\ radio.dhcps = "down"

(* The driver is up exactly while the library says it is: no failed        *)
(* bring-up leaves half of it behind for the next one to start from.       *)
DriverFollowsFlag == radio.driver = wifiInitialized

(* The answer of WiFiStationConnect holds.  True: the link and the address *)
(* are those of the network asked for, unless a connection of an earlier   *)
(* call was still there, which esp_wifi may keep instead.  False after the *)
(* wait: no attempt is left behind that could join later, when nobody      *)
(* waits for it, unless the radio refused to give it up.                   *)
AnswerHolds ==
    [][app.pc = "wait" /\ app'.pc = "idle" =>
          IF app'.answer
          THEN earlier \/ (radio.net = app.asked /\ radio.ip = app.asked)
          ELSE earlier' \/ radio'.link = "down"]_vars

=============================================================================
