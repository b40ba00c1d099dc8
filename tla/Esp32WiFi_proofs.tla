--------------------------- MODULE Esp32WiFi_proofs ---------------------------
(***************************************************************************)
(* Proofs about the ESP32's access point and station, for every set of     *)
(* networks and every number of polls.                                     *)
(***************************************************************************)
EXTENDS Esp32WiFi, TLAPS

(* What holds of the radio between two calls: a mode exactly while the     *)
(* driver is up, a link in station mode only, a DHCP server in access      *)
(* point mode only, and an address of no network but the link's.           *)
RadioSound(r) ==
    /\ r \in Radio
    /\ r.driver <=> r.mode # "none"
    /\ r.mode # "STA" => r.link = "down"
    /\ r.mode # "AP" => r.dhcps = "down"
    /\ IF r.link = "down" THEN r.net = None /\ r.ip = None
       ELSE r.net \in Networks /\ r.ip \in {None, r.net}

(* What WiFiStationConnect knows of the link.  Nobody waits and no earlier *)
(* connection is there: there is no link that could come up later.  It     *)
(* waits, and no earlier connection is there: the link is the one it asked *)
(* for.                                                                    *)
LinkKnown ==
    /\ earlier => radio.link # "down"
    /\ app.pc = "idle" /\ ~earlier => radio.link = "down"
    /\ app.pc = "wait" => /\ wifiInitialized /\ ~accessPointRunning
                          /\ app.asked \in Networks
    /\ app.pc = "wait" /\ ~earlier => radio.link = "down" \/ radio.net = app.asked

(* The inductive invariant.                                                *)
IInv ==
    /\ TypeOK /\ RunningServes /\ StoppedIsSilent /\ DriverFollowsFlag
    /\ RadioSound(radio) /\ LinkKnown

-----------------------------------------------------------------------------
(* What the calls of ESP-IDF make of the radio.                            *)

(* A mode is entered without a link and, for the station, without a DHCP   *)
(* server.                                                                 *)
LEMMA InModeSound ==
    ASSUME NEW r, RadioSound(r), r.driver, NEW m \in {"STA", "AP"}
    PROVE  /\ RadioSound(InMode(r, m))
           /\ InMode(r, m).mode = m /\ InMode(r, m).driver
           /\ InMode(r, m).link # "down" => InMode(r, m) = r
           /\ InMode(r, m) = r \/ InMode(r, m).link = "down"
  BY DEF RadioSound, Radio, InMode, Unlinked, Addresses

LEMMA ModeOutcomes ==
    ASSUME NEW r, NEW m, NEW o \in esp_wifi_set_mode(r, m)
    PROVE  \/ o.radio = InMode(r, m) /\ o.ok
           \/ o.radio = r /\ ~o.ok
<1>1. o = Outcome(InMode(r, m), TRUE) \/ o = Outcome(r, FALSE)
  BY DEF esp_wifi_set_mode, Call
<1> QED
  BY <1>1 DEF Outcome

(* A link may be let go of in any mode.                                    *)
LEMMA UnlinkedSound ==
    ASSUME NEW r, RadioSound(r)
    PROVE  /\ RadioSound(Unlinked(r)) /\ Unlinked(r).link = "down"
           /\ Unlinked(r).driver = r.driver /\ Unlinked(r).mode = r.mode
           /\ Unlinked(r).dhcps = r.dhcps
<1> DEFINE u == Unlinked(r)
<1>1. r \in Radio /\ u = [r EXCEPT !.net = None, !.link = "down", !.ip = None]
  BY DEF RadioSound, Unlinked
<1>2. /\ u \in Radio
      /\ u.net = None /\ u.link = "down" /\ u.ip = None
      /\ u.driver = r.driver /\ u.mode = r.mode /\ u.dhcps = r.dhcps
  BY <1>1 DEF Radio
<1> HIDE DEF u
<1>3. RadioSound(u)
  BY <1>2 DEF RadioSound
<1> QED
  BY <1>2, <1>3 DEF u

(* A sequence of calls either got past a call, or ended there.             *)
LEMMA StartRadioOutcomes ==
    ASSUME NEW r \in Radio, NEW o \in StartRadioInStationMode(r)
    PROVE  LET i == [r EXCEPT !.driver = TRUE] IN
           \/ o = Outcome(r, FALSE)
           \/ o = Outcome(InMode(i, "STA"), TRUE)
           \/ o = Outcome(esp_wifi_deinit(i), FALSE)
<1> DEFINE i == [r EXCEPT !.driver = TRUE]
<1>1. o \in Then(Call(i, r), LAMBDA x : {Outcome(InMode(x, "STA"), TRUE),
                                         Outcome(esp_wifi_deinit(x), FALSE)})
  BY DEF StartRadioInStationMode
<1> HIDE DEF i
<1>2. \/ o = Outcome(r, FALSE)
      \/ o = Outcome(InMode(i, "STA"), TRUE)
      \/ o = Outcome(esp_wifi_deinit(i), FALSE)
  BY <1>1 DEF Then, Call, Outcome
<1> QED
  BY <1>2 DEF i

LEMMA ApplyOutcomes ==
    ASSUME NEW r, NEW o \in ApplyAccessPointConfig(r)
    PROVE  \/ o = Outcome(r, FALSE)
           \/ o = Outcome(InMode(r, "AP"), FALSE)
           \/ o \in ConfigureAccessPointAddress(InMode(r, "AP"))
  BY DEF ApplyAccessPointConfig, Then, esp_wifi_set_mode, Call, Outcome

LEMMA ConnectOutcomes ==
    ASSUME NEW r, NEW ssid, NEW o \in StartStationConnection(r, ssid)
    PROVE  \/ o = Outcome(r, FALSE)
           \/ o = Outcome(InMode(r, "STA"), FALSE)
           \/ o \in esp_wifi_connect(InMode(r, "STA"), ssid)
  BY DEF StartStationConnection, Then, esp_wifi_set_mode, Call, Outcome

(* From a radio that is off, a bring-up succeeds in station mode or leaves *)
(* it off.                                                                 *)
LEMMA StartRadioSound ==
    ASSUME NEW r, RadioSound(r), ~r.driver, NEW o \in StartRadioInStationMode(r)
    PROVE  /\ RadioSound(o.radio) /\ o.ok \in BOOLEAN
           /\ o.radio.driver = o.ok
           /\ o.radio.mode # "AP" /\ o.radio.link = "down"
<1>1. CASE o = Outcome(r, FALSE)
  BY <1>1 DEF RadioSound, Radio, Outcome
<1>2. CASE o = Outcome(InMode([r EXCEPT !.driver = TRUE], "STA"), TRUE)
  BY <1>2 DEF RadioSound, Radio, Outcome, InMode, Unlinked, Addresses
<1>3. CASE o = Outcome(esp_wifi_deinit([r EXCEPT !.driver = TRUE]), FALSE)
  BY <1>3 DEF RadioSound, Radio, Outcome, esp_wifi_deinit, Off, Addresses
<1> QED
  BY <1>1, <1>2, <1>3, StartRadioOutcomes DEF RadioSound

(* A start of the access point that fails may leave the radio in either    *)
(* mode, but loses a link only with the mode.                              *)
LEMMA ApplySound ==
    ASSUME NEW r, RadioSound(r), r.driver, NEW o \in ApplyAccessPointConfig(r)
    PROVE  /\ RadioSound(o.radio) /\ o.ok \in BOOLEAN /\ o.radio.driver
           /\ o.ok => o.radio.mode = "AP" /\ o.radio.dhcps = "ours"
           /\ o.radio = r \/ o.radio.link = "down"
<1> DEFINE a == InMode(r, "AP")
<1>1. RadioSound(a) /\ a.mode = "AP" /\ a.driver /\ (a = r \/ a.link = "down")
  BY InModeSound
<1> HIDE DEF a
<1>2. CASE o = Outcome(r, FALSE)
  BY <1>2 DEF Outcome
<1>3. CASE o = Outcome(a, FALSE)
  BY <1>1, <1>3 DEF Outcome
<1>4. CASE o \in ConfigureAccessPointAddress(a)
  <2> DEFINE d == [a EXCEPT !.dhcps = "down"]
             m == [d EXCEPT !.address = "ours"]
             b == [d EXCEPT !.dhcps = a.address]
             n == [m EXCEPT !.dhcps = "ours"]
  <2>1. \/ o.radio = d /\ o.ok = FALSE
        \/ o.radio = b /\ o.ok = FALSE
        \/ o.radio = m /\ o.ok = FALSE
        \/ o.radio = n /\ o.ok = TRUE
    <3>1. \/ o = Outcome(d, FALSE) \/ o = Outcome(b, FALSE)
          \/ o = Outcome(m, FALSE) \/ o = Outcome(n, TRUE)
      BY <1>4 DEF ConfigureAccessPointAddress, Call
    <3> HIDE DEF d, b, m, n
    <3> QED
      BY <3>1 DEF Outcome
  <2>2. a \in Radio
    BY <1>1 DEF RadioSound
  <2>3. /\ o.radio \in Radio
        /\ o.radio.driver = a.driver /\ o.radio.mode = a.mode /\ o.radio.net = a.net
        /\ o.radio.link = a.link /\ o.radio.ip = a.ip
        /\ o.ok => o.radio.dhcps = "ours"
    BY <2>1, <2>2 DEF Radio, Addresses
  <2>4. a.link = "down"
    BY <1>1 DEF RadioSound
  <2> QED
    BY <1>1, <2>1, <2>3, <2>4 DEF RadioSound
<1> QED
  BY <1>2, <1>3, <1>4, ApplyOutcomes DEF a

(* A connection asked for anew is the one asked for; without a link before *)
(* there is no other.                                                      *)
LEMMA ConnectSound ==
    ASSUME NEW r, RadioSound(r), r.driver, NEW ssid \in Networks,
           NEW o \in StartStationConnection(r, ssid)
    PROVE  /\ RadioSound(o.radio) /\ o.ok \in BOOLEAN /\ o.radio.driver
           /\ o.radio = r \/ o.radio.mode = "STA"
           /\ o.radio # r \/ r.link = "down" =>
                  IF o.ok THEN o.radio.net = ssid ELSE o.radio.link = "down"
<1> DEFINE s == InMode(r, "STA")
<1>1. RadioSound(s) /\ s.mode = "STA" /\ s.driver /\ (s = r \/ s.link = "down")
  BY InModeSound
<1> HIDE DEF s
<1>2. CASE o = Outcome(r, FALSE)
  BY <1>2 DEF Outcome
<1>3. CASE o = Outcome(s, FALSE)
  BY <1>1, <1>3 DEF Outcome
<1>4. CASE o \in esp_wifi_connect(s, ssid)
  <2>1. \/ o = Outcome([s EXCEPT !.net = ssid, !.link = "joining", !.ip = None], TRUE)
        \/ o = Outcome(s, FALSE)
        \/ o = Outcome(s, TRUE) /\ s.link # "down"
    BY <1>4 DEF esp_wifi_connect, Call
  <2> QED
    <3> DEFINE n == [s EXCEPT !.net = ssid, !.link = "joining", !.ip = None]
    <3>1. s \in Radio
      BY <1>1 DEF RadioSound
    <3>2. /\ n \in Radio
          /\ n.net = ssid /\ n.link = "joining" /\ n.ip = None
          /\ n.driver = s.driver /\ n.mode = s.mode /\ n.dhcps = s.dhcps
      BY <3>1 DEF Radio
    <3> HIDE DEF n
    <3>3. RadioSound(n)
      BY <1>1, <3>2 DEF RadioSound
    <3>4. \/ o.radio = n /\ o.ok = TRUE
          \/ o.radio = s /\ o.ok = FALSE
          \/ o.radio = s /\ o.ok = TRUE /\ s.link # "down"
      BY <2>1 DEF Outcome, n
    <3> QED
      BY <1>1, <3>2, <3>3, <3>4
<1> QED
  BY <1>2, <1>3, <1>4, ConnectOutcomes DEF s

-----------------------------------------------------------------------------
(* The application's side of WiFiStationConnect.                           *)
LEMMA CallerRecords ==
    /\ Idle \in Caller /\ Idle.pc = "idle" /\ Idle.answer = FALSE
    /\ LET found == [Idle EXCEPT !.answer = TRUE]
       IN  found \in Caller /\ found.pc = "idle" /\ found.answer = TRUE
    /\ \A ssid \in Networks :
           LET waiting == [Idle EXCEPT !.pc = "wait", !.asked = ssid]
           IN  waiting \in Caller /\ waiting.pc = "wait" /\ waiting.asked = ssid
<1>1. Idle \in Caller /\ Idle.pc = "idle" /\ Idle.answer = FALSE
  BY TimeoutAssumption DEF Idle, Caller
<1>2. LET found == [Idle EXCEPT !.answer = TRUE]
      IN  found \in Caller /\ found.pc = "idle" /\ found.answer = TRUE
  BY <1>1 DEF Caller
<1>3. ASSUME NEW ssid \in Networks
      PROVE  LET waiting == [Idle EXCEPT !.pc = "wait", !.asked = ssid]
             IN  waiting \in Caller /\ waiting.pc = "wait" /\ waiting.asked = ssid
  BY <1>1 DEF Caller
<1> QED
  BY <1>1, <1>2, <1>3

-----------------------------------------------------------------------------
(* The invariant is inductive.                                             *)

LEMMA InitIInv == Init => IInv
<1> SUFFICES ASSUME Init PROVE IInv
  OBVIOUS
<1>1. TypeOK
  <2>1. Off \in Radio
    BY DEF Off, Radio, Addresses
  <2>2. Idle \in Caller
    BY CallerRecords
  <2> QED
    BY <2>1, <2>2 DEF Init, TypeOK
<1>2. RadioSound(radio)
  BY <1>1 DEF Init, TypeOK, RadioSound, Off
<1>3. RunningServes /\ StoppedIsSilent /\ DriverFollowsFlag
  BY DEF Init, Off, RunningServes, StoppedIsSilent, DriverFollowsFlag
<1>4. LinkKnown
  BY DEF Init, Off, Idle, LinkKnown
<1> QED
  BY <1>1, <1>2, <1>3, <1>4 DEF IInv

LEMMA LibraryIInv == IInv /\ Library => IInv'
<1> SUFFICES ASSUME IInv, Library PROVE IInv'
  OBVIOUS
<1> USE TimeoutAssumption, NetworksAssumption
<1>1. CASE WiFiInitialize
  <2>1. PICK o \in StartRadioInStationMode(radio) : radio' = o.radio /\ wifiInitialized' = o.ok
    BY <1>1 DEF WiFiInitialize
  <2>2. /\ RadioSound(radio') /\ radio'.driver = wifiInitialized'
        /\ wifiInitialized' \in BOOLEAN
        /\ radio'.mode # "AP" /\ radio'.link = "down"
    BY <1>1, <2>1, StartRadioSound DEF WiFiInitialize, IInv, DriverFollowsFlag
  <2>3. ~accessPointRunning
    BY <1>1 DEF WiFiInitialize, IInv, DriverFollowsFlag, RunningServes
  <2> QED
    BY <1>1, <2>2, <2>3 DEF WiFiInitialize, IInv, TypeOK, RadioSound, LinkKnown,
         RunningServes, StoppedIsSilent, DriverFollowsFlag
<1>2. CASE WiFiDeinitialize
  BY <1>2 DEF WiFiDeinitialize, esp_wifi_deinit, netifs, Off, IInv, TypeOK, Radio, Addresses,
         RadioSound, LinkKnown, RunningServes, StoppedIsSilent, DriverFollowsFlag
<1>3. CASE WiFiAccessPointStart
  <2>1. radio.driver /\ RadioSound(radio)
    BY <1>3 DEF WiFiAccessPointStart, IInv, DriverFollowsFlag
  <2>2. CASE ~accessPointNetif'
    BY <1>3, <2>2 DEF WiFiAccessPointStart, IInv, TypeOK, RadioSound, LinkKnown,
         RunningServes, StoppedIsSilent, DriverFollowsFlag
  <2>3. CASE accessPointNetif'
    <3>1. PICK o \in ApplyAccessPointConfig(radio) :
            IF o.ok
            THEN /\ radio' = o.radio
                 /\ accessPointRunning' = TRUE
                 /\ stuck' = FALSE
                 /\ earlier' = FALSE
            ELSE \E back \in Rollback(o.radio) :
                    /\ radio' = back.radio
                    /\ stuck' = ~back.ok
                    /\ earlier' = (earlier /\ back.radio.link # "down")
                    /\ UNCHANGED accessPointRunning
      BY <1>3, <2>3 DEF WiFiAccessPointStart
    <3>2. /\ RadioSound(o.radio) /\ o.ok \in BOOLEAN /\ o.radio.driver
          /\ o.ok => o.radio.mode = "AP" /\ o.radio.dhcps = "ours"
          /\ o.radio = radio \/ o.radio.link = "down"
      BY <2>1, ApplySound
    <3>3. CASE o.ok
      BY <1>3, <3>1, <3>2, <3>3 DEF WiFiAccessPointStart, IInv, TypeOK, RadioSound, LinkKnown,
         RunningServes, StoppedIsSilent, DriverFollowsFlag
    <3>4. CASE ~o.ok
      <4>1. PICK back \in Rollback(o.radio) :
                    /\ radio' = back.radio
                    /\ stuck' = ~back.ok
                    /\ earlier' = (earlier /\ back.radio.link # "down")
                    /\ UNCHANGED accessPointRunning
        BY <3>1, <3>4
      <4>2. \/ radio' = InMode(o.radio, "STA") /\ ~stuck'
            \/ radio' = o.radio /\ stuck'
        BY <4>1, ModeOutcomes DEF Rollback
      <4>a. stuck' \in BOOLEAN
        BY <4>1
      <4>3. /\ RadioSound(radio') /\ radio'.driver
            /\ stuck' \in BOOLEAN /\ (~stuck' => radio'.mode = "STA")
            /\ radio' = radio \/ radio'.link = "down"
        BY <3>2, <4>2, <4>a, InModeSound
      <4> QED
        BY <1>3, <4>1, <4>3 DEF WiFiAccessPointStart, IInv, TypeOK, RadioSound, LinkKnown,
         RunningServes, StoppedIsSilent, DriverFollowsFlag
    <3> QED
      BY <3>2, <3>3, <3>4
  <2> QED
    BY <2>2, <2>3
<1>4. CASE WiFiAccessPointStop
  <2>1. radio.driver /\ radio.mode = "AP" /\ wifiInitialized
    BY <1>4 DEF WiFiAccessPointStop, IInv, RunningServes, DriverFollowsFlag
  <2>a. PICK o \in esp_wifi_set_mode(radio, "STA") :
            radio' = o.radio /\ accessPointRunning' = ~o.ok
    BY <1>4 DEF WiFiAccessPointStop
  <2>2. /\ \/ radio' = InMode(radio, "STA") /\ ~accessPointRunning'
           \/ radio' = radio /\ accessPointRunning'
        /\ accessPointRunning' \in BOOLEAN
    BY <2>a, ModeOutcomes
  <2>3. /\ RadioSound(radio') /\ radio'.driver
        /\ ~accessPointRunning' => radio'.mode = "STA"
        /\ radio' = radio \/ radio'.link = "down"
    BY <2>1, <2>2, InModeSound DEF IInv
  <2> QED
    BY <1>4, <2>2, <2>3 DEF WiFiAccessPointStop, flags, netifs, IInv, TypeOK, RadioSound,
         LinkKnown, RunningServes, StoppedIsSilent, DriverFollowsFlag
<1>5. CASE WiFiStationConnect
  <2>1. PICK ssid \in Networks : \E o \in StartStationConnection(radio, ssid) :
          /\ radio' = o.radio
          /\ app' = IF o.ok THEN [Idle EXCEPT !.pc = "wait", !.asked = ssid] ELSE Idle
    BY <1>5 DEF WiFiStationConnect
  <2>2. PICK o \in StartStationConnection(radio, ssid) :
          /\ radio' = o.radio
          /\ app' = IF o.ok THEN [Idle EXCEPT !.pc = "wait", !.asked = ssid] ELSE Idle
    BY <2>1
  <2>3. radio.driver /\ RadioSound(radio)
    BY <1>5 DEF WiFiStationConnect, MayConnect, IInv, DriverFollowsFlag
  <2>4. /\ RadioSound(radio') /\ o.ok \in BOOLEAN /\ radio'.driver
        /\ radio' = radio \/ radio'.mode = "STA"
        /\ radio' # radio \/ radio.link = "down" =>
               IF o.ok THEN radio'.net = ssid ELSE radio'.link = "down"
    BY <2>2, <2>3, ConnectSound
  <2>5. /\ wifiInitialized /\ ~accessPointRunning /\ app.pc = "idle"
        /\ UNCHANGED <<wifiInitialized, accessPointRunning, stationNetif, accessPointNetif>>
    BY <1>5 DEF WiFiStationConnect, MayConnect, flags, netifs
  <2>6. /\ earlier' \in BOOLEAN /\ (earlier' <=> earlier /\ radio' = radio)
        /\ stuck' \in BOOLEAN /\ (stuck' <=> stuck /\ radio'.mode = "AP")
    BY <1>5 DEF WiFiStationConnect
  <2>7. /\ IF o.ok THEN app'.pc = "wait" /\ app'.asked = ssid ELSE app'.pc = "idle"
        /\ app' \in Caller
    BY <2>2, CallerRecords
  <2>8. TypeOK'
    BY <2>4, <2>5, <2>6, <2>7 DEF IInv, TypeOK, RadioSound
  <2>9. LinkKnown'
    BY <2>4, <2>5, <2>6, <2>7 DEF IInv, LinkKnown
  <2> QED
    BY <2>4, <2>5, <2>6, <2>8, <2>9
       DEF IInv, RadioSound, RunningServes, StoppedIsSilent, DriverFollowsFlag
<1>6. CASE StationFound
  <2>1. UNCHANGED <<wifiInitialized, accessPointRunning, stationNetif, accessPointNetif,
                    radio, stuck>>
    BY <1>6 DEF StationFound, flags, netifs
  <2>a. /\ earlier' = TRUE /\ app'.pc = "idle" /\ radio.link = "up"
        /\ app' \in Caller
    BY <1>6, CallerRecords DEF StationFound, StationHasAddress
  <2>2. TypeOK'
    BY <2>1, <2>a DEF IInv, TypeOK
  <2>3. LinkKnown'
    BY <2>1, <2>a DEF LinkKnown
  <2> QED
    BY <2>1, <2>2, <2>3
       DEF IInv, RadioSound, RunningServes, StoppedIsSilent, DriverFollowsFlag
<1>7. CASE StationPolls
  <2>1. UNCHANGED <<wifiInitialized, accessPointRunning, stationNetif, accessPointNetif,
                    radio, earlier, stuck>>
    BY <1>7 DEF StationPolls, flags, netifs
  <2>2. /\ app'.pc = app.pc /\ app'.asked = app.asked
        /\ app' \in Caller
    BY <1>7 DEF StationPolls, IInv, TypeOK, Caller
  <2> QED
    BY <2>1, <2>2 DEF IInv, TypeOK, LinkKnown, RadioSound, RunningServes, StoppedIsSilent,
         DriverFollowsFlag
<1>8. CASE StationTimesOut
  <2>1. UNCHANGED <<wifiInitialized, accessPointRunning, stationNetif, accessPointNetif, stuck>>
    BY <1>8 DEF StationTimesOut, flags, netifs
  <2>0. PICK o \in Call(Unlinked(radio), radio) :
            radio' = o.radio /\ earlier' = (~o.ok /\ radio.link # "down")
    BY <1>8 DEF StationTimesOut
  <2>o. \/ o.radio = Unlinked(radio) /\ o.ok
        \/ o.radio = radio /\ ~o.ok
    <3>1. o = Outcome(Unlinked(radio), TRUE) \/ o = Outcome(radio, FALSE)
      BY DEF Call
    <3> QED
      BY <3>1 DEF Outcome
  <2>a. /\ \/ radio' = Unlinked(radio) /\ ~earlier'
           \/ radio' = radio /\ (earlier' <=> radio.link # "down")
        /\ earlier' \in BOOLEAN
    BY <2>0, <2>o
  <2>2. /\ RadioSound(radio') /\ (radio'.link # "down" <=> earlier')
        /\ radio'.driver = radio.driver /\ radio'.mode = radio.mode /\ radio'.dhcps = radio.dhcps
    BY <2>a, UnlinkedSound DEF IInv
  <2>3. TypeOK'
    <3>1. app' \in Caller
      BY <1>8, CallerRecords DEF StationTimesOut
    <3>2. earlier' \in BOOLEAN
      BY <2>a
    <3> QED
      BY <2>1, <2>2, <3>1, <3>2 DEF IInv, TypeOK, RadioSound
  <2>4. LinkKnown'
    BY <1>8, <2>2 DEF StationTimesOut, Idle, LinkKnown
  <2> QED
    BY <2>1, <2>2, <2>3, <2>4 DEF IInv, RunningServes, StoppedIsSilent, DriverFollowsFlag
<1> QED
  BY <1>1, <1>2, <1>3, <1>4, <1>5, <1>6, <1>7, <1>8 DEF Library

(* The link comes and goes without the library.                            *)
LEMMA LinkIInv == IInv /\ Link => IInv'
<1> SUFFICES ASSUME IInv, Link PROVE IInv'
  OBVIOUS
<1>1. /\ UNCHANGED <<wifiInitialized, accessPointRunning, stationNetif, accessPointNetif,
                     app, stuck>>
      /\ earlier' = (earlier /\ radio'.link # "down")
  BY DEF Link, Joined, AddressObtained, LinkLost, LinkChange, flags, netifs
<1>2. RadioSound(radio) /\ radio \in Radio
  BY DEF IInv, RadioSound
<1>3. /\ RadioSound(radio')
      /\ radio'.driver = radio.driver /\ radio'.mode = radio.mode /\ radio'.dhcps = radio.dhcps
      /\ \/ radio'.link = "down"
         \/ radio.link # "down" /\ radio'.net = radio.net
  <2>1. CASE Joined
    <3>1. radio.link = "joining" /\ radio' = [radio EXCEPT !.link = "up"]
      BY <2>1 DEF Joined, LinkChange
    <3>2. /\ radio' \in Radio /\ radio'.link = "up" /\ radio'.net = radio.net
          /\ radio'.ip = radio.ip /\ radio'.driver = radio.driver
          /\ radio'.mode = radio.mode /\ radio'.dhcps = radio.dhcps
      BY <1>2, <3>1 DEF Radio
    <3> QED
      BY <1>2, <3>1, <3>2 DEF RadioSound
  <2>2. CASE AddressObtained
    <3>1. radio.link = "up" /\ radio' = [radio EXCEPT !.ip = radio.net]
      BY <2>2 DEF AddressObtained, LinkChange
    <3>2. /\ radio' \in Radio /\ radio'.link = "up" /\ radio'.net = radio.net
          /\ radio'.ip = radio.net /\ radio'.driver = radio.driver
          /\ radio'.mode = radio.mode /\ radio'.dhcps = radio.dhcps
      BY <1>2, <3>1 DEF Radio
    <3> QED
      BY <1>2, <3>1, <3>2 DEF RadioSound
  <2>3. CASE LinkLost
    BY <1>2, <2>3, UnlinkedSound DEF LinkLost, LinkChange
  <2> QED
    BY <2>1, <2>2, <2>3 DEF Link
<1> QED
  BY <1>1, <1>3 DEF IInv, TypeOK, RadioSound, LinkKnown, RunningServes, StoppedIsSilent,
     DriverFollowsFlag

LEMMA Inductive == Spec => []IInv
<1>1. IInv /\ UNCHANGED vars => IInv'
  BY DEF vars, flags, netifs, IInv, TypeOK, RadioSound, LinkKnown, RunningServes,
         StoppedIsSilent, DriverFollowsFlag
<1>2. IInv /\ [Next]_vars => IInv'
  BY <1>1, LibraryIInv, LinkIInv DEF Next
<1> QED
  BY InitIInv, <1>2, PTL DEF Spec

-----------------------------------------------------------------------------
(* The theorems.                                                           *)

(* Every variable keeps its type, the radio's record included.             *)
THEOREM TypesCorrect == Spec => []TypeOK
  BY Inductive, PTL DEF IInv

(* An access point said to run is in its mode, with the library's address. *)
THEOREM RunningAlwaysServes == Spec => []RunningServes
  BY Inductive, PTL DEF IInv

(* One said to be stopped is off the air, unless the radio refused to      *)
(* leave its mode.                                                         *)
THEOREM StoppedAlwaysSilent == Spec => []StoppedIsSilent
  BY Inductive, PTL DEF IInv

(* No failed bring-up leaves a driver behind.                              *)
THEOREM DriverAlwaysFollowsFlag == Spec => []DriverFollowsFlag
  BY Inductive, PTL DEF IInv

(* What WiFiStationConnect answers is so: by the invariant the link it     *)
(* waits for is the one it asked for, unless an earlier one is there, and  *)
(* without one it leaves none that the radio did not refuse to give up.    *)
THEOREM AnswersHold == Spec => AnswerHolds
<1> DEFINE Kept == app.pc = "wait" /\ app'.pc = "idle" =>
                     IF app'.answer
                     THEN earlier \/ (radio.net = app.asked /\ radio.ip = app.asked)
                     ELSE earlier' \/ radio'.link = "down"
<1>1. IInv /\ [Next]_vars => [Kept]_vars
  <2> SUFFICES ASSUME IInv, Next, app.pc = "wait", app'.pc = "idle"
               PROVE  IF app'.answer
                      THEN earlier \/ (radio.net = app.asked /\ radio.ip = app.asked)
                      ELSE earlier' \/ radio'.link = "down"
    OBVIOUS
  <2>1. CASE StationFound
    <3>1. app'.answer = TRUE
      BY <2>1, CallerRecords DEF StationFound
    <3> QED
      BY <2>1, <3>1, NetworksAssumption
         DEF StationFound, StationHasAddress, IInv, TypeOK, RadioSound, LinkKnown
  <2>2. CASE StationTimesOut
    <3>1. app'.answer = FALSE
      BY <2>2, CallerRecords DEF StationTimesOut
    <3>2. \/ radio' = Unlinked(radio)
          \/ radio' = radio /\ earlier' = (radio.link # "down")
      BY <2>2 DEF StationTimesOut, Call, Outcome
    <3> QED
      BY <3>1, <3>2, UnlinkedSound DEF IInv
  <2>3. StationFound \/ StationTimesOut
    BY DEF Next, Library, Link, WiFiInitialize, WiFiDeinitialize, WiFiAccessPointStart,
           WiFiAccessPointStop, WiFiStationConnect, StationPolls, Joined, AddressObtained,
           LinkLost, LinkChange, IInv, TypeOK, Caller
  <2> QED
    BY <2>1, <2>2, <2>3
<1> QED
  BY <1>1, Inductive, PTL DEF Spec, AnswerHolds

===============================================================================
