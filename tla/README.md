# net.ll in TLA+

Specifications of [net.ll](../src/README.md), a network library for the RP2040, the ESP32 and a Linux
Simulator: WiFi, an HTTP client that downloads to storage, and a small HTTP server. The modules model the
parts of it that keep state and meet other actors: tasks, callbacks, peers, clocks.

Paths below are relative to `src/src/lib/`; `P/` stands for `src/src/lib/Platform/`.

## 1. Inventory

| Component | Code | State it keeps | Operations |
|---|---|---|---|
| DHCP server | `P/RP2040/dhcpserver.c` | UDP socket, table of leases (mac, upper half of the expiry) | init, deinit, DISCOVER, REQUEST |
| DNS server | `P/RP2040/dnsserver.c` | UDP socket | init, deinit, one answer per query |
| WiFi, RP2040 | `P/RP2040/WiFi.c` | radio up, access point running, scan list and its target | initialise, deinitialise, station connect, scan (blocking, and start/complete/results), access point start/stop |
| WiFi, ESP32 | `P/ESP32/WiFi.c` | driver up, access point running, the two netifs | initialise, deinitialise, blocking scan, access point start/stop, station connect |
| WiFi, Simulator | `P/Simulator/WiFi.c` | none but a flag | scan by parsing the output of `netsh`; stubs |
| HTTP client, RP2040 | `P/RP2040/HttpClient.c` | one `DownloadState` in the caller's frame | `HttpDownloadFile` |
| HTTP client, ESP32 | `P/ESP32/HttpClient.c` | locals | `HttpDownloadFile` |
| HTTP client, Simulator | `P/Simulator/HttpClient.c` | locals, header buffer | `HttpDownloadFile` |
| HTTP server, RP2040 | `P/RP2040/HttpServer.c` | listening socket, task handle, route table, default route, one connection buffer | start, stop, register, set default, the server task |
| HTTP server, Simulator and ESP32 | `P/Simulator/HttpServer.c`, `P/ESP32/HttpServer.c` | listening socket, route table, default route | start, stop, register, set default, poll |
| Headers | `HttpServer.h`, `HttpClient.h`, `WiFi.h` | | what the platforms promise |

How they interact:

* The access point of the RP2040 starts and stops the DHCP and DNS servers by *posting* callbacks to lwIP's
  TCP/IP task; the calls return before the callbacks run. The servers then run on that task.
* The radio driver calls `ScanResultReceived` while a scan is active, and writes to a static list that the
  application's task reads after `WiFiScanIsComplete`.
* lwIP calls `BodyReceived` and `TransferFinished` on the TCP/IP task, with a pointer into the stack frame of
  `HttpDownloadFile`, which waits on another task.
* The RP2040's HTTP server runs on a task of its own and shares `serverSocket`, `serverTask` and the routes
  with the application's task, without a lock. The callback runs on the server's task.
* The other two servers have no task: the consumer lends `HttpServerPoll` its thread, and callbacks run on it.

Hard behaviours, and the property a correct component has:

* *DHCP*: stations speak in any order, lose and repeat datagrams; a tick counter that wraps and an expiry of
  which half of the bits are dropped. No address is leased twice; a running lease is not offered to another.
* *Reading a request*: `recv` cuts anywhere; sizes at the capacity; an announced length near 2^32, or beyond. The
  buffer is never overrun, and the verdict depends on the request alone.
* *Server task*: every interleaving with start, stop and registration. One task at most, no socket lost, no
  half-stored route matched.
* *Polled server*: callbacks that change the table, stop and start the server under the poll that runs them;
  descriptors on every failing path. It answers as the map of `HttpServer.h` would.
* *Download on the RP2040*: the deadline against a late callback. The call returns; what it returns is what
  became of its own transfer.
* *Access point and scan*: posts that run late or are lost; the list a caller gets is one scan's.
* *DNS answer*: names that run past the end of the message. The reply fits, and a proper query gets one.
* *Download on the other two*: a response cut anywhere, a header buffer at its limit, failures whose result
  nobody looks at. What `true` says of the file, what `false` leaves of it, and nothing left open.
* *WiFi on the ESP32*: handlers of several calls of which any may fail, on one radio for access point and
  station. What the library says of the radio is so; an attempt to connect does not outlive its call.

`PROJECT.json` lists the hazards one by one, with the lines and the properties.

## 2. Modules

| Module | Models | Built on |
|---|---|---|
| `DhcpServer` | lease table and its clock | |
| `DhcpServer_proofs` | its theorems | `DhcpServer` |
| `RequestReading` | the two receive loops | |
| `RequestReading_proofs` | its theorems | `RequestReading` |
| `HttpServerTask` | the RP2040 server's task and the application's | |
| `HttpServerTask_proofs` | its theorems | `HttpServerTask` |
| `LwipDownload` | `HttpDownloadFile` on the RP2040 against lwIP's callbacks | |
| `LwipDownload_proofs` | its theorems | `LwipDownload` |
| `DnsServer` | the DNS server's reply as a function of the query | |
| `Rp2040WiFi` | scan, access point and station, with both UDP servers' start and stop and the DNS queries | `DnsServer` |
| `Rp2040WiFi_proofs` | its theorems, and those of `DnsServer`'s function | `Rp2040WiFi` |
| `SyncDownload` | `HttpDownloadFile` of the Simulator and of the ESP32 | |
| `SyncDownload_proofs` | its theorems | `SyncDownload` |
| `Esp32WiFi` | bring-up, access point and station of the ESP32 | |
| `Esp32WiFi_proofs` | its theorems | `Esp32WiFi` |
| `HttpServerContract` | what `HttpServer.h` promises, abstractly | |
| `PollServer` | the polled server; implements `HttpServerContract` | `HttpServerContract` |
| `PollServer_proofs` | its theorems, the implementation one of them | `PollServer` |
| `MC*` | values of the constants for TLC | each its module |

Operators named `Bug_...` are definitions with one plausible mistake in each. No action uses them; put in
place of the operator they stand next to, each makes a property fail (`PROJECT.json`, "mutants"), which shows
that the property is about the code and not about the shape of the model.

### DhcpServer

`lease` is `d->lease`, `running` says that the UDP socket is bound, `now` counts milliseconds without
wrapping; the code's `cyw43_hal_ticks_ms()` is `Ticks == now % CLOCK`, with `CLOCK == GRAIN * GRAINS`, 2^32
in the code. A stored expiry is the upper half of a deadline (`Stamp`), read back rounded up (`RoundedUp`) and
compared as a signed difference (`Expired`). `Discover` and `Request` are the two cases of
`dhcp_server_process`; a datagram is one action because lwIP runs the handler to completion. `Discover`
also clears the first reusable slot, even when it offers the station's own, as the loop does. Datagrams
the code ignores are no steps.

`granted` and `offered` are records of the model: what each station was ACKed and offered. `OfferAvoidsLive` is about
`Offers(c)`, what a DISCOVER would be answered with in any state, so it covers an offer that is repeated after the slot
went to another station. `StartServer`
clears `granted` with the table: a restart of the access point forgets running leases (the code persists
nothing), so `UniqueAddress` speaks of one life of the server.

### RequestReading

One connection, one recv per action. A request is abstracted to its lengths: where the header block ends,
the announced length, where the first line that reads `Content-Length` ends, how many bytes the peer sends.
That line may be in the body: `ContentLengthOf` searches whatever is in the buffer, beyond the blank line
too, so what a recv brought along with the header block counts. `Plain` excludes such requests where a property
needs it. The announced number counts as one digit, arrived or not; it may be any number, and the parse keeps it modulo
`SIZE_MOD` (`ContentLengthOf`), as `value * 10 + digit` does in an unsigned type: 32 bits wide on both boards. `SizeSum` is
addition in `size_t`. The POSIX loop differs where the code differs: it compares by subtraction, answers 413 whenever
`ReadRequest` fails, and dispatches what it has when the peer closes early.

### HttpServerTask

An action is one access to a shared variable. `task[t]` is a server task (two identities, to let a second
exist if the code let it), `app` the API call the application's task is in. Stop is three accesses (take
the socket, close it, empty the table), a registration is four stores and the one that publishes. Stores become
visible in program order: the RP2040's cores do not reorder them, and the compiler's freedom to do so is
not modelled. `call` is the callback invocation of the moment. `disturbed` marks a dispatch under which the
table was emptied or the default route rewritten, which `DispatchIntact` excludes and `ContextUntouched` does not.
A call of accept, recv or send that waits (`Waiting`) may wait for ever. The application's task is the only caller of the
API; a callback, which could call it from the server's task, only returns. The header says the API is polled; on this platform `HttpServerPoll` only returns false and callbacks
run on the server's task.

### LwipDownload

The caller (`OpenTarget` ... `CloseTarget`) against the callbacks of up to `CALLS` transfers. `done` and
`success` are the fields of the current call's `DownloadState`. After a timeout lwIP keeps a pointer to a
frame that is gone; a callback through it is undefined behaviour, modelled as a choice (`Frames`): it hits dead
memory, or the fields of a later call in the same place. A failed `CloseFile` leaves a part of what was written, and
counts as a failed write (`writeFailed`). `file` records whose segment each write was.

### Rp2040WiFi

The application's task (`App`, `AppInCall`), the TCP/IP task that takes callbacks from `mailbox`, and the
driver. A post may block on a full mailbox, or be lost for want of memory: the code does not look at the
result. `udp[s]` is the socket of each server: none, bound ("serving"), or without its port ("deaf"), because
`dhcp_server_init` goes on when the bind fails. `networks[i]` records which scan reported entry `i`.
`cyw43_arch_deinit` ends a scan. `WiFiStationConnect` polls like `WiFiScan` does, with the same time-out in polls;
what the driver says of the link is any outcome of any poll. Unlike the ESP32's it neither looks at
`accessPointRunning` nor gives up the attempt at its deadline.

`DnsQuery` is a datagram handled by the TCP/IP task while the DNS server's socket is bound. The server has no other
state, so the answer is a function, `DnsServer`: a query is its size, whether its header asks a standard question, and the
length bytes of its name; `WalkStop` is where the loop over the labels comes to a halt, `ReplyLength` how far the
answer reaches. `reply` remembers the last query answered, until the servers are started or stopped.

### SyncDownload

One download after another, each by one client and with one response, which is its three lengths and whether its status is
200; a byte is its position in it. `held` is what the call has open or allocated. `unseen` records what went wrong in the call
without the code looking: a write or the close of the file, an end of the stream that came early, bytes the header buffer had no room
for (`ReceiveHeaders`), a blank line completed from bytes of the stack that nobody wrote in this call
(`SkipHeaders`: `strstr` ends at a zero byte and not at `headerBufferLen`). The ESP32's client calls
`esp_http_client`, of which only this is assumed: data events carry body bytes in order, and `ESP_OK` means that the
body was complete.

### Esp32WiFi

The four statics are variables; what ESP-IDF keeps is one record, `radio`. A call of ESP-IDF is the set of its
outcomes, with success or failure in each, and `Then` strings calls together up to the first that fails, as the code's early
returns do. So a handler is one action, with every way it can fail halfway. That is faithful as long as nothing
comes in between: the library has no thread, and a change of the link (`Joined`, `AddressObtained`, `LinkLost`) matters
only to the polling of `WiFiStationConnect`, which is one action per poll. Assumed of ESP-IDF: interfaces follow
the mode before the next call; the DHCP server latches the address when it starts (the comment at
`P/ESP32/WiFi.c:218`); `esp_wifi_stop` and `esp_wifi_deinit` succeed on a driver that is up; a connect while
there is a link keeps it or starts anew. `esp_wifi_disconnect` may fail like any other call, and its result is not looked at (line 409). `earlier` says that a
connection of a call before is still there: one that was answered true, or one that the radio refused to let go of; a link
that is lost ends it. `stuck` says that the
way back to station mode failed, whose result the code does not look at (line 310).

### PollServer and HttpServerContract

Every call the consumer may make, between polls or from a callback (`MayCall`), and each step of
`HttpServerPoll`. `open` counts descriptors. An accept that fails either has lost its peer (`AcceptFails`: the connection was
aborted) or leaves it in the queue (`AcceptRefused`: no descriptor to be had). The ESP32's file repeats the Simulator's but for headers and integer
types, one line higher; the map gives the lines in one of the two. The contract has no table, sockets or backlog: a map from method and path to the endpoint
registered first, a default, and one verdict per connection, decided from these. The refinement mapping
(`Contract`) reads the map off the array with `Bound`.

## 3. Runs

| Run | Question | Bounds |
|---|---|---|
| `dhcp_leases` | Do leases stay unique and offers honest, with a clock that wraps? | 3 stations, 2 addresses, requests below, in and above the pool; a clock of 8 ticks in grains of 2, a lease of 2, 10 ticks |
| `request_reading` | Are buffer and verdict right for every cut of every request? | capacity 4, `size_t` of 8 values, announced lengths 0-10, every combination of lengths around them |
| `server_task` | Do the server task and the application's task keep out of each other's way? | 2 endpoints on one path, 2 slots, 2 task identities, 2 descriptors |
| `lwip_download` | Is a verdict the transfer's own? Does the call return? | 2 calls, bodies of 0-2 segments, timeout of 2 polls |
| `rp2040_wifi` | Do the UDP servers follow the access point? Is a scan's list whole? Does a DNS reply fit? | mailbox of 3, one lost post, 2 scans of up to 3 results for 2 entries, arrays of 1 and 2; 7 queries with the code's own limits |
| `sync_download` | What do `true` and `false` say of the file? Is anything left open? | recv of 2, header buffer of 4; headers of 1, 4 and 5 bytes, responses of 5 and 7 |
| `esp32_wifi` | Is what the library says of the radio so? | 2 networks, 2 polls before the time-out; no bound on the calls |
| `poll_server` | Is the polled server a server of `HttpServer.h`? | 2 peers, backlog 2, 3 endpoints of which 2 compete, table of 2 |
| `truncated_body` | Has the announced body always arrived? (no) | as `request_reading` |
| `context_untouched` | Is a callback always given its own context? (no) | as `server_task` |
| `returns_only_when_over` | Does a download return only once it is over? (no) | as `lwip_download` |
| `poll_returns` | Does a poll return whatever its peer does? (no) | as `poll_server` |

Why the bounds are enough to meet the interesting cases: three stations and two addresses leave one without,
so that expiry is what frees a slot; 10 ticks go past the wrap at 8, and `2 * (LEASE + GRAIN) = CLOCK` is
the tightest ratio `HalfRangeAssumption` allows (the code's is 2 * (86 400 000 + 65 536) against 2^32). The
capacity of 4 has header blocks and bodies below, at and above it, sums that wrap, and announced lengths that wrap in the parse. A table of two has a first and a
last slot and can be full. A mailbox of three holds a start, a stop and a start at once.
The DNS queries include the longest name there is, one longer than the buffer, and one that ends within a label. A header
buffer of two recvs, as in the code, is overrun by the third; headers of 4 fill it, headers of 5 never fit. Two calls are one
that times out and one that suffers from it.

Deadlock is checked except in `RequestReading` (a connection ends) and `LwipDownload` (the calls are counted).

### What the violation runs show

1. `truncated_body`: the Simulator and ESP32 servers hand a body that was cut short to the callback when
   the peer closes early (`P/Simulator/HttpServer.c:174`); the comment at line 153 says it "has arrived".
   The RP2040 closes without a dispatch.
2. `context_untouched`: the RP2040 loads a route's callback and context one after the other while the
   application may store them (`P/RP2040/HttpServer.c:331`). With a stop and a new registration between the two, or a new
   default endpoint, a callback gets another one's context.
3. `returns_only_when_over`: on the RP2040 a timed-out download returns while its transfer goes on
   (`P/RP2040/HttpClient.c:105`), with pointers into the frame that is gone.
4. `poll_returns`: a peer that connects and stays silent keeps `HttpServerPoll` in `recv`
   (`P/Simulator/HttpServer.c:164`): there is no timeout on the connection.

Also noticed, without a run of its own:

* The Simulator's client returns `true` for a download with a hole in it when the end of the headers and body bytes
  arrive with the header buffer nearly full (`P/Simulator/HttpClient.c:254`), for one that broke off, and for any
  status; and `strstr` reads bytes behind `headerBufferLen` (173). The ESP32's returns `true` for 200 only. On
  failure the Simulator's mostly leaves the old file, which the ESP32's and the RP2040's have truncated by then.
* On the ESP32 a `WiFiStationConnect` to a second network, while the first is connected, finds link and address at its first
  poll and may return true for the wrong network (`P/ESP32/WiFi.c:404`); `AnswerHolds` excludes it with `earlier`.
  So may one that follows a call whose disconnect was refused.
* A `Content-Length` that wraps in the parse (2^32 + 5 on a board) is served with the short body that remains (5), where
  the comment at `P/Simulator/HttpServer.c:153` promises 413 for a request that cannot fit; `PosixVerdict` and `LwipVerdict`
  say so.
* A `HttpServerStart` of the RP2040 that finds the task of a stopped server still there returns true and no server comes up
  (line 462); a `HttpServerStop` before the new task has stored its socket has no effect (line 508).
* `WiFiInitialize` of the ESP32 succeeds without a station netif (line 91); every connection then times out.
* The RP2040's `StationHasAddress` compares `cyw43_wifi_link_status` with `CYW43_LINK_UP`
  (`P/RP2040/WiFi.c:279`), a value that the SDK documents for `cyw43_tcpip_link_status`.
* The RP2040's DNS server answers a query cut short within its question, with bytes behind its end as the question's.

As to the documents: README.md promises "one entry per access point", while the RP2040's
`ScanResultReceived` keeps every report; `net.ll.cmake` and `lwipopts.h` speak of `NO_SYS=1` in comments where
the build sets `NO_SYS 0`.

## 4. Fairness

* `RequestReading`: recv returns when bytes or the end of the stream are there, and peers send what they
  have and close. Fairness excludes the failing recv, so that a failure never stands in for progress. Only `FittingRequestServed` uses it.
* `HttpServerTask`: FreeRTOS schedules both tasks and callbacks return, so a call the application began goes on, and so does
  the server's task whenever it is not in accept, recv or send (`Waiting`). Nothing is asked of these: the code sets no
  timeout on recv, and `lwipopts.h` does not set `LWIP_NETCONN_FULLDUPLEX`, so that closing the socket from the other task
  need not wake accept. Hence `StopEndsTask` says: after a stop the task ends, or one such call holds it for ever. No call
  has to be *made*.
* `LwipDownload`: the caller is scheduled. Nothing is asked of the network.
* `Rp2040WiFi`: the TCP/IP task and a call under way go on. Nothing is asked of the radio: `CallsReturn`
  holds by the deadlines. A query need not come.
* `SyncDownload`, `Esp32WiFi`: none. Their properties are safety properties; recv and perform have no time-out in the code that
  would justify more.
* `PollServer`: `LocalSpec` lets the consumer poll again and callbacks return, `FairSpec` lets accepted peers
  send or close (weakly fair) and an accept that is tried again and again take a peer in the end (strongly fair: descriptors
  come back). `poll_returns` fails under the first; `QueuedPeerLeavesQueue` needs the second.

## 5. Proofs

Every invariant that a run checks is a theorem, and so are `AnswerHolds` and `ImplementsContract`: for every value of the constants that satisfies the assumptions. These are the
`...Assumption`s in the modules (ranges of the constants, special values that are not members of the sets
they stand apart from); TLC evaluates them for the values of the runs. Each module of proofs defines
`IInv`, what holds in all reachable states *and* is kept by every step, and proves `Init => IInv`, that each
action keeps it, and that it implies the property. TLC has checked every `IInv` with the constants of the
module's run.

**`DhcpServer_proofs`**: `TypeCorrect`, `AddressesAreUnique`, `LapsedAreExpired`, `OffersAvoidLive`.
`UniqueAddress` is not inductive: it says nothing of the table. The strengthening relates the table to the
grants: a grant that still runs has its station in its slot, and a slot's expiry is the stamp of its station's
grant. The arithmetic is in lemmas about `Stamp`, `RoundedUp` and `%`: a running lease is never
seen as expired (this is where `HalfRangeAssumption` enters), and one that lapsed a grain ago is, for
half the range of the clock. `OfferAvoidsLive` follows in every state: a slot of another station is offered only if it is
seen as expired. The only clock assumption is that range: twice a lease and a grain fit.

**`RequestReading_proofs`**: `TypeCorrect` (no recv writes past the buffer), `TerminatorStaysInBounds` (nor does the
terminator behind the body, wrapped size check or not), `VerdictsAreRight` and `PosixVerdictsAreRight`.
The strengthening says what the loop knows: the header
block is complete exactly if that many bytes are there, the expected length is what the parse keeps of the announced one from
then on for a plain request, and "reading" means that no earlier recv had enough. The announced length is any natural
number; where the parse does not wrap, it is its own remainder (`RemainderValue`).

**`HttpServerTask_proofs`**: `TypesCorrect`, `AlwaysSingleServer`, `SocketsNeverLost`, `RoutesPublishedWhole`,
`DispatchesIntact`. Two tasks share variables without a lock, so `IInv` says who may rely on what at each program
counter: which socket a stop or the server task answers for (`SocketsOwned`), which fields of the slot in hand a
registration has stored (`Registering`), and what a dispatch that nothing disturbed has read of a route that still
stands (`Dispatches`). That a registration writes only behind `routeCount`, or the default route, is what keeps
the slots in use whole. `DispatchIntact` speaks of undisturbed dispatches only; `context_untouched` is why.

**`LwipDownload_proofs`**: `TypesCorrect`, `VerdictsAreTransfers`, `TrueStored`, `OrphansOnlyFromTimeouts`, for any
number of calls, length of bodies and timeout. `Undisturbed` is the heart: as long as no earlier call has timed out nobody but
the call's own transfer writes its flags and its file, so `done` means over, `success` is the
transfer's, and the file is the prefix of the body that was delivered; closing it keeps it, unless the close fails.

**`SyncDownload_proofs`**: `TypesCorrect`, `TrueStored`, `NothingEverHeld`, `FalseLeavesFile`. The properties are about calls
that are over; `IInv` says what each place in a call holds open (`Holding`), that the target is untouched
until the headers are skipped (`Untouched`), and what the file contains while the response is read (`Storing`). For the last the
lemmas are about spans of positions: two that meet are one, and an ordered file stays in order when a later piece is appended.

**`Rp2040WiFi_proofs`**: `TypesCorrect`, `ServersFollow`, `SocketsNeverLeak`, `ScanListsWhole`, `DnsRepliesFit`.
`ServersFollowAccessPoint` looks at an empty mailbox; `Posted` says what a full one holds: starts and stops alternate, the
first changes what lwIP has, the last is what the application asked for. That holds because a start returns early while
`accessPointRunning`, as a stop does otherwise, and fails once a post is lost, as the property says. For the scan, `Scanned` and
`Counted` keep the driver's count and the caller's together.
The DNS reply is a function of the query, its walk a recursive function over the labels. What holds of it for every number of
labels is proved by taking the least label at which it fails (`LeastNat`, from the library's well-foundedness of the natural
numbers). So `DnsRepliesFit` holds for every query, and for those with one whole question the answer stands right behind it.

**`PollServer_proofs`**: `TypesCorrect`, `DescriptorsNeverLost`, `PolledServerImplementsContract`, `VerdictsAreFinal`.
The implementation proof maps each step to a step of the contract or to a stutter: connecting, selecting, an accept that fails either way, the callback's
return and the response change nothing the contract sees; accepting, deciding and closing are its `Take`, `Decide` and
`Release`, and the calls of the consumer its own. `Bound` is shown to be `MapOf(routes)`; a route registered last
answers only where no earlier one did (`RegisteredLast`), and the search in order finds what the map holds
(`SearchAnswers`). The run checks this under `FairSpec`; the theorem needs `Spec` alone.
`VerdictsAreFinal` has no run: it says that no step decides again for a peer.

**`Esp32WiFi_proofs`**: `TypesCorrect`, `RunningAlwaysServes`, `StoppedAlwaysSilent`, `DriverAlwaysFollowsFlag`, `AnswersHold`.
A handler is a composition of calls with every way each may fail, so its lemmas first bound what the compositions can
make of the radio. `IInv` adds what ESP-IDF never breaks (`RadioSound`: a link in station mode only, a DHCP
server in access point mode only) and what is known of the link (`LinkKnown`: nobody waits and no earlier connection is there, so there is no link),
which is what `AnswerHolds` needs of the state before its step; `earlier` implies that there is a link.

Left to TLC: the liveness properties, because the provers handle neither ENABLED nor arguments from fairness:
`FittingRequestServed`, `StopEndsTask`, `CallReturns`, `StopSilencesServers`, `CallsReturn` and
`QueuedPeerLeavesQueue`. And the four violations, which are counterexamples.

## 6. Not modelled, and why

* DHCP option bytes, the bytes of a DNS answer, HTTP header formatting: output computed from the input, no state survives it.
* Splitting a request line, a URL, or netsh's text character by character: each is one step with its outcomes.
* `WiFiScan` of the ESP32: it changes nothing the library keeps, and the caller's array is filled from a copy.
* What cyw43 reports of a link between two attempts to connect (`Rp2040WiFi` lets a poll find anything).
* Redirects that `esp_http_client` follows: their bodies would be data events as well (`SyncDownload`).
* The Simulator's WiFi: one call that parses localised text line by line, with no state, no retry and no other actor.
  A model of it would be the parser over again.
* A poll from inside a callback (`PollServer`).
* Calls of the API from a callback on the RP2040, where it runs on the server's own task (`HttpServerTask`): what the module
  shows and proves holds for one caller, the application's task.
* Memory ordering beyond program order (`HttpServerTask`).
* A scan list read after a deinitialise and before the next scan (`Rp2040WiFi` has it; no property is about it).
* Sample, build files, lwIP's and FreeRTOS's own code: the last two appear as the
  environment, as the code in `src/` uses them.

## 7. Plan

Done, in this order: `DhcpServer`, `RequestReading` and their proofs; `HttpServerTask`; `LwipDownload`;
`Rp2040WiFi`; `HttpServerContract` and `PollServer`; `SyncDownload`; `Esp32WiFi`; `DnsServer` and the station in
`Rp2040WiFi`; then the proofs of these six, the implementation of the contract among them.

Next:

1. Proofs: facts beyond the runs' properties that a reader of the code would ask for, such as what a server task may still do
   after `HttpServerStop` has returned, or that a download never writes to the file of a finished call before the first timeout.
2. `PollServer`: polls nested in callbacks.
3. One abstract contract of `HttpClient.h` that both download modules implement as far as they do.
