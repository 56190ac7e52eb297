# MeshLink node: a TLA+ verification project

The repository is the program that runs on a MeshLink node: a box at an event
that takes packets from phones over BLE and Wi-Fi, passes them on to its own
phones and, over a batman-adv backhaul, to other nodes, and serves a few things
itself (location queries, a telemetry ping, a way to the organiser's backend).
This directory holds models of its parts, the TLC runs that check them on small
instances, and TLAPS proofs of their safety properties for every instance. Line numbers refer to `src/node/` unless a path says otherwise.

`PROJECT.json` is the index: components, runs, mutants (one plausible bug per
property that the property catches), the map from definitions to source lines,
findings, hazards and theorems.

## 1. Inventory

| Part | Source | State | Operations | Hard because | Right if |
|---|---|---|---|---|---|
| Relay | `relay.py` | counters, callbacks | `_handle_packet`, `_handle_presentation`, `stats` | BLE main loop, Wi-Fi readers and the backhaul thread run the handler at once; no ttl on the backhaul | each packet is taken once, from an attested sender; floods end; counters add up |
| Pipeline, attestation | `core/` re-exports of the `meshlink-core` submodule (not in the repository) | dedup cache, attested keys | `process`, `add` | all state is lost in a restart | nothing unattested passes |
| Backhaul | `backhaul/batman_backhaul.py` | UDP socket, receive thread | `forward_to_zone`, `broadcast_to_all_nodes`, `_recv_loop` | loss, duplicates, own echoes | a packet reaches its zone |
| Zone table | `backhaul/dynamic_zone_table.py` | learned entries with ages, pinned entries | `learn`, `addr_for`, `forget_stale`, `known_zones` | lazy expiry | answers are never stale |
| Zone-sync | `backhaul/zone_sync.py` | announce thread | `announce_now`, `_on_control` | unacknowledged gossip, nodes that move | tables follow the mesh |
| Location | `location/` | one row per user, revocations, rate-limit slots | `handle_query`, `handle_revoke`, `_ingest_beacon` | several threads, wall clock, changing directory | no answer without consent, limit kept, revocations hold |
| Organiser key | `attestation/organiser_key.py` | cache file | `load_organiser_pubkey` | crash and disk failure mid-write | no node runs without a key |
| Directory | `directory/cache.py` | index, cache file, sync thread | `refresh`, `start`, lookups | crash mid-write, bad answers | only what was served, and it catches up |
| BLE servers | `ble/base.py`, `bluez.py`, `corebluetooth.py`, `framing.py` | centrals, assemblers, backlog | `send_packet`, `_notify_chunk`, `_flush_pending`, connect events | send from any thread, one stream to all phones, transmit queue that fills | chunks in order, none lost |
| Wi-Fi | `transport/wifi_transport.py` | connections, a reader thread each | accept loop, `_reader`, `send`, `stop` | phones that vanish silently | the peer list is the phones that are there |
| Transports | `transport/ble_transport.py`, `multi_transport.py` | none of their own | dispatch by peer-id prefix, union of peers | ids of the backhaul are not BLE ids | answers go where the question came from |
| Phone ping | `monitoring/phone_ping.py` | reports, connect timers, sweep thread | `on_peer_connected`, `ping_all`, `handle_frame`, `reports`, `stop` | timers race stop | every phone is pinged, departed ones vanish |
| Heartbeat | `monitoring/heartbeat_sender.py` | timer thread | `build_payload`, `beat` | reads counters while they change | what it reports is consistent |
| Framing | `ble/framing.py` | the bytes of an unfinished packet, per link | `frame`, `feed` | streams cut anywhere, links that break inside a frame | packets come out whole, in order and once |
| Backend proxy | `backend_proxy.py` | worker pool | `handle_frame`, `_serve`, `stop` | pool limit, slow backend, replies too large for a frame, phones that leave | requests get an answer, and the receive path never waits |
| Access point | `wifi_ap/` | the host's sharing settings | `start`, `stop` | crash between save and restore | the host gets its settings back |
| Start, stop | `main.py`, `config.py` | | order of start and stop | a boot that breaks off between two parts, threads that outlive what they use | what is on disk stays usable |
| Host probes | `backhaul/radio_config.py`, `monitoring/battery.py`, `system_stats.py` | none | read the host | | |

How they interact: transports and backhaul call the relay's `_handle_packet` on
their own threads; the relay calls the pipeline, the location service, the ping
service and the proxy, and sends through `MultiTransport` and the backhaul. The
backhaul's receive loop separates zone-sync frames from packets. Zone-sync and
backhaul share the zone table. The location service reads the directory. The
heartbeat reads the relay's counters, the peers, the ping reports and the peer
count. `main` builds everything, starts it in order and stops it in order; there
is no global lock.

## 2. Modules

| Module | Models | State and actions |
|---|---|---|
| `DynamicZoneTable` | the table as pure operators | a table maps zones to an address and an age; `Learn`, `AddrFor`, `ForgetStale`, `KnownZones`, `PeerCount`, `Age` |
| `ZoneSync` | several nodes that gossip (extends the table's module) | `up`, `zone`, `learned`, `timer`, datagrams in `net`; `Start`, `Stop`, `Announce`, `Deliver`, `Lose`, `Tick` |
| `RelayMesh` | several nodes with relay, backhaul, routes and roaming phones; a handler call is one step | dedup sets `seen`, `presented`, keys `attested`, `route`, `net`, what phones have `held`, the circumstances `world` chosen at the start; `PhoneSend`, `Receive`, `Lose`, `LearnRoute`, `ExpireRoute`, `Restart`, `Roam` |
| `RelayContract` | abstract specification: what a node promises about each packet | keys `trusted`, packets `taken`, offers `given`; `Trust`, `Take`, `Give` |
| `NodeRelay` | the handler of one node, step by step on several threads, and the heartbeat | a `pc` per thread, counters `stats`, the last heartbeat `beat`; one action per call or counter of the handler. Implements `RelayContract` |
| `LocationAuthz` | location service of one node on several threads | one step per look at shared state; clock steps, restarts, directory syncs |
| `OfflineCaches` | boots of one node: key and directory with their files | `phase` of `main`, files that are absent, torn or whole; each file write is truncate and write; `Crash` anywhere |
| `ApProvisioner` | the host's sharing settings as the macOS access point changes them | the file `plist`, its `backup`, how far `start()` is; `Load`, `Copy`, `Write`, `Restore`, `Vanish` (the process ends), `Edit` (by the user) |
| `NodeBoot` | `main` from boot to boot: `OfflineCaches` composed with `ApProvisioner` | the state of both; key, access point, directory and sync in the order of `main`, `ShutDown`, `CrashNode` |
| `GattStream` | packets leaving over BLE, both backends, and over a Wi-Fi socket | threads in `send_packet` or `sendall`, the `pending` deque, the system's transmit queue and the callback it owes, chunks `skipped` because nobody listens or the stack raises |
| `Framing` | frames as sequences of bytes, pure operators | `Frame`, and `Feed` as a recursive function; `Frames`, the stream of a sequence of packets, is what it is measured against; a byte has `Base` values |
| `BackendProxy` | a phone's requests: inbound streams, reassembly, demux, worker pool, replies, shutdown (extends `Framing`) | `link`, bytes on the `wire` and in `buf`, the pool's `queue`, each worker's `job`; `Connect`, `PhoneWrites`, `Read`, `LoseLink`, `Take`, `Answer`, `CallFails`, `RejectionCutOff`, `Send`, `StopProxy`, `StopTransport` |
| `PhoneLinks` | phones coming and going over Wi-Fi and BLE, ping service, shutdown | the Bluetooth `stack` of the platform, accept loop, readers, main loop, centrals that are `connected` or `subscribed`, connect timers, sweep, reports |

`MC*.tla` give the constants that a `.cfg` cannot write; `*Proofs.tla` hold the
theorems. Definitions marked external in the map (deduplication, token and
signature checks, the message types of `meshlink-core`, CoreBluetooth's transmit
queue, phones, the backend, time) are modelled from how the source uses them.

Abstractions that matter. A packet is a name with attributes (kind, sender,
destination zone, ttl, token); a copy is a packet with a ttl. Cryptography is an
attribute: a forged packet is refused, a token verifies or not. The dedup cache
has no capacity limit within a run. Time is in ticks; entries of the zone table
hold an age in place of a monotonic time stamp. `ZoneSync` and `RelayMesh` are
separate because the full gossip multiplies the state space of the mesh:
`RelayMesh` lets routes be learned from a set of announcements (accurate or
circular, one of the circumstances in `world`) and expire at any moment, which
covers what the gossip can do to a table. A file that is being written is `Torn`
until the write is complete; `os.replace` and a rename are one step. Requests to
the proxy are byte strings, because the framing is about bytes; whether one is
forwarded is a parameter, and of a reply only the length counts.

## 3. Runs

All runs use the specification of their module unchanged; a `.cfg` only gives
constants their values.

**zone_gossip** (`MCZoneSync.cfg`; two nodes, two zones, three boots, entry life
2 intervals, one announcement may be missed in a row, duplicates; node `a` hears
its own broadcasts and has a pinned route). `DepartedNodesAgeOut`: no route to a
node that left the zone longer ago than the entry life plus the delivery time.
`PeerCountIsCurrent`: the count in the heartbeat does not count deserted zones.
`NeverRoutesToItself`. `LiveZonesStayRoutable`: with exactly enough life for the
announcements that may be missed, a live zone never loses its route.
`EventuallyConverged`: when boots end, tables become the mesh as it is. Three
boots are one more than nodes, so a node can leave and come back in another
zone. Deliveries take less than a tick here; the theorems cover every delay.

**mesh_safety** (`MCRelayMesh.cfg`; two gated nodes, two phones, six packets: an
ordinary one, a beacon, a forged one, a presentation, one of an unattested
sender and one with a bad token; one restart). `OnlyCredentialedTraffic`,
`PrivateTrafficStaysPrivate`, and `PresentationsSpread`: a token accepted by one
node gets to the others.

**mesh_routing** (`MCRelayMeshRoutes.cfg`; three nodes, one message, in one of three
worlds: accurate announcements and nothing lost; circular announcements for the
message's zone with loss and a restart; the same with a roaming phone and no loss;
in all of them duplicates and an echo the address filter misses).
`ZoneIsReached`: in the first world, while routes come and go, the message reaches
the phones of the node that serves its zone. `FloodsDieOut`: in every world
deduplication alone ends every flood, since the ttl is not decremented between
nodes. Three nodes are the fewest with a cycle that avoids the right one.

**relay_threads** (`MCNodeRelay.cfg`; two threads, eight packets of different
fates, four arrivals). `ReceivedIsAccountedFor`, `SendsAreCounted`: the counters
are true up to what threads are about to count; of the cell they count distinct
packets offered, of the backhaul sends. `HeartbeatIsConsistent`: a
heartbeat at any moment is off by at most one packet per thread.
`KeepsContract`: the interleaved handler implements `RelayContract`
(`trusted` is `attested`; `taken` and `given` record the handler's own steps).

**location_threads** (`MCLocationAuthz.cfg`; two threads, two queries, a genuine
and a forged token that expire, a clock that steps back once, a directory that
may lose the requester, a restart). `ConsentBehindEveryResponse`,
`ResponsesAreSpaced`, and `RevocationHolds`: a query whose token was revoked before
its thread came to the revocation check, even while it was in the handler, gets no
answer. One that is past the check may still be answered. The clock's epoch is not 0, because the
code reads a missing slot as 0.0 and the wall clock is decades away from it.

**location_reply** (violation). The answer to a query that came from another node
is addressed to `backhaul:<ip>:<port>`, which `MultiTransport` takes for a BLE
peer; it is notified to the node's own cell, not "straight back over the
requester's session" (`location/service.py:12-14`).

**node_boot** (`MCNodeBoot.cfg`; three boots, two listings, outages, garbled
answers, answers of another shape, a failing disk, crashes anywhere, an orderly stop, two
settings the user may choose and one edit). `IndexWasServed`, `NoNodeWithoutKey`,
and `DirectoryTracksBackend`: while its sync thread lives, the directory follows a
backend that has come back. `OriginalIsSafe`: the host's own sharing settings
exist untouched where the next `stop()` looks for them, over crashes, failed
steps of `start()` and boots that break off after the access point is up. Three
boots are a crash, a boot that finds what it left, and one more that finds what
that boot made of it.

**caches_bad_row** (violation). `refresh` indexes outside its `try`
(`directory/cache.py:68`): one incomplete row ends the sync thread (so does a body
that is a list, whose `TypeError` the `except` does not name), although
"keeps the previous copy on any failure" is promised.

**gatt_stream** (`MCGattStream.cfg`; main loop and one worker, three packets of
two chunks, a transmit queue of one place, both BLE backends, whose calls may raise
in the middle of a packet, and a Wi-Fi socket that takes frames in parts and may
break).
`ChunksStayInOrder`, `NoChunkIsLost`, and `BacklogIsFlushed`: a chunk that waits
while a ready callback is owed is sent. Three packets let a packet meet a backlog
that is filled by another and one that is being flushed.

**gatt_mixed** (violation; the BLE backends only). Without a lock around
`send_packet` the chunks of two packets mix, and the receiver, which "reassembles
from the ordered byte stream" (`ble/framing.py:6`), loses the frame boundaries.

**phone_links** (`PhoneLinks.cfg`; a Wi-Fi phone and a BLE phone, each of which
connects once, either Bluetooth stack, and a shutdown). `PeersHaveReaders`: who is
listed has a reader that will unlist it. `PingsEnd`: after `stop()` pinging comes
to an end, although a sweep in progress pings the rest of its list, the accept loop
still arms timers and a timer can fall out of the set that `stop()` cancels.
`DepartedPhonesDisappear`: a phone that left goes from the peers and the reports; a
central whose departure CoreBluetooth does not report goes from the reports only
(section 5). `PhonesGetPinged`: who can be sent to gets another ping.
A report lives one tick: nothing reads its age but the test against the limit.

**phone_requests** (`MCBackendProxy.cfg`; a Wi-Fi and a BLE phone with two links
and three packets between them, one worker, a shutdown). Bytes have two values,
so a length goes up to 3, a packet up to 2, and 3 is out of range: a packet of
the mesh, a request and a packet that is too long are enough for frames cut at
every place, payloads that read as lengths and lengths that are refused.
`StreamIsWhole`: what is in the assembler and on the link is exactly the frames
of the packets not handed over yet, so packets come out whole, in order and once,
also after links that broke inside a frame. `RequestsAreAnswered`: a phone that
stays gets a reply to every request the pool took, whatever the calls before it
came to, or misses one in a way the code is known to have (section 5).
`ReceivePathStaysFree`: what a phone wrote is read even if no call ever ends.
`NoCallAfterStop`: after the proxy's `stop()` no call begins, although the
transports go on. One worker is the hardest pool: a single task that does not
return would be the end of it.

Deadlock is checked except in the runs of `OfflineCaches`, `NodeBoot` and
`GattStream`, where the bounded boots or packets simply run out.

### Fairness

* `ZoneSync`: the announce thread wakes after its interval, time passes, and each
  datagram is delivered or lost.
* `RelayMesh`: while datagrams are in the network, a receive loop takes one. No
  datagram in particular is favoured, and phones need not do anything.
* `OfflineCaches`, `NodeBoot`: the sync thread goes on; its requests have a
  timeout.
* `BackendProxy`: readers read what has come in, and workers take tasks and send
  replies. No call to the backend has to end; `RequestsAreAnswered` supposes that
  each does (`CallsEnd`), since `urlopen` has a timeout.
* `GattStream`: a thread inside `send_packet` goes on, the radio drains its queue,
  and the main loop runs a callback that is owed. No thread has to start a call.
* `PhoneLinks`: threads that can run do, `Event.wait` and timers end, and the
  main loop takes the events of the Bluetooth stack (strong, since the loop is now
  and then inside a hook). The stack reports the departures it knows of (`Reported`):
  BlueZ of every link, CoreBluetooth of centrals that had subscribed. A blocked
  `recv` on a lost phone is *not* assumed to end: it ends only after something
  was sent to it.
* `NodeRelay` and `LocationAuthz` are checked for safety only.

## 4. Proofs

Every safety property that a passing run checks is also a theorem, for every
value of the constants that satisfies the modules' assumptions. A `*Proofs`
module extends the module it is about; it states the inductive invariant, has one
lemma that says a step keeps it (a case per action), and derives the theorems.

* `ZoneSyncProofs`: `TypeCorrect`; `AgeOut` (`DepartedNodesAgeOut`);
  `NoSelfRoute` (`NeverRoutesToItself`); `PeerCountCurrent`
  (`PeerCountIsCurrent`); `LiveZonesRoutable` (`LiveZonesStayRoutable`).
  `DepartedNodesAgeOut` is not inductive: it says nothing of announcements still
  on their way. `AgeInv` follows an announcement from its maker (`NowServing`)
  over the network (`InFlightRecent`: since the node stopped serving no more time
  has passed than the datagram is old) into a table (`EntriesRecent`: the entry's
  age plus the longest delivery); the peer count follows from it. For live zones
  `LiveInv` bounds the age of an entry by the time since the neighbour's latest
  announcement, an interval for each one missed, and one more while the latest is
  under way (`EntriesKeepUp`). A node that moves makes this delicate: what it
  announced before the move resets the count of missed announcements but not the
  age of the new zone's entry, so the invariant also says that such a datagram is
  older than the first announcement since (`OldZonesAreOlder`) and the entry
  younger (`SinceMove`). Two lemmas about the table are of interest by
  themselves: `ForgettingIsInvisible` (pruning changes no answer) and
  `KnownMeansRoutable`.
* `RelayMeshProofs`: `TypeCorrect`; `CredentialedTraffic`
  (`OnlyCredentialedTraffic`); `PrivateTraffic` (`PrivateTrafficStaysPrivate`). The
  two are inductive with the types; the lemma `HandleEffects` says what one
  handler call can add to the state, and both proofs rest on it.
* `NodeRelayProofs`: `TypeCorrect`; `RelayKeepsContract` (`KeepsContract`, the
  refinement of `RelayContract`); `EveryPacketAccountedFor`
  (`ReceivedIsAccountedFor`); `EverySendCounted` (`SendsAreCounted`);
  `HeartbeatsBalance` (`HeartbeatIsConsistent`). The contract needs what holds
  between the steps of a handler call: a packet that was taken and not yet offered
  is in the hands of one thread (`OneHolder`), the dedup cache knows it
  (`TakenIsSeen`), and only packets meant for the cell get that far
  (`MeantForCell`). Then each step of the handler is a step of the contract or a
  stutter. The counters need counting: the lemmas about `At` say how the number of
  threads at some labels changes when one moves, and `OutcomesWereAccepted` adds
  the outcomes still open to those counted.
* `LocationAuthzProofs`: `TypeCorrect`; `NoResponseWithoutConsent`
  (`ConsentBehindEveryResponse`); `RevokedQueriesGetNoAnswer` (`RevocationHolds`);
  `RateLimitHolds` (`ResponsesAreSpaced`). What a thread has checked is in its
  locals while others run: `ConsentIsCarried` says it is still true at every later
  label, `RevokedStops` that a query which was revoked before that check gets no
  further than the look at the set. For the rate limit, `_last_query` is the latest
  slot of the boot (`SlotsAreLatest`) and slots are apart whether their response is
  sent or on its way (`SlotsAreApart`); so it does not matter that the clock is read
  before the slot is taken, or steps back.
* `NodeBootProofs`: for the caches alone `TypeCorrect`, `ServedIndex`
  (`IndexWasServed`) and `KeyedNodes` (`NoNodeWithoutKey`). `ServedInv` adds that
  the file, and the listing about to be written to it, were served; `KeyInv` that
  the directory is written only by a node that is past the key. For the whole boot
  `BootImplementsCaches`: a boot with the access point is a behaviour of
  `OfflineCaches` (an orderly stop and an abort are crashes to it), so the theorems
  hold of it, which is `BootedNodes`; `BootTypeCorrect` (`BootTypeOK`);
  `SettingsSafe` (`OriginalIsSafe`). The last is inductive together with
  `WritesWhenSaved`: `start()` gets to its write without a backup only if there was
  nothing to save.
* `GattStreamProofs`: `TypeCorrect`; `ChunksInOrder` (`ChunksStayInOrder`);
  `NoChunkLost` (`NoChunkIsLost`). The line is what is sent and, behind it, what
  waits and is not being sent (`Rest`). `OneSender` gives each packet one thread,
  `LineIsBehind` puts what is on the line behind the thread's place in its packet,
  and `OvertakesOthersOnly` is the reason the unlocked backlog keeps packets in
  order: a thread that found it empty overtakes only chunks of other packets.
  `InOrder` and `NothingVanishes` say of the halves of the line what the two
  properties say of the whole.
* `PhoneLinksProofs`: `TypeCorrect`; `ListedPeersHaveReaders` (`PeersHaveReaders`).
  They need that the accept loop has a
  connection in hand exactly between `accept()` and the start of its reader, and
  the main loop a phone while it runs a hook (`HandsFit`).
* `BackendProxyProofs`: `TypeCorrect`; `StreamsAreWhole` (`StreamIsWhole`);
  `NoCallOnceStopped` (`NoCallAfterStop`). `TypeOK` needs `LinksFit` (a phone
  without a link has nothing under way), `StreamIsWhole` also that a packet under
  way is one the assembler accepts (`DueAreShort`), `NoCallAfterStop` that the queue
  of a pool that is shut down stays empty (`QueueIsCancelled`).

  `Feed`, `Frames` and `RequestsIn` are recursive functions, so what they compute
  has to be shown first. Induction is the choice of a least counterexample, from
  the well-foundedness of the natural numbers (`LeastNumber`, `Shortest`).
  `RecursionDefines` shows that a recursion whose argument gets smaller defines a
  function; `FeedUnfolds`, `FramesUnfolds` and `RequestsInType` apply it. The main
  lemma is `FeedReadsFrames`: fed with any part `s` of a stream of frames, cut where
  it may be, the assembler hands over the first of the packets, and what it keeps
  is, with the bytes still to come, the stream of the others.

Assumptions used: the named ASSUMEs of the modules. They are disjoint model
values, types of the attribute functions and of the worlds, and natural bounds;
for the gossip that timing constants are natural numbers, the interval is not 0
and zones are finitely many; for the relay that threads are; for the location
service that there is a user, and that the wall clock starts at least the interval
after 0; for the framing that a length has two bytes and `MAX_FRAME` fits them.
TLC evaluates them in every run.

Only model-checked are the liveness properties, since fairness is out of the
prover's reach: `EventuallyConverged`, `PresentationsSpread`, `ZoneIsReached`,
`FloodsDieOut`, `DirectoryTracksBackend`, `BacklogIsFlushed`,
`PingsEnd`, `DepartedPhonesDisappear`, `PhonesGetPinged`, `RequestsAreAnswered` and
`ReceivePathStaysFree`.

## 5. Not modelled, and observations

Not modelled: host probes (they read the host and keep nothing), D-Bus and
CoreBluetooth registration, the hostapd backend (one script, nothing to restore),
the deployment file, JSON and packet encodings (I/O and formats), the settings of
`config.py` other than as constants.

Met while modelling, without a run of their own:

* A zone served by two nodes: once a route is learned only one of them gets the
  zone's packets (`backhaul/batman_backhaul.py:103`), although `backhaul/base.py:20`
  says "node(s)". `ZoneIsReached` therefore speaks of one serving node.
* Comment and code disagree about location queries: "Consumed messages (beacons,
  queries) are NOT fanned out: a raw coordinate or a location query must never reach
  other phones" (`relay.py:176-177`), but `handle_node_terminated` returns `False` for
  a query so that it "keeps spraying toward the target phone"
  (`location/service.py:94-98`), and `tests/test_location_relay.py:105-109` expects
  that. `RelayMesh` follows the code: only beacons are consumed, a query is a message
  like another (`Terminated`), and `PrivateTrafficStaysPrivate` is not about queries.
* `write_text` truncates before it writes, so a crash leaves a torn file. The next
  boot without internet then has lost its only copy of the directory and starts with
  an empty one (`directory/cache.py:70`); `IndexWasServed` says only that the torn
  file is not taken for a directory. A torn key is used as it is
  (`attestation/organiser_key.py:30`, `36`), and whether `AttestationCache` refuses it
  is up to `meshlink-core`; `NoNodeWithoutKey` allows it.
* A directory answer that is JSON of another shape raises `TypeError` out of
  `refresh`, which catches `OSError`, `ValueError` and `KeyError` only
  (`directory/cache.py:64`); the models treat it like an incomplete row.
* CoreBluetooth's backlog has a lost wake-up: a chunk refused by the system and
  appended after the ready callback has run, or appended to a backlog just
  emptied, waits with no callback owed, and later chunks queue up behind it until
  the queue fills again by another thread's send (`ble/corebluetooth.py:183-190`).
  `BacklogIsFlushed` holds only while a callback is owed.
* An exception of the stack in the middle of a packet is swallowed by
  `BleTransport.send` (`transport/ble_transport.py:34-38`), and a `StopNotify` drops
  the chunks behind it: either leaves part of a frame on the stream, whose length
  then swallows the packets that follow. `NoChunkIsLost` counts such chunks as
  dropped, and `PacketsStayWhole` is about packets that were not broken off.
* `sendall` on one socket from two threads (`transport/wifi_transport.py:83`) may mix
  the parts of two frames when the send buffer is full, as chunks do over BLE.
* A central that writes before it subscribes gets no connect ping
  (`ble/base.py:64`); the sweep pings it.
* Revocations do not survive a restart, as documented.
* Beacons are ordered by arrival; an older one may overwrite a newer one.
* The identity of `docs/heartbeat-payload.md:78` is off by packets in flight.
* Some proxy requests get no reply at all, although "status 0 means the node itself
  could not complete the call" (`backend_proxy.py:21`): a reply of 64 KiB and more
  does not fit the 16-bit length (`ble/framing.py:17`, while `MAX_RESPONSE_BYTES` is
  256 KiB); reading the body of a rejection can time out inside the `except` clause
  (`backend_proxy.py:223`); a BLE phone that has not subscribed hears nothing.
  `RequestsAreAnswered` names these.
* A request longer than `MAX_FRAME` (460 bytes, less than some bearer tokens in its
  headers need) ends a Wi-Fi connection and leaves a BLE stream out of step until
  the link ends, since only the buffered bytes are dropped (`ble/base.py:68-70`).
  Packets decoded before a bad length in the same `feed` are lost with it.
* CoreBluetooth reports the loss of centrals that had subscribed only
  (`ble/corebluetooth.py:12-15`, `78-81`). One that wrote and left before it
  subscribed stays among the peers unless it comes back and subscribes: every sweep
  goes on to address it, and `DepartedPhonesDisappear` asks of it only that its
  report goes. One that wrote part of a frame and left before it
  subscribed leaves its assembler for its next link, although "reconnecting must
  start from a clean buffer" (`tests/test_gatt_base.py`). `StreamIsWhole` excepts it.
* `shutil.copy2` is not atomic (`wifi_ap/internet_sharing.py:141`): a crash inside it
  leaves part of a backup, which no later start replaces and the next stop moves
  over the file. After a failed copy `stop()` does so at once, although `start()`
  had changed nothing. `OriginalIsSafe` excepts both, and an edit by the user under
  the backup of a node that crashed, which the next stop undoes. `shutil.move` in
  `stop()` is a rename, since both files are in one directory; that it copies and
  unlinks where the rename is refused is not modelled.
* If the host had no sharing settings, nothing is backed up: the node's own stay
  after `stop()`, and the next start saves them as if they were the user's.
* A settings file that is cut off inside its XML raises `ExpatError`, which neither
  `_write_sharing_config` nor `_provision_ap` catches, so the node aborts at every
  boot, although provisioning "never aborts the node" (`main.py:208`).
* The access point is up long before the `try` that stops it (`main.py:91`, `188`): a
  directory that cannot be written, or anything else raised in between, leaves the
  host with the node's settings.

## 6. Plan

1. `ZoneSync` below `RelayMesh` as a refinement (routes of the mesh are routes the
   gossip can produce), and a bounded-time form of convergence, which would be a
   safety property and could be proved.
2. What a node's own threads do to a flood: `NodeRelay` in place of the atomic
   handler of `RelayMesh`, by way of `RelayContract`.
3. Safety counterparts of the liveness properties that could be proved, such as
   an order on the hops of a flood that strictly decreases.
