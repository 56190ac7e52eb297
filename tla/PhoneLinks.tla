----------------------------- MODULE PhoneLinks -----------------------------
(***************************************************************************)
(* The phones of one node and the service that pings them: the Wi-Fi       *)
(* transport with its accept loop and a reader thread per connection, the  *)
(* BLE server's list of centrals, and the phone ping with its sweep thread *)
(* and connect timers, from start to the shutdown of main().  Models       *)
(* node/transport/wifi_transport.py, node/transport/multi_transport.py,    *)
(* node/monitoring/phone_ping.py, the inbound half of node/ble/base.py and *)
(* the shutdown order of node/main.py.                                     *)
(*                                                                         *)
(* A Wi-Fi phone stands for one connection: its peer id is its address and *)
(* port, and the port is not reused while the node holds the socket.       *)
(***************************************************************************)
EXTENDS Naturals

CONSTANTS
    Wifi,        \* Wi-Fi phones
    Ble,         \* BLE phones
    ReportTtl,   \* report_ttl_s, in ticks
    NoPhone      \* not a phone

Phones == Wifi \cup Ble

ASSUME PhonesAssumption == Wifi \cap Ble = {} /\ NoPhone \notin Phones
ASSUME ReportTtlAssumption == ReportTtl \in Nat

VARIABLES
    link,       \* link[p]: the phone is away, here, left, or lost unnoticed
    accept,     \* where the accept loop is
    taken,      \* the connection it has in hand
    conns,      \* _conns: the Wi-Fi peers that can be sent to
    reader,     \* reader[p]: the reader thread of the connection
    stack,      \* the Bluetooth stack of the platform
    connected,  \* _connected: the BLE centrals that can be sent to
    subscribed, \* BLE phones that get notifications
    main,       \* where the main thread is: its loop, a hook, the shutdown
    hooked,     \* the BLE phone whose connect hook it runs
    timer,      \* timer[p]: the connect timer of the phone
    timers,     \* _connect_timers
    stopped,    \* the ping service's _stop
    sweep,      \* where the sweep thread is
    todo,       \* peers it has still to ping
    pinged,     \* phones that got a ping and have not answered it
    age         \* age[p]: ticks since its report was received, up to NoReport

wifiVars == <<accept, taken, conns, reader>>
bleVars == <<stack, connected, subscribed>>
timerVars == <<timer, timers>>
pingVars == <<sweep, todo, pinged, age>>
vars == <<link, wifiVars, bleVars, main, hooked, timerVars, stopped, pingVars>>

\* A report that is stale, or was dropped for it, is shown by nobody.
NoReport == ReportTtl + 1
Stopping == main \notin {"loop", "hook"}
Here(p) == link[p] = "here"
Gone(p) == link[p] \in {"left", "lost"}

-----------------------------------------------------------------------------

Init ==
    /\ link = [p \in Phones |-> "away"]
    /\ accept = "accept" /\ taken = NoPhone
    /\ conns = {} /\ reader = [p \in Wifi |-> "none"]
    /\ stack \in {"bluez", "corebluetooth"}
    /\ connected = {} /\ subscribed = {}
    /\ main = "loop" /\ hooked = NoPhone
    /\ timer = [p \in Phones |-> "none"] /\ timers = {} /\ stopped = FALSE
    /\ sweep = "wait" /\ todo = {} /\ pinged = {}
    /\ age = [p \in Phones |-> NoReport]

\* The phones

Arrive(p) ==
    /\ link[p] = "away"
    /\ link' = [link EXCEPT ![p] = "here"]
    /\ UNCHANGED <<wifiVars, bleVars, main, hooked, timerVars, stopped, pingVars>>

\* A phone closes its connection, or walks out of range.  A BLE link's end
\* shows, or does not, the same either way.
Depart(p, how) ==
    /\ Here(p)
    /\ how = "lost" => p \in Wifi
    /\ link' = [link EXCEPT ![p] = how]
    /\ UNCHANGED <<wifiVars, bleVars, main, hooked, timerVars, stopped, pingVars>>

\* PhonePingService.on_peer_connected, first half: the timer is made and
\* tracked, and timers whose thread does not run are dropped from the set.
Track(p) ==
    /\ timer' = [timer EXCEPT ![p] = "new"]
    /\ timers' = {q \in timers : timer[q] \in {"armed", "firing"}} \cup {p}

\* Second half: the timer's thread is started.
Arm(p) ==
    /\ timer' = [timer EXCEPT ![p] = IF @ = "new" THEN "armed" ELSE "none"]
    /\ UNCHANGED timers

\* WifiTransport

\* accept() returns a connection, as long as the listener is open.
Accept(p) ==
    /\ accept = "accept"
    /\ main # "done"
    /\ link[p] # "away" /\ reader[p] = "none"
    /\ accept' = "list" /\ taken' = p
    /\ UNCHANGED <<link, conns, reader, bleVars, main, hooked, timerVars, stopped,
                   pingVars>>

ListConn ==
    /\ accept = "list"
    /\ conns' = conns \cup {taken}
    /\ accept' = "track"
    /\ UNCHANGED <<link, taken, reader, bleVars, main, hooked, timerVars, stopped,
                   pingVars>>

TrackConn ==
    /\ accept = "track"
    /\ Track(taken)
    /\ accept' = "arm"
    /\ UNCHANGED <<link, taken, conns, reader, bleVars, main, hooked, stopped,
                   pingVars>>

ArmConn ==
    /\ accept = "arm"
    /\ Arm(taken)
    /\ accept' = "spawn"
    /\ UNCHANGED <<link, taken, conns, reader, bleVars, main, hooked, stopped,
                   pingVars>>

\* The reader thread starts, and the loop goes on.
Spawn ==
    /\ accept = "spawn"
    /\ reader' = [reader EXCEPT ![taken] = "reading"]
    /\ accept' = "accept"
    /\ taken' = NoPhone
    /\ UNCHANGED <<link, conns, bleVars, main, hooked, timerVars, stopped,
                   pingVars>>

\* recv() ends: the phone closed the connection, its stream was corrupt, or
\* the kernel gave up on a lost phone after something was sent to it.
ReadEnds(p) ==
    /\ reader[p] = "reading"
    /\ link[p] # "lost"
    /\ reader' = [reader EXCEPT ![p] = "leaving"]
    /\ link' = [link EXCEPT ![p] = "left"]
    /\ UNCHANGED <<accept, taken, conns, bleVars, main, hooked, timerVars, stopped,
                   pingVars>>

\* The reader ends without its finally block.
LeaveListed(p) ==
    /\ reader[p] = "leaving"
    /\ reader' = [reader EXCEPT ![p] = "done"]
    /\ UNCHANGED <<link, accept, taken, conns, bleVars, main, hooked, timerVars, stopped,
                   pingVars>>

\* The reader's finally block.
Leave(p) ==
    /\ reader[p] = "leaving"
    /\ reader' = [reader EXCEPT ![p] = "done"]
    /\ conns' = conns \ {p}
    /\ UNCHANGED <<link, accept, taken, bleVars, main, hooked, timerVars, stopped,
                   pingVars>>

\* The BLE server, on the main loop

\* _peer_connected: BlueZ reports a link, CoreBluetooth only a subscription.
\* The hook runs for a central that is new.
BleConnect(p) ==
    /\ main = "loop"
    /\ Here(p)
    /\ connected' = connected \cup {p}
    /\ subscribed' = IF stack = "bluez" THEN subscribed ELSE subscribed \cup {p}
    /\ IF p \notin connected
       THEN main' = "hook" /\ hooked' = p /\ Track(p)
       ELSE UNCHANGED <<main, hooked, timerVars>>
    /\ UNCHANGED <<link, wifiVars, stack, stopped, pingVars>>

\* StartNotify of BlueZ: the central subscribes some time after it connected.
BleSubscribe(p) ==
    /\ main = "loop" /\ stack = "bluez"
    /\ Here(p) /\ p \in connected
    /\ subscribed' = subscribed \cup {p}
    /\ UNCHANGED <<link, wifiVars, stack, connected, main, hooked, timerVars, stopped,
                   pingVars>>

BleArm ==
    /\ main = "hook"
    /\ Arm(hooked)
    /\ main' = "loop" /\ hooked' = NoPhone
    /\ UNCHANGED <<link, wifiVars, bleVars, stopped, pingVars>>

\* The central stays on the list.
BleUnsubscribe(p) ==
    /\ main = "loop"
    /\ Gone(p) /\ p \in subscribed
    /\ subscribed' = subscribed \ {p}
    /\ UNCHANGED <<link, wifiVars, stack, connected, main, hooked, timerVars, stopped,
                   pingVars>>

\* The stack tells the server that the phone left: BlueZ of every link,
\* CoreBluetooth of a central that had subscribed.
Reported(p) == stack = "bluez" \/ p \in subscribed

\* _peer_disconnected
BleDisconnect(p) ==
    /\ main = "loop"
    /\ Gone(p) /\ p \in connected /\ Reported(p)
    /\ connected' = connected \ {p}
    /\ subscribed' = subscribed \ {p}
    /\ UNCHANGED <<link, wifiVars, stack, main, hooked, timerVars, stopped, pingVars>>

\* MultiTransport.send to a peer: what arrives, and where it shows that a
\* phone is lost.  A BLE notification goes to every subscribed central.
Reaches(p) ==
    IF p \in Wifi THEN {p} \cap {q \in conns : Here(q)}
    ELSE {q \in subscribed : Here(q)}

Probe(p) == [link EXCEPT ![p] = IF @ = "lost" /\ p \in conns THEN "left" ELSE @]

\* PhonePingService

\* The delay is over: _fire_connect_ping looks at the stop event first.
Fire(p) ==
    /\ timer[p] = "armed"
    /\ timer' = [timer EXCEPT ![p] = IF stopped THEN "none" ELSE "firing"]
    /\ UNCHANGED <<link, wifiVars, bleVars, main, hooked, timers, stopped, pingVars>>

ConnectPing(p) ==
    /\ timer[p] = "firing"
    /\ timer' = [timer EXCEPT ![p] = "none"]
    /\ pinged' = pinged \cup Reaches(p)
    /\ link' = Probe(p)
    /\ UNCHANGED <<accept, taken, conns, reader, bleVars, main, hooked, timers, stopped,
                   sweep, todo, age>>

\* The stop event is not looked at.
SweepAgain ==
    /\ sweep = "wait"
    /\ sweep' = "sweep"
    /\ todo' = connected \cup conns
    /\ UNCHANGED <<link, wifiVars, bleVars, main, hooked, timerVars, stopped,
                   pinged, age>>

\* The interval is over: list_peers, or the end of the thread.
StartSweep ==
    /\ sweep = "wait"
    /\ IF stopped THEN sweep' = "ended" /\ UNCHANGED todo
       ELSE sweep' = "sweep" /\ todo' = connected \cup conns
    /\ UNCHANGED <<link, wifiVars, bleVars, main, hooked, timerVars, stopped,
                   pinged, age>>

\* ping_peer for one peer of the list.
PingNext(p) ==
    /\ sweep = "sweep"
    /\ p \in todo
    /\ todo' = todo \ {p}
    /\ pinged' = pinged \cup Reaches(p)
    /\ link' = Probe(p)
    /\ UNCHANGED <<accept, taken, conns, reader, bleVars, main, hooked, timerVars, stopped,
                   sweep, age>>

\* The thread ends after a sweep.
EndOnlySweep ==
    /\ sweep = "sweep"
    /\ todo = {}
    /\ sweep' = "ended"
    /\ UNCHANGED <<link, wifiVars, bleVars, main, hooked, timerVars, stopped,
                   todo, pinged, age>>

EndSweep ==
    /\ sweep = "sweep"
    /\ todo = {}
    /\ sweep' = "wait"
    /\ UNCHANGED <<link, wifiVars, bleVars, main, hooked, timerVars, stopped,
                   todo, pinged, age>>

\* Any other frame a central writes, perhaps before it subscribes.
BleWrite(p) ==
    /\ main = "loop"
    /\ Here(p)
    /\ connected' = connected \cup {p}
    /\ UNCHANGED <<link, wifiVars, stack, subscribed, main, hooked, timerVars, stopped,
                   pingVars>>

\* The node hears the phone: over its connection, or by a write on the main loop.
Heard(p) == IF p \in Wifi THEN reader[p] = "reading" ELSE main = "loop" /\ Here(p)

\* Whoever writes is put on the list.
WrittenByAny(p) == connected' = connected \cup {p}

\* _handle_chunk puts a central that writes on the list, subscribed or not.
Written(p) == connected' = connected \cup ({p} \cap Ble)

\* The phone answers a ping: handle_frame stores the report.  What it sent
\* before it left may still be in the socket.
Answer(p) ==
    /\ p \in pinged
    /\ Heard(p)
    /\ pinged' = pinged \ {p}
    /\ age' = [age EXCEPT ![p] = 0]
    /\ Written(p)
    /\ UNCHANGED <<link, wifiVars, stack, subscribed, main, hooked, timerVars, stopped,
                   sweep, todo>>

\* Reports grow old; reports() drops those older than ReportTtl.
Tick ==
    /\ age' = [p \in Phones |-> IF age[p] < NoReport THEN age[p] + 1 ELSE NoReport]
    /\ UNCHANGED <<link, wifiVars, bleVars, main, hooked, timerVars, stopped,
                   sweep, todo, pinged>>

\* The shutdown of main(), in its order

StopPings ==
    /\ main = "loop"
    /\ main' = "pings"
    /\ stopped' = TRUE
    /\ UNCHANGED <<link, wifiVars, bleVars, hooked, timerVars, pingVars>>

\* The set is swapped and its timers are cancelled; join() waits two seconds
\* at most, so it does not hold up the rest.
CancelTimers ==
    /\ main = "pings"
    /\ main' = "timers"
    /\ timer' = [p \in Phones |->
                    CASE p \in timers /\ timer[p] = "new" -> "cancelled"
                      [] p \in timers /\ timer[p] = "armed" -> "none"
                      [] OTHER -> timer[p]]
    /\ timers' = {}
    /\ UNCHANGED <<link, wifiVars, bleVars, hooked, stopped, pingVars>>

\* WifiTransport.stop: the listener is closed and the list is emptied.
StopWifi ==
    /\ main = "timers"
    /\ main' = "done"
    /\ conns' = {}
    /\ UNCHANGED <<link, accept, taken, reader, bleVars, hooked, timerVars, stopped, pingVars>>

Next ==
    \/ \E p \in Phones : Arrive(p)
    \/ \E p \in Phones : \E how \in {"left", "lost"} : Depart(p, how)
    \/ \E p \in Wifi : Accept(p)
    \/ ListConn
    \/ TrackConn
    \/ ArmConn
    \/ Spawn
    \/ \E p \in Wifi : ReadEnds(p)
    \/ \E p \in Wifi : Leave(p)
    \/ \E p \in Ble : BleConnect(p)
    \/ \E p \in Ble : BleSubscribe(p)
    \/ BleArm
    \/ \E p \in Ble : BleDisconnect(p)
    \/ \E p \in Ble : BleWrite(p)
    \/ \E p \in Phones : Fire(p)
    \/ \E p \in Phones : ConnectPing(p)
    \/ StartSweep
    \/ \E p \in Phones : PingNext(p)
    \/ EndSweep
    \/ \E p \in Phones : Answer(p)
    \/ Tick
    \/ StopPings
    \/ CancelTimers
    \/ StopWifi

Spec == Init /\ [][Next]_vars

\* Threads that can run do: the accept loop, the readers, timers whose delay
\* is over, and the sweep at every interval; time passes, and the Bluetooth
\* stack reports the departures it knows of.
Fairness ==
    /\ \A p \in Wifi : WF_vars(Accept(p)) /\ WF_vars(Leave(p))
    /\ \A p \in Wifi : WF_vars(Gone(p) /\ ReadEnds(p))
    /\ WF_vars(ListConn \/ TrackConn \/ ArmConn \/ Spawn)
    /\ \A p \in Ble : SF_vars(BleDisconnect(p))
    /\ WF_vars(BleArm)
    /\ \A p \in Phones : WF_vars(Fire(p) \/ ConnectPing(p)) /\ WF_vars(PingNext(p))
    /\ WF_vars(StartSweep) /\ WF_vars(EndSweep) /\ WF_vars(Tick)

FairSpec == Spec /\ Fairness

-----------------------------------------------------------------------------

\* Type correctness of the links and the ping service.
TypeOK ==
    /\ link \in [Phones -> {"away", "here", "left", "lost"}]
    /\ accept \in {"accept", "list", "track", "arm", "spawn"}
    /\ taken \in Wifi \cup {NoPhone}
    /\ conns \subseteq Wifi
    /\ reader \in [Wifi -> {"none", "reading", "leaving", "done"}]
    /\ stack \in {"bluez", "corebluetooth"}
    /\ connected \subseteq Ble /\ subscribed \subseteq Ble
    /\ main \in {"loop", "hook", "pings", "timers", "done"}
    /\ hooked \in Ble \cup {NoPhone}
    /\ timer \in [Phones -> {"none", "new", "armed", "firing", "cancelled"}]
    /\ timers \subseteq Phones
    /\ stopped \in BOOLEAN
    /\ sweep \in {"wait", "sweep", "ended"}
    /\ todo \subseteq Phones
    /\ pinged \subseteq Phones
    /\ age \in [Phones -> 0 .. NoReport]

\* Every Wi-Fi peer the relay can send to has a reader thread that will take
\* it off the list, or is in the accept loop's hands: "its reader thread
\* notices the dead socket and drops it" (wifi_transport.py:86).
PeersHaveReaders ==
    \A p \in conns : reader[p] \in {"reading", "leaving"} \/ taken = p

\* After stop() pinging comes to an end, and stays there: a sweep in progress
\* still pings the rest of its list, the accept loop goes on to arm timers
\* until the listener is closed, and a timer that was dropped from the set
\* before it was started escapes its cancel(), but all of them run out.
PingsEnd ==
    stopped ~> [](sweep = "ended" /\ \A p \in Phones : timer[p] = "none")

\* A phone that left, even one that was lost without a word, is taken off the
\* peers and out of the reports ("a phone that disconnects or stops answering
\* disappears from the heartbeat on its own", phone_ping.py:102): the sweep's
\* pings are what makes a lost Wi-Fi connection show.  A central whose
\* departure the Bluetooth stack does not report goes from the reports only.
DepartedPhonesDisappear ==
    \A p \in Phones :
        Gone(p) ~> \/ age[p] = NoReport /\ p \notin conns \cup connected
                   \/ age[p] = NoReport /\ p \in Ble /\ ~Reported(p)
                   \/ Stopping

\* A phone that is listed gets another ping, whatever happens to the others,
\* also when it wrote before it subscribed and so got no connect timer.
PhonesGetPinged ==
    \A p \in Phones :
        p \in conns \cup subscribed ~> (p \in pinged \/ ~Here(p) \/ Stopping)
=============================================================================
