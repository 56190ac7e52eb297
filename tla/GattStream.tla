----------------------------- MODULE GattStream -----------------------------
(***************************************************************************)
(* How packets leave the node.  Over BLE, send_packet frames a packet,     *)
(* cuts it into chunks and hands them one by one to the Bluetooth stack,   *)
(* which notifies them to every subscribed phone (node/ble/base.py and     *)
(* framing.py, and the outbound halves of bluez.py and corebluetooth.py).  *)
(* Over Wi-Fi, sendall gives a frame to one phone's socket, in parts when  *)
(* the send buffer is short of room (node/transport/wifi_transport.py).    *)
(*                                                                         *)
(* send_packet is called without a lock from the main loop, the backhaul's *)
(* receive thread, the proxy's workers and ping timers, while CoreBluetooth *)
(* calls _flush_pending on the main loop.  A chunk is its packet and its   *)
(* number in the packet; the bytes are left out.                           *)
(***************************************************************************)
EXTENDS Naturals, Sequences

CONSTANTS
    Backends,  \* the transports to look at
    Main,      \* the thread of run_forever, on which all callbacks run
    Workers,   \* the other threads that send packets
    Packets,   \* the packets to be sent, each by any thread
    Size,      \* Size[p]: the number of chunks of packet p
    Window,    \* length of CoreBluetooth's transmit queue
    NoPacket   \* not a packet

ASSUME BackendsAssumption == Backends \subseteq {"bluez", "corebluetooth", "wifi"}
ASSUME ThreadsAssumption == Main \notin Workers
ASSUME PacketsAssumption == NoPacket \notin Packets
ASSUME SizeAssumption == Size \in [Packets -> Nat \ {0}]
ASSUME WindowAssumption == Window \in Nat \ {0}

VARIABLES
    backend,   \* the Bluetooth stack of the platform, or "wifi"
    on,        \* _tx_char is set (CoreBluetooth), notifying (BlueZ), the
               \* connection is there (Wi-Fi)
    unsent,    \* packets nobody has sent yet
    pc,        \* pc[t]: where thread t is in send_packet or _flush_pending
    cur,       \* cur[t]: the packet it sends
    part,      \* part[t]: the number of the chunk it has in hand
    pending,   \* _pending: chunks that wait for the transmit queue
    space,     \* free places in the transmit queue
    owed,      \* the system owes an IsReadyToUpdateSubscribers callback
    air,       \* all chunks the stack took, in order
    skipped    \* chunks dropped: nobody could receive them, or the stack failed

vars == <<backend, on, unsent, pc, cur, part, pending, space, owed, air, skipped>>

Threads == Workers \cup {Main}

Chunk(t) == [p |-> cur[t], i |-> part[t]]

-----------------------------------------------------------------------------

Init ==
    /\ backend \in Backends
    /\ on = (backend = "wifi")
    /\ unsent = Packets
    /\ pc = [t \in Threads |-> "idle"]
    /\ cur = [t \in Threads |-> NoPacket]
    /\ part = [t \in Threads |-> 1]
    /\ pending = <<>>
    /\ space = Window
    /\ owed = FALSE
    /\ air = <<>>
    /\ skipped = {}

\* One chunk too many.
AdvanceTooFar(t) ==
    IF part[t] <= Size[cur[t]]
    THEN /\ part' = [part EXCEPT ![t] = @ + 1]
         /\ pc' = [pc EXCEPT ![t] = "test"]
         /\ UNCHANGED cur
    ELSE /\ part' = [part EXCEPT ![t] = 1]
         /\ pc' = [pc EXCEPT ![t] = "idle"]
         /\ cur' = [cur EXCEPT ![t] = NoPacket]

\* The loop of send_packet: on to the next chunk, or done.
Advance(t) ==
    IF part[t] < Size[cur[t]]
    THEN /\ part' = [part EXCEPT ![t] = @ + 1]
         /\ pc' = [pc EXCEPT ![t] = "test"]
         /\ UNCHANGED cur
    ELSE /\ part' = [part EXCEPT ![t] = 1]
         /\ pc' = [pc EXCEPT ![t] = "idle"]
         /\ cur' = [cur EXCEPT ![t] = NoPacket]

\* A thread starts to send a packet.
SendPacket(t, p) ==
    /\ pc[t] = "idle"
    /\ p \in unsent
    /\ unsent' = unsent \ {p}
    /\ cur' = [cur EXCEPT ![t] = p]
    /\ pc' = [pc EXCEPT ![t] = "test"]
    /\ UNCHANGED <<backend, on, part, pending, space, owed, air, skipped>>

\* Nobody is subscribed, no service is registered, or the phone is gone (send
\* does not find it, or its OSError is swallowed): the chunk is dropped.
Skip(t) ==
    /\ pc[t] = "test"
    /\ ~on
    /\ skipped' = skipped \cup {Chunk(t)}
    /\ Advance(t)
    /\ UNCHANGED <<backend, on, unsent, pending, space, owed, air>>

\* notify_chunk of BlueZ emits a signal; the bus queues it.
Emit(t) ==
    /\ backend = "bluez"
    /\ pc[t] = "test"
    /\ on
    /\ air' = Append(air, Chunk(t))
    /\ Advance(t)
    /\ UNCHANGED <<backend, on, unsent, pending, space, owed, skipped>>

\* The socket takes a part of the frame; sendall comes back with the rest.
SendPart(t) ==
    /\ backend = "wifi"
    /\ pc[t] = "test"
    /\ on
    /\ air' = Append(air, Chunk(t))
    /\ Advance(t)
    /\ UNCHANGED <<backend, on, unsent, pending, space, owed, skipped>>

\* The backlog is not looked at.
TestNothing(t) ==
    /\ backend = "corebluetooth"
    /\ pc[t] = "test"
    /\ on
    /\ pc' = [pc EXCEPT ![t] = "update"]
    /\ UNCHANGED <<backend, on, unsent, cur, part, pending, space, owed, air, skipped>>

\* _notify_chunk of CoreBluetooth tests whether there is a backlog.
TestBacklog(t) ==
    /\ backend = "corebluetooth"
    /\ pc[t] = "test"
    /\ on
    /\ pc' = [pc EXCEPT ![t] = IF pending # <<>> THEN "append" ELSE "update"]
    /\ UNCHANGED <<backend, on, unsent, cur, part, pending, space, owed, air, skipped>>

\* updateValue: the transmit queue takes the chunk, or is full.
Update(t) ==
    /\ pc[t] = "update"
    /\ IF space > 0
       THEN /\ air' = Append(air, Chunk(t))
            /\ space' = space - 1
            /\ Advance(t)
            /\ UNCHANGED owed
       ELSE /\ owed' = TRUE
            /\ pc' = [pc EXCEPT ![t] = "append"]
            /\ UNCHANGED <<air, space, cur, part>>
    /\ UNCHANGED <<backend, on, unsent, pending, skipped>>

\* A chunk that is refused is not queued.
AppendBacklogOnly(t) ==
    /\ pc[t] = "append"
    /\ pending' = IF pending = <<>> THEN pending ELSE Append(pending, Chunk(t))
    /\ Advance(t)
    /\ UNCHANGED <<backend, on, unsent, space, owed, air, skipped>>

\* The chunk joins the backlog.
AppendPending(t) ==
    /\ pc[t] = "append"
    /\ pending' = Append(pending, Chunk(t))
    /\ Advance(t)
    /\ UNCHANGED <<backend, on, unsent, space, owed, air, skipped>>

\* The stack raises an exception, which BleTransport.send swallows: the rest of
\* the packet is dropped.
Raise(t) ==
    /\ \/ backend = "bluez" /\ pc[t] = "test" /\ on
       \/ pc[t] = "update"
    /\ skipped' = skipped \cup {[p |-> cur[t], i |-> i] : i \in part[t] .. Size[cur[t]]}
    /\ part' = [part EXCEPT ![t] = 1]
    /\ pc' = [pc EXCEPT ![t] = "idle"]
    /\ cur' = [cur EXCEPT ![t] = NoPacket]
    /\ UNCHANGED <<backend, on, unsent, pending, space, owed, air>>

\* The radio sends a chunk of the transmit queue.
Transmit ==
    /\ space < Window
    /\ space' = space + 1
    /\ UNCHANGED <<backend, on, unsent, pc, cur, part, pending, owed, air, skipped>>

\* The callback the system owes, once the main loop is free to run it.
Ready ==
    /\ owed
    /\ space > 0
    /\ pc[Main] = "idle"
    /\ owed' = FALSE
    /\ pc' = [pc EXCEPT ![Main] = "flush"]
    /\ UNCHANGED <<backend, on, unsent, cur, part, pending, space, air, skipped>>

\* One turn of _flush_pending: done, refused, or sent and yet to be removed.
Flush ==
    /\ pc[Main] = "flush"
    /\ \/ /\ pending = <<>>
          /\ pc' = [pc EXCEPT ![Main] = "idle"]
          /\ UNCHANGED <<space, owed, air>>
       \/ /\ pending # <<>>
          /\ space = 0
          /\ owed' = TRUE
          /\ pc' = [pc EXCEPT ![Main] = "idle"]
          /\ UNCHANGED <<space, air>>
       \/ /\ pending # <<>>
          /\ space > 0
          /\ air' = Append(air, Head(pending))
          /\ space' = space - 1
          /\ pc' = [pc EXCEPT ![Main] = "pop"]
          /\ UNCHANGED owed
    /\ UNCHANGED <<backend, on, unsent, cur, part, pending, skipped>>

\* One chunk is sent per callback.
PopOnce ==
    /\ pc[Main] = "pop"
    /\ pending' = Tail(pending)
    /\ pc' = [pc EXCEPT ![Main] = "idle"]
    /\ UNCHANGED <<backend, on, unsent, cur, part, space, owed, air, skipped>>

\* popleft, then the loop goes on.
Pop ==
    /\ pc[Main] = "pop"
    /\ pending' = Tail(pending)
    /\ pc' = [pc EXCEPT ![Main] = "flush"]
    /\ UNCHANGED <<backend, on, unsent, cur, part, space, owed, air, skipped>>

\* The service is registered, or the first phone subscribes.
TurnOn ==
    /\ ~on /\ backend # "wifi"
    /\ pc[Main] = "idle"
    /\ on' = TRUE
    /\ UNCHANGED <<backend, unsent, pc, cur, part, pending, space, owed, air, skipped>>

\* StopNotify of BlueZ: the last phone unsubscribed.
TurnOff ==
    /\ backend = "bluez"
    /\ on
    /\ pc[Main] = "idle"
    /\ on' = FALSE
    /\ UNCHANGED <<backend, unsent, pc, cur, part, pending, space, owed, air, skipped>>

\* The phone's connection breaks; if it comes back it has another peer id.
LosePeer ==
    /\ backend = "wifi"
    /\ on
    /\ on' = FALSE
    /\ UNCHANGED <<backend, unsent, pc, cur, part, pending, space, owed, air, skipped>>

Notify(t) ==
    \/ Skip(t) \/ Emit(t) \/ SendPart(t) \/ TestBacklog(t) \/ Update(t) \/ AppendPending(t)
    \/ Raise(t)

Next ==
    \/ \E t \in Threads : \E p \in Packets : SendPacket(t, p)
    \/ \E t \in Threads : Skip(t)
    \/ \E t \in Threads : Emit(t)
    \/ \E t \in Threads : SendPart(t)
    \/ \E t \in Threads : TestBacklog(t)
    \/ \E t \in Threads : Update(t)
    \/ \E t \in Threads : AppendPending(t)
    \/ \E t \in Threads : Raise(t)
    \/ Transmit
    \/ Ready
    \/ Flush
    \/ Pop
    \/ TurnOn
    \/ TurnOff
    \/ LosePeer

Spec == Init /\ [][Next]_vars

\* Threads that are in a call go on, the radio sends, and the main loop runs
\* the callback it was given.
Fairness ==
    /\ \A t \in Threads : WF_vars(Notify(t))
    /\ WF_vars(Transmit)
    /\ WF_vars(Ready)
    /\ WF_vars(Flush \/ Pop)

FairSpec == Spec /\ Fairness

-----------------------------------------------------------------------------

Chunks == [p : Packets, i : Nat]

\* Type correctness of the outbound stream.
TypeOK ==
    /\ backend \in Backends
    /\ on \in BOOLEAN
    /\ unsent \subseteq Packets
    /\ pc \in [Threads -> {"idle", "test", "update", "append", "flush", "pop"}]
    /\ \A t \in Workers : pc[t] \notin {"flush", "pop"}
    /\ cur \in [Threads -> Packets \cup {NoPacket}]
    /\ part \in [Threads -> Nat]
    /\ \A t \in Threads :
          part[t] \in IF cur[t] = NoPacket THEN {1} ELSE 1 .. Size[cur[t]]
    /\ pending \in Seq(Chunks)
    /\ space \in 0 .. Window
    /\ owed \in BOOLEAN
    /\ air \in Seq(Chunks)
    /\ skipped \subseteq Chunks

\* The backlog without a chunk that is sent and not yet removed from it.
Rest == IF pc[Main] = "pop" THEN Tail(pending) ELSE pending

\* What the phones have got and will get, in order.
Line == air \o Rest

\* The chunks of a packet reach the phones in their order and none of them
\* twice, with any number of threads that send and overtake each other at the
\* full transmit queue ("Preserve chunk order behind the existing backlog",
\* corebluetooth.py:184).
ChunksStayInOrder ==
    \A j, k \in 1 .. Len(Line) :
        j < k /\ Line[j].p = Line[k].p => Line[j].i < Line[k].i

\* Thread t has not yet disposed of chunk i of packet p.
InHand(p, i) == \E t \in Threads : cur[t] = p /\ part[t] <= i

\* Every chunk send_packet was asked to send is still in hand, was notified,
\* waits in the backlog, or was dropped because nobody listened or the stack
\* raised an exception.
NoChunkIsLost ==
    \A p \in Packets \ unsent : \A i \in 1 .. Size[p] :
        \/ InHand(p, i)
        \/ [p |-> p, i |-> i] \in skipped
        \/ \E k \in 1 .. Len(Line) : Line[k] = [p |-> p, i |-> i]

Waiting(p, i) == \E k \in 1 .. Len(pending) : pending[k] = [p |-> p, i |-> i]
Sent(p, i) == \E k \in 1 .. Len(air) : air[k] = [p |-> p, i |-> i]

\* A chunk that waits while the system owes a callback is sent: "chunks are
\* buffered in order and flushed on IsReadyToUpdateSubscribers"
\* (corebluetooth.py:18).
BacklogIsFlushed ==
    \A p \in Packets : \A i \in 1 .. Size[p] :
        (Waiting(p, i) /\ owed) ~> Sent(p, i)

\* The stack was handed every chunk of packet p up to now.
Unbroken(p) == \A i \in 1 .. Size[p] : [p |-> p, i |-> i] \notin skipped

\* The phones get every packet that was not broken off in one piece: "the
\* receiver reassembles from the ordered byte stream" (framing.py:6).
PacketsStayWhole ==
    \A k \in 1 .. Len(air) - 1 :
        air[k].i < Size[air[k].p] /\ Unbroken(air[k].p) => air[k + 1].p = air[k].p
=============================================================================
