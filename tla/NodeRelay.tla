----------------------------- MODULE NodeRelay ------------------------------
(***************************************************************************)
(* NodeRelay._handle_packet (node/relay.py) of one node, called at the     *)
(* same time by the BLE main loop, the Wi-Fi reader threads and the        *)
(* backhaul thread, while the heartbeat thread reads the counters.  Each   *)
(* thread has a pc; a step ends where another thread can get in between:   *)
(* at a counter's lock, and at a call of the pipeline, the backhaul or the *)
(* transport.  The pipelines and the attestation cache (meshlink-core) are *)
(* external; one call of theirs is one step.                               *)
(***************************************************************************)
EXTENDS Naturals, FiniteSets

CONSTANTS
    Threads,        \* threads that deliver packets to the handler
    Keys, Packets,
    NoKey, NoPacket,    \* None
    Kind, Sender, Token,
    Ttl,            \* Ttl[p]: ttl with which p arrives
    Scope,          \* Scope[p]: "all", "own" or "other" zone
    Gated,          \* attestation is not None
    MaxArrivals     \* bound on packets handed to the node

Kinds == {"data", "query", "beacon", "present", "telemetry", "proxy"}

ASSUME ThreadsAssumption == IsFiniteSet(Threads)
ASSUME PacketAssumption ==
    /\ NoKey \notin Keys /\ NoPacket \notin Packets
    /\ Kind \in [Packets -> Kinds]
    /\ Sender \in [Packets -> Keys]
    /\ Token \in [Packets -> Keys \cup {NoKey}]
    /\ Ttl \in [Packets -> Nat]
    /\ Scope \in [Packets -> {"all", "own", "other"}]
ASSUME BoundAssumption == Gated \in BOOLEAN /\ MaxArrivals \in Nat

Counters == {"received", "accepted", "dropped", "relayed_to_phones",
             "forwarded_cross_zone", "broadcast_to_nodes",
             "attestations_cached", "location_terminated"}

VARIABLES
    pc,         \* pc[t]: where thread t is in the handler
    job,        \* job[t]: the packet it is handling
    stats,      \* _stats, under _stats_lock
    beat,       \* the counters in the last heartbeat: stats()
    seen,       \* dedup cache of _pipeline
    presented,  \* dedup cache of _presentation_pipeline
    attested,   \* keys in the AttestationCache
    arrivals,   \* packets handed to the node so far
    \* What really happened, for the properties to compare the counters with.
    taken,      \* packets the pipeline accepted
    given,      \* given[p]: times p was sent to the phones of the cell
    sent        \* sent[s]: packets sent to the backhaul, by scope

vars == <<pc, job, stats, beat, seen, presented, attested, arrivals, taken, given, sent>>

Init ==
    /\ pc = [t \in Threads |-> "idle"]
    /\ job = [t \in Threads |-> NoPacket]
    /\ stats = [k \in Counters |-> 0]
    /\ beat = [k \in Counters |-> 0]
    /\ seen = {}
    /\ presented = {}
    /\ attested = {}
    /\ arrivals = 0
    /\ taken = {}
    /\ given = [p \in Packets |-> 0]
    /\ sent = [s \in {"all", "other"} |-> 0]

Goto(t, label) ==
    /\ pc' = [pc EXCEPT ![t] = label]
    /\ job' = IF label = "idle" THEN [job EXCEPT ![t] = NoPacket] ELSE job

Count(k) == stats' = [stats EXCEPT ![k] = @ + 1]

\* The packet is not counted on arrival.
ArriveUncounted(t, p) ==
    /\ pc[t] = "idle"
    /\ arrivals < MaxArrivals
    /\ arrivals' = arrivals + 1
    /\ job' = [job EXCEPT ![t] = p]
    /\ pc' = [pc EXCEPT ![t] = "process"]
    /\ UNCHANGED <<stats, beat, seen, presented, attested, taken, given, sent>>

\* The demultiplexer takes control frames before anything is counted.
Arrive(t, p) ==
    /\ pc[t] = "idle"
    /\ arrivals < MaxArrivals
    /\ arrivals' = arrivals + 1
    /\ IF Kind[p] \in {"telemetry", "proxy"}
       THEN UNCHANGED <<pc, job, stats>>
       ELSE /\ job' = [job EXCEPT ![t] = p]
            /\ Count("received")
            /\ pc' = [pc EXCEPT ![t] =
                  IF Gated /\ Kind[p] = "present" THEN "present" ELSE "process"]
    /\ UNCHANGED <<beat, seen, presented, attested, taken, given, sent>>

\* meshlink-core's verdict.  Load, age, size or a bad signature may make it
\* drop any packet, with or without its msg_id recorded; what it accepts is
\* new, has a hop to live and, on a gated node, an attested sender.
Refused(cache, p) == Ttl[p] = 0 \/ p \in cache

\* The verdict and the recording of the msg_id come apart.
ProcessUnmarked(t) ==
    LET p == job[t] IN
    /\ pc[t] = "process"
    /\ IF Refused(seen, p) \/ (Gated /\ Sender[p] \notin attested)
       THEN Goto(t, "drop") /\ UNCHANGED taken
       ELSE Goto(t, "accept") /\ taken' = taken \cup {p}
    /\ UNCHANGED <<stats, beat, seen, presented, attested, arrivals, given, sent>>

Process(t) ==
    LET p == job[t] IN
    /\ pc[t] = "process"
    /\ \/ /\ seen' \in {seen, seen \cup {p}}
          /\ Goto(t, "drop")
          /\ UNCHANGED taken
       \/ /\ ~Refused(seen, p)
          /\ Gated => Sender[p] \in attested
          /\ seen' = seen \cup {p}
          /\ Goto(t, "accept")
          /\ taken' = taken \cup {p}
    /\ UNCHANGED <<stats, beat, presented, attested, arrivals, given, sent>>

\* The refused packet is counted as received only.
DropUncounted(t) ==
    /\ pc[t] = "drop"
    /\ Goto(t, "idle")
    /\ UNCHANGED <<stats, beat, seen, presented, attested, arrivals, taken, given, sent>>

CountDropped(t) ==
    /\ pc[t] = "drop"
    /\ Count("dropped")
    /\ Goto(t, "idle")
    /\ UNCHANGED <<beat, seen, presented, attested, arrivals, taken, given, sent>>

CountAccepted(t) ==
    /\ pc[t] = "accept"
    /\ Count("accepted")
    /\ Goto(t, IF Kind[job[t]] = "beacon" THEN "terminate"
               ELSE IF Kind[job[t]] = "query" THEN "locate"
               ELSE "route")
    /\ UNCHANGED <<beat, seen, presented, attested, arrivals, taken, given, sent>>

\* handle_node_terminated returned True: the message ends here.
CountTerminated(t) ==
    /\ pc[t] = "terminate"
    /\ Count("location_terminated")
    /\ Goto(t, "idle")
    /\ UNCHANGED <<beat, seen, presented, attested, arrivals, taken, given, sent>>

\* Serving a query may raise (a directory row without the requester's key);
\* the transport that called the handler logs it and carries on.
ServeQuery(t) ==
    /\ pc[t] = "locate"
    /\ \E next \in {"route", "idle"} : Goto(t, next)
    /\ UNCHANGED <<stats, beat, seen, presented, attested, arrivals, taken, given, sent>>

\* broadcast_to_all_nodes or forward_to_zone, nothing for the own zone.
SendBackhaul(t) ==
    /\ pc[t] = "route"
    /\ IF Scope[job[t]] = "own"
       THEN Goto(t, "relay") /\ UNCHANGED sent
       ELSE Goto(t, "routed") /\ sent' = [sent EXCEPT ![Scope[job[t]]] = @ + 1]
    /\ UNCHANGED <<stats, beat, seen, presented, attested, arrivals, taken, given>>

CountRouted(t) ==
    /\ pc[t] = "routed"
    /\ Count(IF Scope[job[t]] = "all" THEN "broadcast_to_nodes" ELSE "forwarded_cross_zone")
    /\ Goto(t, "relay")
    /\ UNCHANGED <<beat, seen, presented, attested, arrivals, taken, given, sent>>

\* The fan-out is counted even if the ttl does not allow one.
SendPhonesUncounted(t) ==
    /\ pc[t] = "relay"
    /\ Goto(t, "relayed")
    /\ IF Ttl[job[t]] - 1 > 0
       THEN given' = [given EXCEPT ![job[t]] = @ + 1]
       ELSE UNCHANGED given
    /\ UNCHANGED <<stats, beat, seen, presented, attested, arrivals, taken, sent>>

\* Fan-out to the cell with one hop less to live, if any is left.
SendPhones(t) ==
    /\ pc[t] = "relay"
    /\ IF Ttl[job[t]] - 1 > 0
       THEN Goto(t, "relayed") /\ given' = [given EXCEPT ![job[t]] = @ + 1]
       ELSE Goto(t, "idle") /\ UNCHANGED given
    /\ UNCHANGED <<stats, beat, seen, presented, attested, arrivals, taken, sent>>

CountRelayed(t) ==
    /\ pc[t] = "relayed"
    /\ Count("relayed_to_phones")
    /\ Goto(t, "idle")
    /\ UNCHANGED <<beat, seen, presented, attested, arrivals, taken, given, sent>>

\* _handle_presentation: the ungated pipeline, then add_token.
ProcessPresentation(t) ==
    LET p == job[t] IN
    /\ pc[t] = "present"
    /\ \/ /\ presented' \in {presented, presented \cup {p}}
          /\ Goto(t, "drop")
       \/ /\ ~Refused(presented, p)
          /\ presented' = presented \cup {p}
          /\ Goto(t, "token")
    /\ UNCHANGED <<stats, beat, seen, attested, arrivals, taken, given, sent>>

\* A token that does not verify is cached.
AddTokenUnchecked(t) ==
    /\ pc[t] = "token"
    /\ Goto(t, "cached")
    /\ attested' = attested \cup {Token[job[t]]}
    /\ UNCHANGED <<stats, beat, seen, presented, arrivals, taken, given, sent>>

AddToken(t) ==
    /\ pc[t] = "token"
    /\ IF Token[job[t]] = NoKey
       THEN Goto(t, "drop") /\ UNCHANGED attested
       ELSE Goto(t, "cached") /\ attested' = attested \cup {Token[job[t]]}
    /\ UNCHANGED <<stats, beat, seen, presented, arrivals, taken, given, sent>>

CountCached(t) ==
    /\ pc[t] = "cached"
    /\ Count("attestations_cached")
    /\ Goto(t, "spread")
    /\ UNCHANGED <<beat, seen, presented, attested, arrivals, taken, given, sent>>

\* Presentations travel between nodes without being counted as forwarded.
SpreadPresentation(t) ==
    /\ pc[t] = "spread"
    /\ Goto(t, "idle")
    /\ UNCHANGED <<stats, beat, seen, presented, attested, arrivals, taken, given, sent>>

\* HeartbeatSender reads stats() whenever its timer fires.
Heartbeat ==
    /\ beat' = stats
    /\ UNCHANGED <<pc, job, stats, seen, presented, attested, arrivals, taken, given, sent>>

Step(t) ==
    \/ Process(t) \/ CountDropped(t) \/ CountAccepted(t) \/ CountTerminated(t)
    \/ ServeQuery(t) \/ SendBackhaul(t) \/ CountRouted(t)
    \/ SendPhones(t) \/ CountRelayed(t)
    \/ ProcessPresentation(t) \/ AddToken(t) \/ CountCached(t) \/ SpreadPresentation(t)

Next ==
    \/ \E t \in Threads : \E p \in Packets : Arrive(t, p)
    \/ \E t \in Threads : Step(t)
    \/ Heartbeat

Spec == Init /\ [][Next]_vars

-----------------------------------------------------------------------------

Labels == {"idle", "process", "drop", "accept", "terminate", "locate", "route",
           "routed", "relay", "relayed", "present", "token", "cached", "spread"}

\* Type correctness of the relay.
TypeOK ==
    /\ pc \in [Threads -> Labels]
    /\ job \in [Threads -> Packets \cup {NoPacket}]
    /\ stats \in [Counters -> Nat]
    /\ beat \in [Counters -> Nat]
    /\ seen \subseteq Packets
    /\ presented \subseteq Packets
    /\ attested \subseteq Keys
    /\ arrivals \in 0 .. MaxArrivals
    /\ taken \subseteq Packets
    /\ given \in [Packets -> Nat]
    /\ sent \in [{"all", "other"} -> Nat]

At(labels) == Cardinality({t \in Threads : pc[t] \in labels})

Settled(s) == s["accepted"] + s["dropped"] + s["attestations_cached"]

\* No thread loses or double-counts a packet: at any moment the packets
\* received are those accepted, dropped or cached as presentations plus
\* exactly the ones threads have not settled yet.
ReceivedIsAccountedFor ==
    stats["received"] = Settled(stats) + At({"process", "drop", "accept", "present", "token", "cached"})

Offered == {p \in Packets : given[p] # 0}

\* The forwarding counters say what was done: relayed_to_phones is the number
\* of distinct packets offered to the cell, the other two together the number
\* of sends to the backhaul, up to the ones a thread is about to count.
SendsAreCounted ==
    /\ Cardinality(Offered) = stats["relayed_to_phones"] + At({"relayed"})
    /\ sent["all"] + sent["other"] =
          stats["broadcast_to_nodes"] + stats["forwarded_cross_zone"] + At({"routed"})

\* heartbeat-payload.md:78 promises "received = accepted + dropped (+
\* attestation presentations)".  A heartbeat may catch packets halfway, but it
\* is off by no more than one packet per thread, never reports more settled
\* packets than received ones, nor more outcomes than accepted packets.
HeartbeatIsConsistent ==
    /\ Settled(beat) <= beat["received"]
    /\ beat["received"] - Settled(beat) <= Cardinality(Threads)
    /\ beat["relayed_to_phones"] + beat["location_terminated"] <= beat["accepted"]
    /\ beat["forwarded_cross_zone"] + beat["broadcast_to_nodes"] <= beat["accepted"]

Contract == INSTANCE RelayContract WITH
    trusted <- attested, NodeOnly <- {p \in Packets : Kind[p] \in {"beacon", "telemetry", "proxy"}
                                        \/ (Gated /\ Kind[p] = "present")}

\* Interleaved handler calls keep the node's contract: each packet is taken at
\* most once, from an attested sender if the node is gated, and offered to the
\* cell at most once; beacons, presentations and control frames never are.
KeepsContract == Contract!Spec
=============================================================================
