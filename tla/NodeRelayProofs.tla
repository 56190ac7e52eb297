-------------------------- MODULE NodeRelayProofs ---------------------------
(***************************************************************************)
(* Proofs about NodeRelay, for any packets, keys and bound on arrivals and *)
(* any finite number of threads in the handler.                            *)
(***************************************************************************)
EXTENDS NodeRelay, FiniteSetTheorems, TLAPS

\* A thread in the handler has a packet; one that counts a routed packet has
\* one that left the zone.
JobsFit ==
    \A t \in Threads :
        /\ pc[t] # "idle" => job[t] \in Packets
        /\ pc[t] = "routed" => Scope[job[t]] # "own"

TypeInv == TypeOK /\ JobsFit

\* Initially the types hold.
LEMMA InitTypes == Init => TypeInv
  BY BoundAssumption DEF Init, TypeInv, TypeOK, JobsFit, Labels, Counters

\* Going to a label keeps the types of pc and job.
LEMMA GotoTypes ==
    ASSUME TypeInv, NEW t \in Threads, NEW l \in Labels, Goto(t, l), pc[t] # "idle",
           l = "routed" => Scope[job[t]] # "own"
    PROVE  pc' \in [Threads -> Labels] /\ job' \in [Threads -> Packets \cup {NoPacket}] /\ JobsFit'
  BY DEF Goto, TypeInv, TypeOK, JobsFit

\* Counting keeps the type of the counters.
LEMMA CountTypes ==
    ASSUME TypeInv, NEW k \in Counters, Count(k)
    PROVE  stats' \in [Counters -> Nat]
  BY DEF Count, TypeInv, TypeOK

\* Every action, and so every step, preserves the types.
LEMMA StepTypes == TypeInv /\ [Next]_vars => TypeInv'
  <1> SUFFICES ASSUME TypeInv, [Next]_vars PROVE TypeInv'
    OBVIOUS
  <1> USE BoundAssumption, PacketAssumption
  <1>1. ASSUME NEW t \in Threads, NEW p \in Packets, Arrive(t, p) PROVE TypeInv'
    <2>1. CASE Kind[p] \in {"telemetry", "proxy"}
      BY <1>1, <2>1 DEF Arrive, TypeInv, TypeOK, JobsFit
    <2>2. CASE Kind[p] \notin {"telemetry", "proxy"}
      <3>1. stats' \in [Counters -> Nat]
        BY <1>1, <2>2, CountTypes DEF Arrive, Counters
      <3>2. PICK l \in {"present", "process"} : pc' = [pc EXCEPT ![t] = l]
        BY <1>1, <2>2 DEF Arrive
      <3> QED
        BY <1>1, <2>2, <3>1, <3>2 DEF Arrive, TypeInv, TypeOK, JobsFit, Labels
    <2> QED
      BY <2>1, <2>2
  <1>2. ASSUME NEW t \in Threads, Process(t) PROVE TypeInv'
    <2>1. job[t] \in Packets
      BY <1>2 DEF Process, TypeInv, JobsFit
    <2>2. PICK l \in {"drop", "accept"} : Goto(t, l)
      BY <1>2 DEF Process
    <2> QED
      BY <1>2, <2>1, <2>2, GotoTypes DEF Process, TypeInv, TypeOK, Labels
  <1>3. ASSUME NEW t \in Threads, CountDropped(t) PROVE TypeInv'
    BY <1>3, GotoTypes, CountTypes DEF CountDropped, TypeInv, TypeOK, Labels, Counters
  <1>4. ASSUME NEW t \in Threads, CountAccepted(t) PROVE TypeInv'
    BY <1>4, GotoTypes, CountTypes DEF CountAccepted, TypeInv, TypeOK, Labels, Counters
  <1>5. ASSUME NEW t \in Threads, CountTerminated(t) PROVE TypeInv'
    BY <1>5, GotoTypes, CountTypes DEF CountTerminated, TypeInv, TypeOK, Labels, Counters
  <1>6. ASSUME NEW t \in Threads, ServeQuery(t) PROVE TypeInv'
    BY <1>6, GotoTypes DEF ServeQuery, TypeInv, TypeOK, Labels
  <1>7. ASSUME NEW t \in Threads, SendBackhaul(t) PROVE TypeInv'
    <2>1. job[t] \in Packets /\ Scope[job[t]] \in {"all", "own", "other"}
      BY <1>7 DEF SendBackhaul, TypeInv, JobsFit
    <2>2. CASE Scope[job[t]] = "own"
      BY <1>7, <2>2, GotoTypes DEF SendBackhaul, TypeInv, TypeOK, Labels
    <2>3. CASE Scope[job[t]] # "own"
      <3>1. sent' \in [{"all", "other"} -> Nat]
        BY <1>7, <2>1, <2>3 DEF SendBackhaul, TypeInv, TypeOK
      <3> QED
        BY <1>7, <2>3, <3>1, GotoTypes DEF SendBackhaul, TypeInv, TypeOK, Labels
    <2> QED
      BY <2>2, <2>3
  <1>8. ASSUME NEW t \in Threads, CountRouted(t) PROVE TypeInv'
    BY <1>8, GotoTypes, CountTypes DEF CountRouted, TypeInv, TypeOK, Labels, Counters
  <1>9. ASSUME NEW t \in Threads, SendPhones(t) PROVE TypeInv'
    <2>1. given' \in [Packets -> Nat]
      BY <1>9 DEF SendPhones, TypeInv, TypeOK, JobsFit
    <2> QED
      BY <1>9, <2>1, GotoTypes DEF SendPhones, TypeInv, TypeOK, Labels
  <1>10. ASSUME NEW t \in Threads, CountRelayed(t) PROVE TypeInv'
    BY <1>10, GotoTypes, CountTypes DEF CountRelayed, TypeInv, TypeOK, Labels, Counters
  <1>11. ASSUME NEW t \in Threads, ProcessPresentation(t) PROVE TypeInv'
    <2>1. job[t] \in Packets
      BY <1>11 DEF ProcessPresentation, TypeInv, JobsFit
    <2>2. PICK l \in {"drop", "token"} : Goto(t, l)
      BY <1>11 DEF ProcessPresentation
    <2> QED
      BY <1>11, <2>1, <2>2, GotoTypes DEF ProcessPresentation, TypeInv, TypeOK, Labels
  <1>12. ASSUME NEW t \in Threads, AddToken(t) PROVE TypeInv'
    <2>1. job[t] \in Packets /\ attested' \subseteq Keys
      BY <1>12 DEF AddToken, TypeInv, TypeOK, JobsFit
    <2> QED
      BY <1>12, <2>1, GotoTypes DEF AddToken, TypeInv, TypeOK, Labels
  <1>13. ASSUME NEW t \in Threads, CountCached(t) PROVE TypeInv'
    BY <1>13, GotoTypes, CountTypes DEF CountCached, TypeInv, TypeOK, Labels, Counters
  <1>14. ASSUME NEW t \in Threads, SpreadPresentation(t) PROVE TypeInv'
    BY <1>14, GotoTypes DEF SpreadPresentation, TypeInv, TypeOK, Labels
  <1>15. CASE Heartbeat
    BY <1>15 DEF Heartbeat, TypeInv, TypeOK, JobsFit
  <1>16. CASE UNCHANGED vars
    BY <1>16 DEF vars, TypeInv, TypeOK, JobsFit
  <1> QED
    BY <1>1, <1>2, <1>3, <1>4, <1>5, <1>6, <1>7, <1>8, <1>9, <1>10, <1>11, <1>12, <1>13, <1>14,
       <1>15, <1>16 DEF Next, Step

\* The relay always has its types.
THEOREM TypeCorrect == Spec => []TypeOK
  BY InitTypes, StepTypes, PTL DEF Spec, TypeInv

-----------------------------------------------------------------------------

\* Counting threads.  In tells whether a label is one of a set, as a number.
In(l, labels) == IF l \in labels THEN 1 ELSE 0

\* The threads at some labels are finitely many and at most all.
LEMMA AtBounds ==
    ASSUME NEW labels
    PROVE  At(labels) \in Nat /\ At(labels) <= Cardinality(Threads)
  BY ThreadsAssumption, FS_Subset, FS_CardinalityType DEF At

\* One thread moves: a set of labels loses its old one and gains its new one.
LEMMA AtShifts ==
    ASSUME TypeOK, NEW t \in Threads, NEW l, pc' = [pc EXCEPT ![t] = l], NEW CONSTANT labels
    PROVE  At(labels)' = At(labels) + In(l, labels) - In(pc[t], labels)
  <1> DEFINE Old == {s \in Threads : pc[s] \in labels}
             New == {s \in Threads : pc'[s] \in labels}
  <1>1. IsFiniteSet(Old) /\ IsFiniteSet(New)
    BY ThreadsAssumption, FS_Subset
  <1>2. Cardinality(Old) \in Nat /\ Cardinality(New) \in Nat
    BY <1>1, FS_CardinalityType
  <1>3. \A s \in Threads \ {t} : s \in Old <=> s \in New
    BY DEF TypeOK
  <1>4. (t \in New <=> l \in labels) /\ (t \in Old <=> pc[t] \in labels)
    BY DEF TypeOK
  <1>5. Cardinality(New) = Cardinality(Old) + In(l, labels) - In(pc[t], labels)
    <2>1. CASE t \in Old /\ t \notin New
      <3>1. New = Old \ {t}
        BY <1>3, <2>1
      <3>2. Cardinality(New) = Cardinality(Old) - 1
        BY <1>1, <2>1, <3>1, FS_RemoveElement
      <3> QED
        BY <1>2, <1>4, <2>1, <3>2 DEF In
    <2>2. CASE t \notin Old /\ t \in New
      <3>1. New = Old \cup {t}
        BY <1>3, <2>2
      <3>2. Cardinality(New) = Cardinality(Old) + 1
        BY <1>1, <2>2, <3>1, FS_AddElement
      <3> QED
        BY <1>2, <1>4, <2>2, <3>2 DEF In
    <2>3. CASE t \in Old <=> t \in New
      <3>1. New = Old
        BY <1>3, <2>3
      <3> QED
        BY <1>2, <1>4, <2>3, <3>1 DEF In
    <2> QED
      BY <2>1, <2>2, <2>3
  <1> QED
    BY <1>5 DEF At

-----------------------------------------------------------------------------

\* The contract.  Labels of a thread whose packet was accepted and has not been
\* offered to the cell.
Holding == {"accept", "terminate", "locate", "route", "routed", "relay"}

\* Labels at which the packet may still be offered to the cell.
ForCell == {"process", "accept", "locate", "route", "routed", "relay"}

\* The dedup cache knows what was taken, and only taken packets are given.
TakenIsSeen ==
    /\ taken \subseteq seen
    /\ \A p \in Packets \ taken : given[p] = 0

\* A taken packet that was not given yet is in the hands of one thread at most.
OneHolder ==
    /\ \A t \in Threads : pc[t] \in Holding => job[t] \in taken /\ given[job[t]] = 0
    /\ \A s, t \in Threads :
          s # t /\ pc[s] \in Holding /\ pc[t] \in Holding => job[s] # job[t]

\* Control frames and a gated node's presentations never get to the pipeline,
\* beacons not past the location service.
MeantForCell ==
    \A t \in Threads :
        /\ pc[t] \in ForCell =>
              /\ Kind[job[t]] \notin {"telemetry", "proxy"}
              /\ ~(Gated /\ Kind[job[t]] = "present")
        /\ pc[t] \in ForCell \ {"process", "accept"} => Kind[job[t]] # "beacon"

ContractInv == TypeInv /\ TakenIsSeen /\ OneHolder /\ MeantForCell

\* Initially no packet is held, taken or given.
LEMMA InitContract == Init => ContractInv
  BY InitTypes DEF Init, ContractInv, TakenIsSeen, OneHolder, MeantForCell, Holding, ForCell

\* A step keeps a taken packet with its one thread.
LEMMA StepContract == ContractInv /\ [Next]_vars => ContractInv'
  <1> DEFINE Good == TakenIsSeen /\ OneHolder /\ MeantForCell
  <1> SUFFICES ASSUME ContractInv, [Next]_vars PROVE Good'
    BY StepTypes DEF ContractInv
  <1> USE PacketAssumption
      DEF ContractInv, TypeInv, TypeOK, JobsFit, TakenIsSeen, OneHolder, MeantForCell, Holding, ForCell
  <1>1. ASSUME NEW t \in Threads, NEW p \in Packets, Arrive(t, p) PROVE Good'
    BY <1>1 DEF Arrive
  <1>2. ASSUME NEW t \in Threads, Process(t) PROVE Good'
    <2>1. job[t] \in Packets /\ UNCHANGED given
      BY <1>2 DEF Process
    <2>2. CASE Goto(t, "drop") /\ UNCHANGED taken /\ seen' \in {seen, seen \cup {job[t]}}
      BY <2>1, <2>2 DEF Goto
    <2>3. CASE /\ ~Refused(seen, job[t]) /\ seen' = seen \cup {job[t]}
               /\ Goto(t, "accept") /\ taken' = taken \cup {job[t]}
      <3>1. job[t] \notin taken /\ given[job[t]] = 0
        BY <2>1, <2>3 DEF Refused
      <3>2. \A s \in Threads : pc[s] \in Holding => job[s] # job[t]
        BY <3>1
      <3> QED
        BY <1>2, <2>1, <2>3, <3>1, <3>2 DEF Goto, Process
    <2> QED
      BY <1>2, <2>2, <2>3 DEF Process
  <1>3. ASSUME NEW t \in Threads, CountDropped(t) PROVE Good'
    BY <1>3 DEF CountDropped, Goto
  <1>4. ASSUME NEW t \in Threads, CountAccepted(t) PROVE Good'
    BY <1>4 DEF CountAccepted, Goto
  <1>5. ASSUME NEW t \in Threads, CountTerminated(t) PROVE Good'
    BY <1>5 DEF CountTerminated, Goto
  <1>6. ASSUME NEW t \in Threads, ServeQuery(t) PROVE Good'
    BY <1>6 DEF ServeQuery, Goto
  <1>7. ASSUME NEW t \in Threads, SendBackhaul(t) PROVE Good'
    BY <1>7 DEF SendBackhaul, Goto
  <1>8. ASSUME NEW t \in Threads, CountRouted(t) PROVE Good'
    BY <1>8 DEF CountRouted, Goto
  <1>9. ASSUME NEW t \in Threads, SendPhones(t) PROVE Good'
    BY <1>9 DEF SendPhones, Goto
  <1>10. ASSUME NEW t \in Threads, CountRelayed(t) PROVE Good'
    BY <1>10 DEF CountRelayed, Goto
  <1>11. ASSUME NEW t \in Threads, ProcessPresentation(t) PROVE Good'
    BY <1>11 DEF ProcessPresentation, Goto
  <1>12. ASSUME NEW t \in Threads, AddToken(t) PROVE Good'
    BY <1>12 DEF AddToken, Goto
  <1>13. ASSUME NEW t \in Threads, CountCached(t) PROVE Good'
    BY <1>13 DEF CountCached, Goto
  <1>14. ASSUME NEW t \in Threads, SpreadPresentation(t) PROVE Good'
    BY <1>14 DEF SpreadPresentation, Goto
  <1>15. CASE Heartbeat
    BY <1>15 DEF Heartbeat
  <1>16. CASE UNCHANGED vars
    BY <1>16 DEF vars
  <1> QED
    BY <1>1, <1>2, <1>3, <1>4, <1>5, <1>6, <1>7, <1>8, <1>9, <1>10, <1>11, <1>12, <1>13, <1>14,
       <1>15, <1>16 DEF Next, Step

\* A step of the handler is a step of the contract, or none.
LEMMA StepRefines == ContractInv /\ [Next]_vars => [Contract!Next]_<<attested, taken, given>>
  <1> SUFFICES ASSUME ContractInv, [Next]_vars
               PROVE  Contract!Next \/ UNCHANGED <<attested, taken, given>>
    OBVIOUS
  <1> DEFINE Good == Contract!Next \/ UNCHANGED <<attested, taken, given>>
  <1> USE DEF ContractInv, TypeInv, TypeOK, JobsFit
  <1>1. ASSUME NEW t \in Threads, NEW p \in Packets, Arrive(t, p) PROVE Good
    BY <1>1 DEF Arrive
  <1>2. ASSUME NEW t \in Threads, Process(t) PROVE Good
    <2>1. CASE UNCHANGED taken
      BY <1>2, <2>1 DEF Process
    <2>2. CASE ~Refused(seen, job[t]) /\ (Gated => Sender[job[t]] \in attested)
               /\ taken' = taken \cup {job[t]}
      <3>1. Contract!Take(job[t])
        BY <1>2, <2>2 DEF Process, Refused, TakenIsSeen, Contract!Take
      <3> QED
        BY <1>2, <3>1 DEF Process, Contract!Next
    <2> QED
      BY <1>2, <2>1, <2>2 DEF Process
  <1>3. ASSUME NEW t \in Threads, CountDropped(t) PROVE Good
    BY <1>3 DEF CountDropped
  <1>4. ASSUME NEW t \in Threads, CountAccepted(t) PROVE Good
    BY <1>4 DEF CountAccepted
  <1>5. ASSUME NEW t \in Threads, CountTerminated(t) PROVE Good
    BY <1>5 DEF CountTerminated
  <1>6. ASSUME NEW t \in Threads, ServeQuery(t) PROVE Good
    BY <1>6 DEF ServeQuery
  <1>7. ASSUME NEW t \in Threads, SendBackhaul(t) PROVE Good
    BY <1>7 DEF SendBackhaul
  <1>8. ASSUME NEW t \in Threads, CountRouted(t) PROVE Good
    BY <1>8 DEF CountRouted
  <1>9. ASSUME NEW t \in Threads, SendPhones(t) PROVE Good
    <2>1. CASE UNCHANGED given
      BY <1>9, <2>1 DEF SendPhones
    <2>2. CASE given' = [given EXCEPT ![job[t]] = @ + 1]
      <3>1. job[t] \in taken /\ given[job[t]] = 0 /\ job[t] \in Packets
        BY <1>9 DEF SendPhones, OneHolder, Holding
      <3>2. job[t] \notin {p \in Packets : Kind[p] \in {"beacon", "telemetry", "proxy"}
                                          \/ (Gated /\ Kind[p] = "present")}
        BY <1>9 DEF SendPhones, MeantForCell, ForCell
      <3>3. Contract!Give(job[t])
        BY <1>9, <2>2, <3>1, <3>2 DEF SendPhones, Contract!Give
      <3> QED
        BY <3>1, <3>3 DEF Contract!Next
    <2> QED
      BY <1>9, <2>1, <2>2 DEF SendPhones
  <1>10. ASSUME NEW t \in Threads, CountRelayed(t) PROVE Good
    BY <1>10 DEF CountRelayed
  <1>11. ASSUME NEW t \in Threads, ProcessPresentation(t) PROVE Good
    BY <1>11 DEF ProcessPresentation
  <1>12. ASSUME NEW t \in Threads, AddToken(t) PROVE Good
    <2>1. CASE UNCHANGED attested
      BY <1>12, <2>1 DEF AddToken
    <2>2. CASE Token[job[t]] # NoKey /\ attested' = attested \cup {Token[job[t]]}
      <3>1. Token[job[t]] \in Keys
        BY <1>12, <2>2, PacketAssumption DEF AddToken
      <3>2. Contract!Trust(Token[job[t]])
        BY <1>12, <2>2 DEF AddToken, Contract!Trust
      <3> QED
        BY <3>1, <3>2 DEF Contract!Next
    <2> QED
      BY <1>12, <2>1, <2>2 DEF AddToken
  <1>13. ASSUME NEW t \in Threads, CountCached(t) PROVE Good
    BY <1>13 DEF CountCached
  <1>14. ASSUME NEW t \in Threads, SpreadPresentation(t) PROVE Good
    BY <1>14 DEF SpreadPresentation
  <1>15. CASE Heartbeat
    BY <1>15 DEF Heartbeat
  <1>16. CASE UNCHANGED vars
    BY <1>16 DEF vars
  <1> QED
    BY <1>1, <1>2, <1>3, <1>4, <1>5, <1>6, <1>7, <1>8, <1>9, <1>10, <1>11, <1>12, <1>13, <1>14,
       <1>15, <1>16 DEF Next, Step

\* Whatever threads run the handler, the node keeps its contract: it takes a
\* packet once, from a trusted sender, and offers it to the cell once.
THEOREM RelayKeepsContract == Spec => KeepsContract
  <1>1. Init => Contract!Init
    BY DEF Init, Contract!Init
  <1> QED
    BY <1>1, InitContract, StepContract, StepRefines, PTL DEF Spec, KeepsContract, Contract!Spec

-----------------------------------------------------------------------------

\* The counters.  Labels of a packet that is not settled, of an accepted one
\* whose outcome is open, and of one that may still go to the backhaul.
Unsettled == {"process", "drop", "accept", "present", "token", "cached"}
Open == {"terminate", "locate", "route", "routed", "relay", "relayed"}
Unrouted == {"locate", "route", "routed"}

\* Every outcome that was counted or is still open is that of an accepted packet.
OutcomesWereAccepted ==
    /\ stats["relayed_to_phones"] + stats["location_terminated"] + At(Open) <= stats["accepted"]
    /\ stats["forwarded_cross_zone"] + stats["broadcast_to_nodes"] + At(Unrouted)
          <= stats["accepted"]

CountInv ==
    /\ ReceivedIsAccountedFor
    /\ SendsAreCounted
    /\ IsFiniteSet(Offered)
    /\ OutcomesWereAccepted
    /\ HeartbeatIsConsistent

\* The label sets of the counters follow a thread that moves.
Moves(t, l) ==
    /\ At(Unsettled)' = At(Unsettled) + In(l, Unsettled) - In(pc[t], Unsettled)
    /\ At(Open)' = At(Open) + In(l, Open) - In(pc[t], Open)
    /\ At(Unrouted)' = At(Unrouted) + In(l, Unrouted) - In(pc[t], Unrouted)
    /\ At({"relayed"})' = At({"relayed"}) + In(l, {"relayed"}) - In(pc[t], {"relayed"})
    /\ At({"routed"})' = At({"routed"}) + In(l, {"routed"}) - In(pc[t], {"routed"})

\* A thread that moves shifts every one of these sets.
LEMMA MoveCounts ==
    ASSUME TypeOK, NEW t \in Threads, NEW l, pc' = [pc EXCEPT ![t] = l]
    PROVE  Moves(t, l)
  BY AtShifts DEF Moves

\* If no thread moves the sets stay as they are.
LEMMA SameThreads == ASSUME UNCHANGED pc, NEW CONSTANT labels PROVE At(labels)' = At(labels)
  BY DEF At

\* A step keeps the counters in line with the threads.
LEMMA StepCounts == ContractInv /\ CountInv /\ [Next]_vars => CountInv'
  <1> SUFFICES ASSUME ContractInv, CountInv, [Next]_vars PROVE CountInv'
    OBVIOUS
  <1>a. /\ TypeOK /\ JobsFit
        /\ \A labels : At(labels) \in Nat /\ At(labels) <= Cardinality(Threads)
        /\ Cardinality(Threads) \in Nat
    BY AtBounds, ThreadsAssumption, FS_CardinalityType DEF ContractInv, TypeInv
  <1>b. UNCHANGED given => Offered' = Offered
    BY DEF Offered
  <1> USE <1>a, <1>b DEF TypeOK, Counters, CountInv, ReceivedIsAccountedFor, SendsAreCounted, Settled,
          OutcomesWereAccepted, HeartbeatIsConsistent, Unsettled, Open, Unrouted
  <1>1. ASSUME NEW t \in Threads, NEW p \in Packets, Arrive(t, p) PROVE CountInv'
    <2>1. CASE UNCHANGED <<pc, stats>>
      BY <1>1, <2>1, SameThreads DEF Arrive
    <2>2. CASE Kind[p] \notin {"telemetry", "proxy"}
      <3>1. PICK l \in {"present", "process"} : pc' = [pc EXCEPT ![t] = l]
        BY <1>1, <2>2 DEF Arrive
      <3>2. Moves(t, l)
        BY <3>1, MoveCounts
      <3> QED
        BY <1>1, <2>2, <3>1, <3>2 DEF Arrive, Count, In, Moves
    <2> QED
      BY <1>1, <2>1, <2>2 DEF Arrive
  <1>2. ASSUME NEW t \in Threads, Process(t) PROVE CountInv'
    <2>1. PICK l \in {"drop", "accept"} : pc' = [pc EXCEPT ![t] = l] /\ pc[t] = "process"
      BY <1>2 DEF Process, Goto
    <2>2. Moves(t, l)
      BY <2>1, MoveCounts
    <2> QED
      BY <1>2, <2>1, <2>2 DEF Process, In, Moves
  <1>3. ASSUME NEW t \in Threads, CountDropped(t) PROVE CountInv'
    <2>1. pc' = [pc EXCEPT ![t] = "idle"] /\ pc[t] = "drop"
      BY <1>3 DEF CountDropped, Goto
    <2>2. Moves(t, "idle")
      BY <2>1, MoveCounts
    <2>3. /\ stats'["dropped"] = stats["dropped"] + 1
          /\ \A k \in Counters \ {"dropped"} : stats'[k] = stats[k]
      BY <1>3 DEF CountDropped, Count
    <2> QED
      BY <1>3, <2>1, <2>2, <2>3 DEF CountDropped, In, Moves
  <1>4. ASSUME NEW t \in Threads, CountAccepted(t) PROVE CountInv'
    <2>1. PICK l \in {"terminate", "locate", "route"} : pc' = [pc EXCEPT ![t] = l] /\ pc[t] = "accept"
      BY <1>4 DEF CountAccepted, Goto
    <2>2. Moves(t, l)
      BY <2>1, MoveCounts
    <2>3. /\ stats'["accepted"] = stats["accepted"] + 1
          /\ \A k \in Counters \ {"accepted"} : stats'[k] = stats[k]
      BY <1>4 DEF CountAccepted, Count
    <2> QED
      BY <1>4, <2>1, <2>2, <2>3 DEF CountAccepted, In, Moves
  <1>5. ASSUME NEW t \in Threads, CountTerminated(t) PROVE CountInv'
    <2>1. pc' = [pc EXCEPT ![t] = "idle"] /\ pc[t] = "terminate"
      BY <1>5 DEF CountTerminated, Goto
    <2>2. Moves(t, "idle")
      BY <2>1, MoveCounts
    <2>3. /\ stats'["location_terminated"] = stats["location_terminated"] + 1
          /\ \A k \in Counters \ {"location_terminated"} : stats'[k] = stats[k]
      BY <1>5 DEF CountTerminated, Count
    <2> QED
      BY <1>5, <2>1, <2>2, <2>3 DEF CountTerminated, In, Moves
  <1>6. ASSUME NEW t \in Threads, ServeQuery(t) PROVE CountInv'
    <2>1. PICK l \in {"route", "idle"} : pc' = [pc EXCEPT ![t] = l] /\ pc[t] = "locate"
      BY <1>6 DEF ServeQuery, Goto
    <2>2. Moves(t, l)
      BY <2>1, MoveCounts
    <2> QED
      BY <1>6, <2>1, <2>2 DEF ServeQuery, In, Moves
  <1>7. ASSUME NEW t \in Threads, SendBackhaul(t) PROVE CountInv'
    <2>1. job[t] \in Packets
      BY <1>7 DEF SendBackhaul, JobsFit
    <2>2. CASE Scope[job[t]] = "own"
      <3>1. pc' = [pc EXCEPT ![t] = "relay"] /\ pc[t] = "route" /\ UNCHANGED sent
        BY <1>7, <2>2 DEF SendBackhaul, Goto
      <3>2. Moves(t, "relay")
        BY <3>1, MoveCounts
      <3> QED
        BY <1>7, <3>1, <3>2 DEF SendBackhaul, In, Moves
    <2>3. CASE Scope[job[t]] # "own"
      <3>1. /\ pc' = [pc EXCEPT ![t] = "routed"] /\ pc[t] = "route"
            /\ sent' = [sent EXCEPT ![Scope[job[t]]] = @ + 1]
        BY <1>7, <2>3 DEF SendBackhaul, Goto
      <3>2. Moves(t, "routed")
        BY <3>1, MoveCounts
      <3>3. (sent["all"] + sent["other"])' = sent["all"] + sent["other"] + 1
        BY <2>1, <2>3, <3>1, PacketAssumption
      <3> QED
        BY <1>7, <3>1, <3>2, <3>3 DEF SendBackhaul, In, Moves
    <2> QED
      BY <2>2, <2>3
  <1>8. ASSUME NEW t \in Threads, CountRouted(t) PROVE CountInv'
    <2>1. pc' = [pc EXCEPT ![t] = "relay"] /\ pc[t] = "routed"
      BY <1>8 DEF CountRouted, Goto
    <2>2. Moves(t, "relay")
      BY <2>1, MoveCounts
    <2>3. PICK c \in {"forwarded_cross_zone", "broadcast_to_nodes"} :
                stats' = [stats EXCEPT ![c] = stats[c] + 1]
      BY <1>8 DEF CountRouted, Count
    <2>4. /\ (stats["forwarded_cross_zone"] + stats["broadcast_to_nodes"])'
                 = stats["forwarded_cross_zone"] + stats["broadcast_to_nodes"] + 1
          /\ stats'["forwarded_cross_zone"] \in Nat /\ stats'["broadcast_to_nodes"] \in Nat
          /\ \A k \in Counters \ {"forwarded_cross_zone", "broadcast_to_nodes"} : stats'[k] = stats[k]
      BY <2>3
    <2>5. UNCHANGED <<beat, given, sent>>
      BY <1>8 DEF CountRouted
    <2>6. ReceivedIsAccountedFor'
      BY <2>1, <2>2, <2>4 DEF In, Moves
    <2>7. SendsAreCounted'
      BY <2>1, <2>2, <2>4, <2>5 DEF In, Moves
    <2>8. OutcomesWereAccepted'
      BY <2>1, <2>2, <2>4 DEF In, Moves
    <2> QED
      BY <2>5, <2>6, <2>7, <2>8
  <1>9. ASSUME NEW t \in Threads, SendPhones(t) PROVE CountInv'
    <2>1. CASE Goto(t, "idle") /\ UNCHANGED given
      <3>1. pc' = [pc EXCEPT ![t] = "idle"] /\ pc[t] = "relay"
        BY <1>9, <2>1 DEF SendPhones, Goto
      <3>2. Moves(t, "idle")
        BY <3>1, MoveCounts
      <3> QED
        BY <1>9, <2>1, <3>1, <3>2 DEF SendPhones, In, Moves
    <2>2. CASE Goto(t, "relayed") /\ given' = [given EXCEPT ![job[t]] = @ + 1]
      <3>1. pc' = [pc EXCEPT ![t] = "relayed"] /\ pc[t] = "relay"
        BY <1>9, <2>2 DEF SendPhones, Goto
      <3>2. Moves(t, "relayed")
        BY <3>1, MoveCounts
      <3>3. job[t] \in Packets /\ given[job[t]] = 0
        BY <3>1 DEF ContractInv, JobsFit, OneHolder, Holding
      <3>4. job[t] \notin Offered /\ Offered' = Offered \cup {job[t]}
        BY <2>2, <3>3 DEF Offered
      <3>5. IsFiniteSet(Offered') /\ Cardinality(Offered') = Cardinality(Offered) + 1
        BY <3>4, FS_AddElement
      <3> QED
        BY <1>9, <3>1, <3>2, <3>5 DEF SendPhones, In, Moves
    <2> QED
      BY <1>9, <2>1, <2>2 DEF SendPhones
  <1>10. ASSUME NEW t \in Threads, CountRelayed(t) PROVE CountInv'
    <2>1. pc' = [pc EXCEPT ![t] = "idle"] /\ pc[t] = "relayed"
      BY <1>10 DEF CountRelayed, Goto
    <2>2. Moves(t, "idle")
      BY <2>1, MoveCounts
    <2>3. /\ stats'["relayed_to_phones"] = stats["relayed_to_phones"] + 1
          /\ \A k \in Counters \ {"relayed_to_phones"} : stats'[k] = stats[k]
      BY <1>10 DEF CountRelayed, Count
    <2> QED
      BY <1>10, <2>1, <2>2, <2>3 DEF CountRelayed, In, Moves
  <1>11. ASSUME NEW t \in Threads, ProcessPresentation(t) PROVE CountInv'
    <2>1. PICK l \in {"drop", "token"} : pc' = [pc EXCEPT ![t] = l] /\ pc[t] = "present"
      BY <1>11 DEF ProcessPresentation, Goto
    <2>2. Moves(t, l)
      BY <2>1, MoveCounts
    <2> QED
      BY <1>11, <2>1, <2>2 DEF ProcessPresentation, In, Moves
  <1>12. ASSUME NEW t \in Threads, AddToken(t) PROVE CountInv'
    <2>1. PICK l \in {"drop", "cached"} : pc' = [pc EXCEPT ![t] = l] /\ pc[t] = "token"
      BY <1>12 DEF AddToken, Goto
    <2>2. Moves(t, l)
      BY <2>1, MoveCounts
    <2> QED
      BY <1>12, <2>1, <2>2 DEF AddToken, In, Moves
  <1>13. ASSUME NEW t \in Threads, CountCached(t) PROVE CountInv'
    <2>1. pc' = [pc EXCEPT ![t] = "spread"] /\ pc[t] = "cached"
      BY <1>13 DEF CountCached, Goto
    <2>2. Moves(t, "spread")
      BY <2>1, MoveCounts
    <2>3. /\ stats'["attestations_cached"] = stats["attestations_cached"] + 1
          /\ \A k \in Counters \ {"attestations_cached"} : stats'[k] = stats[k]
      BY <1>13 DEF CountCached, Count
    <2> QED
      BY <1>13, <2>1, <2>2, <2>3 DEF CountCached, In, Moves
  <1>14. ASSUME NEW t \in Threads, SpreadPresentation(t) PROVE CountInv'
    <2>1. pc' = [pc EXCEPT ![t] = "idle"] /\ pc[t] = "spread"
      BY <1>14 DEF SpreadPresentation, Goto
    <2>2. Moves(t, "idle")
      BY <2>1, MoveCounts
    <2> QED
      BY <1>14, <2>1, <2>2 DEF SpreadPresentation, In, Moves
  <1>15. CASE Heartbeat
    BY <1>15, SameThreads DEF Heartbeat
  <1>16. CASE UNCHANGED vars
    BY <1>16, SameThreads DEF vars
  <1> QED
    BY <1>1, <1>2, <1>3, <1>4, <1>5, <1>6, <1>7, <1>8, <1>9, <1>10, <1>11, <1>12, <1>13, <1>14,
       <1>15, <1>16 DEF Next, Step

\* Initially all counters are 0 and all threads idle.
LEMMA InitCounts == Init => CountInv
  <1> SUFFICES ASSUME Init PROVE CountInv
    OBVIOUS
  <1>1. \A labels : "idle" \notin labels => At(labels) = 0
    BY FS_EmptySet DEF Init, At
  <1>2. Offered = {}
    BY DEF Init, Offered
  <1>3. IsFiniteSet(Offered) /\ Cardinality(Offered) = 0 /\ Cardinality(Threads) \in Nat
    BY <1>2, FS_EmptySet, FS_CardinalityType, ThreadsAssumption
  <1> QED
    BY <1>1, <1>3
       DEF Init, Counters, CountInv, ReceivedIsAccountedFor, SendsAreCounted, Settled,
           OutcomesWereAccepted, HeartbeatIsConsistent, Unsettled, Open, Unrouted

\* The threads and the counters agree at all times.
LEMMA CountsHold == Spec => []CountInv
  BY InitContract, StepContract, InitCounts, StepCounts, PTL DEF Spec

\* No packet is lost or counted twice between received and its outcome.
THEOREM EveryPacketAccountedFor == Spec => []ReceivedIsAccountedFor
  BY CountsHold, PTL DEF CountInv

\* The forwarding counters are the packets that were really sent.
THEOREM EverySendCounted == Spec => []SendsAreCounted
  BY CountsHold, PTL DEF CountInv

\* Every heartbeat balances up to the packets in the threads' hands.
THEOREM HeartbeatsBalance == Spec => []HeartbeatIsConsistent
  BY CountsHold, PTL DEF CountInv
=============================================================================
