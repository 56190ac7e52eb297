-------------------------- MODULE GattStreamProofs --------------------------
(***************************************************************************)
(* Proofs about GattStream, for any threads, packets of any size and any   *)
(* length of the transmit queue, on all three transports.                  *)
(***************************************************************************)
EXTENDS GattStream, SequenceTheorems, TLAPS

\* A thread has a packet in hand exactly while it is in send_packet; the
\* labels of the backlog are CoreBluetooth's.
ThreadsFit ==
    /\ \A t \in Threads : cur[t] = NoPacket <=> pc[t] \in {"idle", "flush", "pop"}
    /\ \A t \in Threads : pc[t] \in {"update", "append"} => backend = "corebluetooth"
    /\ pc[Main] = "pop" => pending # <<>>
    /\ backend # "corebluetooth" =>
          pending = <<>> /\ ~owed /\ pc[Main] \notin {"flush", "pop"}

TypeInv == TypeOK /\ ThreadsFit

\* Initially the types hold.
LEMMA InitTypes == Init => TypeInv
  <1> SUFFICES ASSUME Init PROVE TypeInv
    OBVIOUS
  <1>1. pending \in Seq(Chunks) /\ air \in Seq(Chunks)
    BY DEF Init
  <1>2. space \in 0 .. Window
    BY WindowAssumption DEF Init
  <1>3. on \in BOOLEAN /\ owed \in BOOLEAN
    BY DEF Init
  <1> QED
    BY <1>1, <1>2, <1>3 DEF Init, TypeInv, TypeOK, ThreadsFit, Threads

\* A thread at a label of send_packet has a chunk in hand.
LEMMA ChunkTypes ==
    ASSUME TypeInv, NEW t \in Threads, pc[t] \in {"test", "update", "append"}
    PROVE  /\ cur[t] \in Packets /\ Size[cur[t]] \in Nat \ {0}
           /\ part[t] \in 1 .. Size[cur[t]]
           /\ Chunk(t) \in Chunks
  BY SizeAssumption, PacketsAssumption DEF TypeInv, TypeOK, ThreadsFit, Chunk, Chunks

\* The loop of send_packet keeps the types of the thread's state.
LEMMA AdvanceTypes ==
    ASSUME TypeInv, NEW t \in Threads, pc[t] \in {"test", "update", "append"}, Advance(t)
    PROVE  /\ pc' \in [Threads -> {"idle", "test", "update", "append", "flush", "pop"}]
           /\ \A s \in Workers : pc'[s] \notin {"flush", "pop"}
           /\ cur' \in [Threads -> Packets \cup {NoPacket}]
           /\ part' \in [Threads -> Nat]
           /\ \A s \in Threads :
                 part'[s] \in IF cur'[s] = NoPacket THEN {1} ELSE 1 .. Size[cur'[s]]
           /\ \A s \in Threads : cur'[s] = NoPacket <=> pc'[s] \in {"idle", "flush", "pop"}
           /\ \A s \in Threads : pc'[s] \in {"update", "append"} => pc[s] \in {"update", "append"}
           /\ pc'[Main] \in {"flush", "pop"} <=> pc[Main] \in {"flush", "pop"}
           /\ pc'[Main] = "pop" <=> pc[Main] = "pop"
  <1>1. cur[t] \in Packets /\ Size[cur[t]] \in Nat \ {0} /\ part[t] \in 1 .. Size[cur[t]]
    BY ChunkTypes
  <1>2. Main \in Threads
    BY DEF Threads
  <1>3. CASE part[t] < Size[cur[t]]
    <2>1. /\ part' = [part EXCEPT ![t] = part[t] + 1]
          /\ pc' = [pc EXCEPT ![t] = "test"]
          /\ cur' = cur
      BY <1>3 DEF Advance
    <2>2. part' \in [Threads -> Nat] /\ part'[t] \in 1 .. Size[cur[t]]
      BY <1>1, <1>3, <2>1 DEF TypeInv, TypeOK
    <2>3. \A s \in Threads :
              part'[s] \in IF cur'[s] = NoPacket THEN {1} ELSE 1 .. Size[cur'[s]]
      BY <1>1, <2>1, <2>2, PacketsAssumption DEF TypeInv, TypeOK
    <2> QED
      BY <1>1, <1>2, <2>1, <2>2, <2>3, PacketsAssumption DEF TypeInv, TypeOK, ThreadsFit, Threads
  <1>4. CASE ~(part[t] < Size[cur[t]])
    <2>1. /\ part' = [part EXCEPT ![t] = 1]
          /\ pc' = [pc EXCEPT ![t] = "idle"]
          /\ cur' = [cur EXCEPT ![t] = NoPacket]
      BY <1>4 DEF Advance
    <2>2. \A s \in Threads :
              part'[s] \in IF cur'[s] = NoPacket THEN {1} ELSE 1 .. Size[cur'[s]]
      BY <2>1 DEF TypeInv, TypeOK
    <2> QED
      BY <1>2, <2>1, <2>2 DEF TypeInv, TypeOK, ThreadsFit, Threads
  <1> QED
    BY <1>3, <1>4

\* Every action, and so every step, preserves the types.
LEMMA StepTypes == TypeInv /\ [Next]_vars => TypeInv'
  <1> SUFFICES ASSUME TypeInv, [Next]_vars PROVE TypeInv'
    OBVIOUS
  <1>a. Main \in Threads /\ Main \notin Workers /\ Workers \subseteq Threads
    BY ThreadsAssumption DEF Threads
  <1>1. ASSUME NEW t \in Threads, NEW p \in Packets, SendPacket(t, p) PROVE TypeInv'
    BY <1>1, <1>a, SizeAssumption, PacketsAssumption DEF SendPacket, TypeInv, TypeOK, ThreadsFit
  <1>2. ASSUME NEW t \in Threads, Skip(t) PROVE TypeInv'
    BY <1>2, ChunkTypes, AdvanceTypes DEF Skip, TypeInv, TypeOK, ThreadsFit
  <1>3. ASSUME NEW t \in Threads, Emit(t) PROVE TypeInv'
    BY <1>3, ChunkTypes, AdvanceTypes DEF Emit, TypeInv, TypeOK, ThreadsFit
  <1>4. ASSUME NEW t \in Threads, SendPart(t) PROVE TypeInv'
    BY <1>4, ChunkTypes, AdvanceTypes DEF SendPart, TypeInv, TypeOK, ThreadsFit
  <1>5. ASSUME NEW t \in Threads, TestBacklog(t) PROVE TypeInv'
    BY <1>5, <1>a DEF TestBacklog, TypeInv, TypeOK, ThreadsFit
  <1>6. ASSUME NEW t \in Threads, Update(t) PROVE TypeInv'
    <2>1. CASE space > 0
      <3>1. space' \in 0 .. Window
        BY <1>6, <2>1, WindowAssumption DEF Update, TypeInv, TypeOK
      <3>2. air' \in Seq(Chunks)
        <4>1. Chunk(t) \in Chunks /\ air \in Seq(Chunks)
          BY <1>6, ChunkTypes DEF Update, TypeInv, TypeOK
        <4>2. air' = Append(air, Chunk(t))
          BY <1>6, <2>1 DEF Update
        <4> QED
          BY <4>1, <4>2
      <3>3. Advance(t) /\ UNCHANGED <<backend, on, unsent, pending, owed, skipped>>
        BY <1>6, <2>1 DEF Update
      <3>4. pc[t] = "update"
        BY <1>6 DEF Update
      <3> QED
        BY <3>1, <3>2, <3>3, <3>4, AdvanceTypes DEF TypeInv, TypeOK, ThreadsFit
    <2>2. CASE ~(space > 0)
      BY <1>6, <2>2, <1>a DEF Update, TypeInv, TypeOK, ThreadsFit
    <2> QED
      BY <2>1, <2>2
  <1>7. ASSUME NEW t \in Threads, AppendPending(t) PROVE TypeInv'
    BY <1>7, ChunkTypes, AdvanceTypes DEF AppendPending, TypeInv, TypeOK, ThreadsFit
  <1>8. CASE Transmit
    BY <1>8, WindowAssumption DEF Transmit, TypeInv, TypeOK, ThreadsFit
  <1>9. CASE Ready
    BY <1>9, <1>a DEF Ready, TypeInv, TypeOK, ThreadsFit
  <1>10. CASE Flush
    <2>1. pc[Main] = "flush" /\ UNCHANGED <<backend, on, unsent, cur, part, pending, skipped>>
      BY <1>10 DEF Flush
    <2>2. backend = "corebluetooth" /\ cur[Main] = NoPacket
      BY <1>a, <2>1 DEF TypeInv, ThreadsFit
    <2>3. CASE pc' = [pc EXCEPT ![Main] = "idle"] /\ UNCHANGED <<space, air>> /\ owed' \in BOOLEAN
      BY <1>a, <2>1, <2>2, <2>3 DEF TypeInv, TypeOK, ThreadsFit
    <2>4. CASE /\ pending # <<>> /\ space > 0 /\ air' = Append(air, Head(pending))
               /\ space' = space - 1 /\ pc' = [pc EXCEPT ![Main] = "pop"] /\ UNCHANGED owed
      <3>1. space' \in 0 .. Window
        BY <2>4, WindowAssumption DEF TypeInv, TypeOK
      <3>2. air' \in Seq(Chunks)
        BY <2>4 DEF TypeInv, TypeOK
      <3> QED
        BY <1>a, <2>1, <2>2, <2>4, <3>1, <3>2 DEF TypeInv, TypeOK, ThreadsFit
    <2>5. owed \in BOOLEAN
      BY DEF TypeInv, TypeOK
    <2> QED
      BY <1>10, <2>3, <2>4, <2>5 DEF Flush
  <1>11. CASE Pop
    BY <1>11, <1>a DEF Pop, TypeInv, TypeOK, ThreadsFit
  <1>12. CASE TurnOn
    BY <1>12 DEF TurnOn, TypeInv, TypeOK, ThreadsFit
  <1>13. CASE TurnOff
    BY <1>13 DEF TurnOff, TypeInv, TypeOK, ThreadsFit
  <1>14. CASE LosePeer
    BY <1>14 DEF LosePeer, TypeInv, TypeOK, ThreadsFit
  <1>15. ASSUME NEW t \in Threads, Raise(t) PROVE TypeInv'
    <2>1. /\ part' = [part EXCEPT ![t] = 1] /\ pc' = [pc EXCEPT ![t] = "idle"]
          /\ cur' = [cur EXCEPT ![t] = NoPacket]
          /\ UNCHANGED <<backend, on, unsent, pending, space, owed, air>>
      BY <1>15 DEF Raise
    <2>2. skipped' \subseteq Chunks
      <3>1. \A i \in part[t] .. Size[cur[t]] : [p |-> cur[t], i |-> i] \in Chunks
        BY <1>15, ChunkTypes DEF Raise, Chunks
      <3> QED
        BY <1>15, <3>1 DEF Raise, TypeInv, TypeOK
    <2>3. pc[t] \in {"test", "update"}
      BY <1>15 DEF Raise
    <2> QED
      BY <1>a, <2>1, <2>2, <2>3 DEF TypeInv, TypeOK, ThreadsFit
  <1>16. CASE UNCHANGED vars
    BY <1>16 DEF vars, TypeInv, TypeOK, ThreadsFit
  <1> QED
    BY <1>1, <1>2, <1>3, <1>4, <1>5, <1>6, <1>7, <1>8, <1>9, <1>10, <1>11, <1>12, <1>13, <1>14,
       <1>15, <1>16 DEF Next

\* The outbound stream always has its types.
THEOREM TypeCorrect == Spec => []TypeOK
  BY InitTypes, StepTypes, PTL DEF Spec, TypeInv

-----------------------------------------------------------------------------

\* Every packet is sent by one thread at most, and once.
OneSender ==
    /\ \A t \in Threads : cur[t] \notin unsent
    /\ \A s, t \in Threads : s # t /\ cur[s] = cur[t] => cur[t] = NoPacket

\* The chunk is one of a packet some thread has begun with, and behind it.
Behind(c) == c.p \notin unsent /\ \A t \in Threads : c.p = cur[t] => c.i < part[t]

\* What is sent or waits is behind the threads.
LineIsBehind ==
    /\ \A k \in 1 .. Len(air) : Behind(air[k])
    /\ \A k \in 1 .. Len(pending) : Behind(pending[k])

\* A thread that found the backlog empty may overtake what others have put
\* there since, but nothing of its own packet is there.
OvertakesOthersOnly ==
    \A t \in Threads : pc[t] = "update" => \A k \in 1 .. Len(pending) : pending[k].p # cur[t]

Precedes(c, d) == c.p = d.p => c.i < d.i

\* The order on the line, in its two halves and across.
InOrder ==
    /\ \A j, k \in 1 .. Len(air) : j < k => Precedes(air[j], air[k])
    /\ \A j, k \in 1 .. Len(Rest) : j < k => Precedes(Rest[j], Rest[k])
    /\ \A j \in 1 .. Len(air) : \A k \in 1 .. Len(Rest) : Precedes(air[j], Rest[k])

OrderInv == TypeInv /\ OneSender /\ LineIsBehind /\ OvertakesOthersOnly /\ InOrder

\* The chunk is on the line.
On(c) ==
    \/ \E k \in 1 .. Len(air) : air[k] = c
    \/ \E k \in 1 .. Len(Rest) : Rest[k] = c

\* Nothing a thread is done with has vanished.
NothingVanishes ==
    \A p \in Packets \ unsent : \A i \in 1 .. Size[p] :
        InHand(p, i) \/ [p |-> p, i |-> i] \in skipped \/ On([p |-> p, i |-> i])

\* The rest of the backlog is a part of it.
LEMMA RestTypes ==
    ASSUME TypeInv
    PROVE  /\ Rest \in Seq(Chunks)
           /\ \A k \in 1 .. Len(Rest) : \E j \in 1 .. Len(pending) : Rest[k] = pending[j]
  <1>1. CASE pc[Main] = "pop"
    <2>1. pending \in Seq(Chunks) /\ pending # <<>>
      BY <1>1 DEF TypeInv, TypeOK, ThreadsFit
    <2>2. Tail(pending) \in Seq(Chunks) /\ Len(Tail(pending)) = Len(pending) - 1
      BY <2>1, HeadTailProperties
    <2>3. \A k \in 1 .. Len(Tail(pending)) : Tail(pending)[k] = pending[k + 1] /\ k + 1 \in 1 .. Len(pending)
      BY <2>1, <2>2
    <2> QED
      BY <1>1, <2>2, <2>3 DEF Rest
  <1>2. CASE pc[Main] # "pop"
    BY <1>2 DEF TypeInv, TypeOK, Rest
  <1> QED
    BY <1>1, <1>2

\* How a step may change the line.  It stays as it is.
LEMMA LineStays ==
    ASSUME UNCHANGED <<air, Rest>>
    PROVE  (InOrder => InOrder') /\ \A c : On(c) => On(c)'
  BY DEF InOrder, On

\* A chunk is sent past the backlog: it is behind everything sent, and the
\* backlog has no chunk of its packet.
LEMMA AirGrows ==
    ASSUME TypeInv, NEW c \in Chunks, air' = Append(air, c), Rest' = Rest
    PROVE  /\ On(c)' /\ \A d : On(d) => On(d)'
           /\ /\ InOrder
              /\ \A k \in 1 .. Len(air) : Precedes(air[k], c)
              /\ \A k \in 1 .. Len(Rest) : Precedes(c, Rest[k])
              => InOrder'
  <1>1. air \in Seq(Chunks)
    BY DEF TypeInv, TypeOK
  <1>2. /\ Len(air') = Len(air) + 1 /\ Len(air) \in Nat
        /\ \A k \in 1 .. Len(air) : air'[k] = air[k]
        /\ air'[Len(air) + 1] = c
    BY <1>1, AppendProperties
  <1>3. \A k \in 1 .. Len(air') : k \in 1 .. Len(air) \/ k = Len(air) + 1
    BY <1>2
  <1>4. On(c)' /\ \A d : On(d) => On(d)'
    BY <1>2 DEF On
  <1>5. ASSUME InOrder, \A k \in 1 .. Len(air) : Precedes(air[k], c),
               \A k \in 1 .. Len(Rest) : Precedes(c, Rest[k])
        PROVE  InOrder'
    <2>1. \A j, k \in 1 .. Len(air') : j < k => Precedes(air'[j], air'[k])
      BY <1>2, <1>3, <1>5 DEF InOrder
    <2>2. \A j \in 1 .. Len(air') : \A k \in 1 .. Len(Rest) : Precedes(air'[j], Rest[k])
      BY <1>2, <1>3, <1>5 DEF InOrder
    <2> QED
      BY <1>5, <2>1, <2>2 DEF InOrder
  <1> QED
    BY <1>4, <1>5

\* A chunk joins the backlog: it is behind everything sent and waiting.
LEMMA RestGrows ==
    ASSUME TypeInv, NEW c \in Chunks, air' = air, Rest' = Append(Rest, c)
    PROVE  /\ On(c)' /\ \A d : On(d) => On(d)'
           /\ /\ InOrder
              /\ \A k \in 1 .. Len(air) : Precedes(air[k], c)
              /\ \A k \in 1 .. Len(Rest) : Precedes(Rest[k], c)
              => InOrder'
  <1>1. Rest \in Seq(Chunks)
    BY RestTypes
  <1>2. /\ Len(Rest') = Len(Rest) + 1 /\ Len(Rest) \in Nat
        /\ \A k \in 1 .. Len(Rest) : Rest'[k] = Rest[k]
        /\ Rest'[Len(Rest) + 1] = c
    BY <1>1, AppendProperties
  <1>3. \A k \in 1 .. Len(Rest') : k \in 1 .. Len(Rest) \/ k = Len(Rest) + 1
    BY <1>2
  <1>4. On(c)' /\ \A d : On(d) => On(d)'
    BY <1>2 DEF On
  <1>5. ASSUME InOrder, \A k \in 1 .. Len(air) : Precedes(air[k], c),
               \A k \in 1 .. Len(Rest) : Precedes(Rest[k], c)
        PROVE  InOrder'
    <2>1. \A j, k \in 1 .. Len(Rest') : j < k => Precedes(Rest'[j], Rest'[k])
      BY <1>2, <1>3, <1>5 DEF InOrder
    <2>2. \A j \in 1 .. Len(air) : \A k \in 1 .. Len(Rest') : Precedes(air[j], Rest'[k])
      BY <1>2, <1>3, <1>5 DEF InOrder
    <2> QED
      BY <1>5, <2>1, <2>2 DEF InOrder
  <1> QED
    BY <1>4, <1>5

\* The head of the backlog is sent: the line is cut in another place.
LEMMA CutMoves ==
    ASSUME TypeInv, Rest # <<>>, air' = Append(air, Head(Rest)), Rest' = Tail(Rest)
    PROVE  (InOrder => InOrder') /\ \A c : On(c) => On(c)'
  <1>1. air \in Seq(Chunks) /\ Rest \in Seq(Chunks)
    BY RestTypes DEF TypeInv, TypeOK
  <1>2. /\ Len(air') = Len(air) + 1 /\ Len(air) \in Nat
        /\ \A k \in 1 .. Len(air) : air'[k] = air[k]
        /\ air'[Len(air) + 1] = Rest[1]
    BY <1>1, AppendProperties
  <1>3. /\ Len(Rest') = Len(Rest) - 1 /\ Len(Rest) \in Nat \ {0}
        /\ \A k \in 1 .. Len(Rest') : Rest'[k] = Rest[k + 1]
    BY <1>1
  <1>4. \A k \in 1 .. Len(air') : k \in 1 .. Len(air) \/ k = Len(air) + 1
    BY <1>2
  <1>5. \A k \in 1 .. Len(Rest) : k = 1 \/ (k - 1 \in 1 .. Len(Rest') /\ Rest'[k - 1] = Rest[k])
    BY <1>3
  <1>6. \A c : On(c) => On(c)'
    <2>1. \A k \in 1 .. Len(air) : k \in 1 .. Len(air')
      BY <1>2
    <2>2. Len(air) + 1 \in 1 .. Len(air')
      BY <1>2
    <2> QED
      BY <1>2, <1>5, <2>1, <2>2 DEF On
  <1>7. ASSUME InOrder PROVE InOrder'
    <2>1. \A j, k \in 1 .. Len(air') : j < k => Precedes(air'[j], air'[k])
      <3>1. 1 \in 1 .. Len(Rest)
        BY <1>3
      <3> QED
        BY <1>2, <1>4, <1>7, <3>1 DEF InOrder
    <2>2. \A j, k \in 1 .. Len(Rest') : j < k => Precedes(Rest'[j], Rest'[k])
      <3>1. \A j \in 1 .. Len(Rest') : j + 1 \in 1 .. Len(Rest)
        BY <1>3
      <3>2. \A j, k \in 1 .. Len(Rest') : j < k => j + 1 < k + 1
        OBVIOUS
      <3> QED
        BY <1>3, <1>7, <3>1, <3>2 DEF InOrder
    <2>3. \A j \in 1 .. Len(air') : \A k \in 1 .. Len(Rest') : Precedes(air'[j], Rest'[k])
      <3>1. 1 \in 1 .. Len(Rest) /\ \A k \in 1 .. Len(Rest') : k + 1 \in 1 .. Len(Rest) /\ 1 < k + 1
        BY <1>3
      <3> QED
        BY <1>2, <1>3, <1>4, <1>7, <3>1 DEF InOrder
    <2> QED
      BY <2>1, <2>2, <2>3 DEF InOrder
  <1> QED
    BY <1>6, <1>7

\* The loop of send_packet leaves its chunk behind the thread and keeps what
\* was behind any thread there.
LEMMA AdvanceKeeps ==
    ASSUME TypeInv, OneSender, NEW t \in Threads, pc[t] \in {"test", "update", "append"},
           Advance(t), UNCHANGED unsent, NEW c \in Chunks, c = Chunk(t)
    PROVE  /\ OneSender'
           /\ Behind(c)'
           /\ \A d \in Chunks : Behind(d) => Behind(d)'
           /\ \A p \in Packets : \A i \in 1 .. Size[p] :
                 InHand(p, i) => InHand(p, i)' \/ [p |-> p, i |-> i] = c
           /\ \A s \in Threads : pc'[s] = "update" => pc[s] = "update" /\ cur'[s] = cur[s]
  <1>1. cur[t] \in Packets /\ part[t] \in Nat /\ part[t] \in 1 .. Size[cur[t]] /\ Size[cur[t]] \in Nat
    BY ChunkTypes
  <1>2. \A d \in Chunks : d.p \in Packets /\ d.i \in Nat
    BY DEF Chunks
  <1>3. c = [p |-> cur[t], i |-> part[t]] /\ c.p = cur[t] /\ c.i = part[t]
    BY DEF Chunk
  <1>4. \A s \in Threads \ {t} : cur[s] # cur[t]
    BY <1>1, PacketsAssumption DEF OneSender
  <1>5. cur[t] \notin unsent
    BY DEF OneSender
  <1>6. NoPacket \notin Packets /\ unsent \subseteq Packets
    BY PacketsAssumption DEF TypeInv, TypeOK
  <1>7. CASE part[t] < Size[cur[t]]
    <2>1. part' = [part EXCEPT ![t] = part[t] + 1] /\ pc' = [pc EXCEPT ![t] = "test"] /\ cur' = cur
      BY <1>7 DEF Advance
    <2>2. part'[t] = part[t] + 1 /\ \A s \in Threads \ {t} : part'[s] = part[s]
      BY <2>1 DEF TypeInv, TypeOK
    <2>3. OneSender'
      BY <2>1 DEF OneSender
    <2>4. Behind(c)'
      BY <1>1, <1>3, <1>4, <1>5, <2>1, <2>2 DEF Behind
    <2>5. \A d \in Chunks : Behind(d) => Behind(d)'
      BY <1>1, <1>2, <2>1, <2>2 DEF Behind
    <2>6. ASSUME NEW p \in Packets, NEW i \in 1 .. Size[p], InHand(p, i)
          PROVE  InHand(p, i)' \/ [p |-> p, i |-> i] = c
      <3>1. PICK s \in Threads : cur[s] = p /\ part[s] <= i
        BY <2>6 DEF InHand
      <3>2. CASE s # t
        BY <2>1, <2>2, <3>1, <3>2 DEF InHand
      <3>3. CASE s = t
        BY <1>1, <1>3, <2>1, <2>2, <3>1, <3>3, SizeAssumption DEF InHand
      <3> QED
        BY <3>2, <3>3
    <2>7. \A s \in Threads : pc'[s] = "update" => pc[s] = "update" /\ cur'[s] = cur[s]
      BY <2>1 DEF TypeInv, TypeOK
    <2> QED
      BY <2>3, <2>4, <2>5, <2>6, <2>7
  <1>8. CASE ~(part[t] < Size[cur[t]])
    <2>1. /\ part' = [part EXCEPT ![t] = 1] /\ pc' = [pc EXCEPT ![t] = "idle"]
          /\ cur' = [cur EXCEPT ![t] = NoPacket]
      BY <1>8 DEF Advance
    <2>2. cur'[t] = NoPacket /\ \A s \in Threads \ {t} : part'[s] = part[s] /\ cur'[s] = cur[s]
      BY <2>1 DEF TypeInv, TypeOK
    <2>3. OneSender'
      BY <1>6, <2>2 DEF OneSender
    <2>4. Behind(c)'
      BY <1>1, <1>3, <1>4, <1>5, <1>6, <2>2 DEF Behind
    <2>5. \A d \in Chunks : Behind(d) => Behind(d)'
      BY <1>2, <1>6, <2>2 DEF Behind
    <2>6. ASSUME NEW p \in Packets, NEW i \in 1 .. Size[p], InHand(p, i)
          PROVE  InHand(p, i)' \/ [p |-> p, i |-> i] = c
      <3>1. PICK s \in Threads : cur[s] = p /\ part[s] <= i
        BY <2>6 DEF InHand
      <3>2. CASE s # t
        BY <2>2, <3>1, <3>2 DEF InHand
      <3>3. CASE s = t
        BY <1>1, <1>3, <1>8, <3>1, <3>3, SizeAssumption
      <3> QED
        BY <3>2, <3>3
    <2>7. \A s \in Threads : pc'[s] = "update" => pc[s] = "update" /\ cur'[s] = cur[s]
      BY <2>1, <2>2 DEF TypeInv, TypeOK
    <2> QED
      BY <2>3, <2>4, <2>5, <2>6, <2>7
  <1> QED
    BY <1>7, <1>8

LineInv == OneSender /\ LineIsBehind /\ OvertakesOthersOnly /\ InOrder

\* Threads and packets are as before, and so is the line.
LEMMA QuietStep ==
    ASSUME OrderInv, NothingVanishes,
           UNCHANGED <<unsent, cur, part, pending, air, skipped, Rest>>,
           \A t \in Threads : pc'[t] = "update" => pc[t] = "update" \/ pending = <<>>
    PROVE  LineInv' /\ NothingVanishes'
  <1>1. InOrder' /\ \A c : On(c) => On(c)'
    BY LineStays DEF OrderInv
  <1>2. OneSender' /\ LineIsBehind'
    BY DEF OrderInv, OneSender, LineIsBehind, Behind
  <1>3. OvertakesOthersOnly'
    BY DEF OrderInv, OvertakesOthersOnly
  <1>4. NothingVanishes'
    BY <1>1 DEF NothingVanishes, InHand
  <1> QED
    BY <1>1, <1>2, <1>3, <1>4 DEF LineInv

\* A thread hands its chunk to the stack, past the backlog.
LEMMA SendStep ==
    ASSUME OrderInv, NothingVanishes, NEW t \in Threads, pc[t] \in {"test", "update"},
           air' = Append(air, Chunk(t)), Advance(t), UNCHANGED <<unsent, pending, skipped>>,
           \A k \in 1 .. Len(pending) : pending[k].p # cur[t]
    PROVE  LineInv' /\ NothingVanishes'
  <1> USE DEF OrderInv
  <1>1. PICK c \in Chunks : c = Chunk(t)
    BY ChunkTypes
  <1>2. c.p = cur[t] /\ c.i = part[t]
    BY <1>1 DEF Chunk
  <1>3. Rest' = Rest
    BY AdvanceTypes DEF Rest
  <1>4. air \in Seq(Chunks) /\ pending \in Seq(Chunks) /\ Rest \in Seq(Chunks)
    BY RestTypes DEF TypeInv, TypeOK
  <1>5. /\ OneSender' /\ Behind(c)'
        /\ \A d \in Chunks : Behind(d) => Behind(d)'
        /\ \A p \in Packets : \A i \in 1 .. Size[p] :
              InHand(p, i) => InHand(p, i)' \/ [p |-> p, i |-> i] = c
        /\ \A s \in Threads : pc'[s] = "update" => pc[s] = "update" /\ cur'[s] = cur[s]
    BY <1>1, AdvanceKeeps
  <1>6. \A k \in 1 .. Len(air) : Precedes(air[k], c)
    BY <1>2 DEF LineIsBehind, Behind, Precedes
  <1>7. \A k \in 1 .. Len(Rest) : Precedes(c, Rest[k])
    BY <1>2, RestTypes DEF Precedes
  <1>8. On(c)' /\ InOrder' /\ \A d : On(d) => On(d)'
    BY <1>1, <1>3, <1>6, <1>7, AirGrows
  <1>9. LineIsBehind'
    <2>1. \A k \in 1 .. Len(air') : air'[k] = c \/ (k \in 1 .. Len(air) /\ air'[k] = air[k])
      BY <1>1, <1>4
    <2>2. /\ \A k \in 1 .. Len(air) : air[k] \in Chunks
          /\ \A k \in 1 .. Len(pending) : pending[k] \in Chunks
      BY <1>4
    <2> QED
      BY <1>5, <2>1, <2>2 DEF LineIsBehind
  <1>10. OvertakesOthersOnly'
    BY <1>5 DEF OvertakesOthersOnly
  <1>11. NothingVanishes'
    BY <1>5, <1>8 DEF NothingVanishes
  <1> QED
    BY <1>5, <1>8, <1>9, <1>10, <1>11 DEF LineInv

\* A thread appends its chunk to the backlog, perhaps between the send and the
\* removal of the backlog's head.
LEMMA AppendStep ==
    ASSUME OrderInv, NothingVanishes, NEW t \in Threads, AppendPending(t)
    PROVE  LineInv' /\ NothingVanishes'
  <1> USE DEF OrderInv
  <1>1. PICK c \in Chunks : c = Chunk(t)
    BY ChunkTypes DEF AppendPending
  <1>2. c.p = cur[t] /\ c.i = part[t]
    BY <1>1 DEF Chunk
  <1>3. /\ pc[t] = "append" /\ Advance(t) /\ pending' = Append(pending, c)
        /\ UNCHANGED <<unsent, air, skipped>>
    BY <1>1 DEF AppendPending
  <1>4. air \in Seq(Chunks) /\ pending \in Seq(Chunks) /\ Rest \in Seq(Chunks)
    BY RestTypes DEF TypeInv, TypeOK
  <1>5. Rest' = Append(Rest, c)
    <2>1. pc'[Main] = "pop" <=> pc[Main] = "pop"
      BY <1>3, AdvanceTypes
    <2>2. CASE pc[Main] = "pop"
      <3>1. pending # <<>>
        BY <2>2 DEF TypeInv, ThreadsFit
      <3>2. Tail(Append(pending, c)) = Append(Tail(pending), c)
        BY <1>4, <3>1
      <3> QED
        BY <1>3, <2>1, <2>2, <3>2 DEF Rest
    <2>3. CASE pc[Main] # "pop"
      BY <1>3, <2>1, <2>3 DEF Rest
    <2> QED
      BY <2>2, <2>3
  <1>6. /\ OneSender' /\ Behind(c)'
        /\ \A d \in Chunks : Behind(d) => Behind(d)'
        /\ \A p \in Packets : \A i \in 1 .. Size[p] :
              InHand(p, i) => InHand(p, i)' \/ [p |-> p, i |-> i] = c
        /\ \A s \in Threads : pc'[s] = "update" => pc[s] = "update" /\ cur'[s] = cur[s]
    BY <1>1, <1>3, AdvanceKeeps
  <1>7. \A k \in 1 .. Len(air) : Precedes(air[k], c)
    BY <1>2 DEF LineIsBehind, Behind, Precedes
  <1>8. \A k \in 1 .. Len(Rest) : Precedes(Rest[k], c)
    <2>1. \A k \in 1 .. Len(pending) : Precedes(pending[k], c)
      BY <1>2 DEF LineIsBehind, Behind, Precedes
    <2> QED
      BY <2>1, RestTypes
  <1>9. On(c)' /\ InOrder' /\ \A d : On(d) => On(d)'
    BY <1>3, <1>5, <1>7, <1>8, RestGrows
  <1>10. \A k \in 1 .. Len(pending') :
             pending'[k] = c \/ (k \in 1 .. Len(pending) /\ pending'[k] = pending[k])
    BY <1>3, <1>4
  <1>11. LineIsBehind'
    <2>1. /\ \A k \in 1 .. Len(air) : air[k] \in Chunks
          /\ \A k \in 1 .. Len(pending) : pending[k] \in Chunks
      BY <1>4
    <2> QED
      BY <1>3, <1>6, <1>10, <2>1 DEF LineIsBehind
  <1>12. OvertakesOthersOnly'
    <2>1. cur[t] \in Packets
      BY <1>3, ChunkTypes
    <2>2. ASSUME NEW s \in Threads, pc'[s] = "update" PROVE c.p # cur'[s]
      <3>1. s # t /\ cur'[s] = cur[s]
        BY <1>3, <1>6, <2>2
      <3> QED
        BY <1>2, <2>1, <3>1, PacketsAssumption DEF OneSender
    <2> QED
      BY <1>6, <1>10, <2>2 DEF OvertakesOthersOnly
  <1>13. NothingVanishes'
    BY <1>3, <1>6, <1>9 DEF NothingVanishes
  <1> QED
    BY <1>6, <1>9, <1>11, <1>12, <1>13 DEF LineInv

\* A thread drops its chunk because nobody listens.
LEMMA SkipStep ==
    ASSUME OrderInv, NothingVanishes, NEW t \in Threads, Skip(t)
    PROVE  LineInv' /\ NothingVanishes'
  <1> USE DEF OrderInv
  <1>1. PICK c \in Chunks : c = Chunk(t)
    BY ChunkTypes DEF Skip
  <1>2. /\ pc[t] = "test" /\ Advance(t) /\ skipped' = skipped \cup {c}
        /\ UNCHANGED <<unsent, air, pending>>
    BY <1>1 DEF Skip
  <1>3. Rest' = Rest
    BY <1>2, AdvanceTypes DEF Rest
  <1>4. InOrder' /\ \A d : On(d) => On(d)'
    BY <1>2, <1>3, LineStays
  <1>5. /\ OneSender'
        /\ \A d \in Chunks : Behind(d) => Behind(d)'
        /\ \A p \in Packets : \A i \in 1 .. Size[p] :
              InHand(p, i) => InHand(p, i)' \/ [p |-> p, i |-> i] = c
        /\ \A s \in Threads : pc'[s] = "update" => pc[s] = "update" /\ cur'[s] = cur[s]
    BY <1>1, <1>2, AdvanceKeeps
  <1>6. LineIsBehind'
    <2>1. /\ \A k \in 1 .. Len(air) : air[k] \in Chunks
          /\ \A k \in 1 .. Len(pending) : pending[k] \in Chunks
      BY DEF TypeInv, TypeOK
    <2> QED
      BY <1>2, <1>5, <2>1 DEF LineIsBehind
  <1>7. OvertakesOthersOnly'
    BY <1>2, <1>5 DEF OvertakesOthersOnly
  <1>8. NothingVanishes'
    BY <1>2, <1>4, <1>5 DEF NothingVanishes
  <1> QED
    BY <1>4, <1>5, <1>6, <1>7, <1>8 DEF LineInv

\* A thread drops the rest of its packet because the stack failed.
LEMMA RaiseStep ==
    ASSUME OrderInv, NothingVanishes, NEW t \in Threads, Raise(t)
    PROVE  LineInv' /\ NothingVanishes'
  <1> USE DEF OrderInv
  <1>1. /\ pc[t] \in {"test", "update"}
        /\ part' = [part EXCEPT ![t] = 1] /\ pc' = [pc EXCEPT ![t] = "idle"]
        /\ cur' = [cur EXCEPT ![t] = NoPacket]
        /\ UNCHANGED <<unsent, air, pending>>
    BY DEF Raise
  <1>2. cur'[t] = NoPacket /\ \A s \in Threads \ {t} : part'[s] = part[s] /\ cur'[s] = cur[s]
    BY <1>1 DEF TypeInv, TypeOK
  <1>3. NoPacket \notin Packets /\ unsent \subseteq Packets
    BY PacketsAssumption DEF TypeInv, TypeOK
  <1>4. Rest' = Rest
    <2>1. pc'[Main] = "pop" <=> pc[Main] = "pop"
      BY <1>1 DEF TypeInv, TypeOK, Threads
    <2> QED
      BY <1>1, <2>1 DEF Rest
  <1>5. InOrder' /\ \A d : On(d) => On(d)'
    BY <1>1, <1>4, LineStays
  <1>6. OneSender'
    BY <1>1, <1>2, <1>3 DEF OneSender
  <1>7. LineIsBehind'
    <2>1. \A d \in Chunks : Behind(d) => Behind(d)'
      BY <1>1, <1>2, <1>3 DEF Behind, Chunks
    <2>2. /\ \A k \in 1 .. Len(air) : air[k] \in Chunks
          /\ \A k \in 1 .. Len(pending) : pending[k] \in Chunks
      BY DEF TypeInv, TypeOK
    <2> QED
      BY <1>1, <2>1, <2>2 DEF LineIsBehind
  <1>8. OvertakesOthersOnly'
    BY <1>1, <1>2 DEF OvertakesOthersOnly, TypeInv, TypeOK
  <1>9. NothingVanishes'
    <2>1. ASSUME NEW p \in Packets, NEW i \in 1 .. Size[p], InHand(p, i)
          PROVE  InHand(p, i)' \/ [p |-> p, i |-> i] \in skipped'
      <3>1. PICK s \in Threads : cur[s] = p /\ part[s] <= i
        BY <2>1 DEF InHand
      <3>2. CASE s # t
        BY <1>2, <3>1, <3>2 DEF InHand
      <3>3. CASE s = t
        <4>1. part[t] \in Nat /\ i \in part[t] .. Size[cur[t]]
          BY <1>1, <3>1, <3>3, ChunkTypes, SizeAssumption
        <4> QED
          BY <3>1, <3>3, <4>1 DEF Raise
      <3> QED
        BY <3>2, <3>3
    <2>2. skipped \subseteq skipped'
      BY DEF Raise
    <2> QED
      BY <1>1, <1>5, <2>1, <2>2 DEF NothingVanishes
  <1> QED
    BY <1>5, <1>6, <1>7, <1>8, <1>9 DEF LineInv

\* A thread begins with a packet nobody has begun with.
LEMMA BeginStep ==
    ASSUME OrderInv, NothingVanishes, NEW t \in Threads, NEW p \in Packets, SendPacket(t, p)
    PROVE  LineInv' /\ NothingVanishes'
  <1> USE DEF OrderInv
  <1>1. /\ pc[t] = "idle" /\ p \in unsent /\ unsent' = unsent \ {p}
        /\ cur' = [cur EXCEPT ![t] = p] /\ pc' = [pc EXCEPT ![t] = "test"]
        /\ UNCHANGED <<part, pending, air, skipped>>
    BY DEF SendPacket
  <1>2. cur[t] = NoPacket /\ part[t] = 1 /\ cur'[t] = p
        /\ \A s \in Threads \ {t} : cur'[s] = cur[s] /\ pc'[s] = pc[s]
    BY <1>1 DEF TypeInv, TypeOK, ThreadsFit
  <1>3. Rest' = Rest
    <2>1. pc'[Main] = "pop" <=> pc[Main] = "pop"
      BY <1>1 DEF TypeInv, TypeOK, Threads
    <2> QED
      BY <1>1, <2>1 DEF Rest
  <1>4. InOrder' /\ \A d : On(d) => On(d)'
    BY <1>1, <1>3, LineStays
  <1>5. OneSender'
    BY <1>1, <1>2, PacketsAssumption DEF OneSender
  <1>6. LineIsBehind'
    <2>1. ASSUME NEW c, Behind(c) PROVE Behind(c)'
      BY <1>1, <1>2, <2>1 DEF Behind
    <2> QED
      BY <1>1, <2>1 DEF LineIsBehind
  <1>7. OvertakesOthersOnly'
    BY <1>1, <1>2 DEF OvertakesOthersOnly, TypeInv, TypeOK
  <1>8. NothingVanishes'
    <2>1. ASSUME NEW q \in Packets \ unsent', NEW i \in 1 .. Size[q]
          PROVE  InHand(q, i)' \/ [p |-> q, i |-> i] \in skipped' \/ On([p |-> q, i |-> i])'
      <3>1. CASE q = p
        BY <1>1, <1>2, <3>1, SizeAssumption DEF InHand
      <3>2. CASE q # p
        <4>1. InHand(q, i) => InHand(q, i)'
          BY <1>1, <1>2, PacketsAssumption DEF InHand
        <4>2. q \in Packets \ unsent
          BY <1>1, <3>2
        <4> QED
          BY <1>1, <1>4, <4>1, <4>2 DEF NothingVanishes
      <3> QED
        BY <3>1, <3>2
    <2> QED
      BY <2>1 DEF NothingVanishes
  <1> QED
    BY <1>4, <1>5, <1>6, <1>7, <1>8 DEF LineInv

\* _flush_pending hands the head of the backlog to the stack.
LEMMA FlushStep ==
    ASSUME OrderInv, NothingVanishes, Flush
    PROVE  LineInv' /\ NothingVanishes'
  <1> USE DEF OrderInv
  <1>1. /\ pc[Main] = "flush" /\ Main \in Threads
        /\ UNCHANGED <<unsent, cur, part, pending, skipped>>
    BY DEF Flush, Threads
  <1>2. CASE pc' = [pc EXCEPT ![Main] = "idle"] /\ UNCHANGED air
    <2>1. Rest' = Rest
      BY <1>1, <1>2 DEF Rest, TypeInv, TypeOK
    <2>2. \A t \in Threads : pc'[t] = "update" => pc[t] = "update"
      BY <1>1, <1>2 DEF TypeInv, TypeOK
    <2> QED
      BY <1>1, <1>2, <2>1, <2>2, QuietStep
  <1>3. CASE pending # <<>> /\ air' = Append(air, Head(pending)) /\ pc' = [pc EXCEPT ![Main] = "pop"]
    <2>1. Rest = pending /\ Rest' = Tail(pending)
      BY <1>1, <1>3 DEF Rest, TypeInv, TypeOK
    <2>2. InOrder' /\ \A c : On(c) => On(c)'
      BY <1>3, <2>1, CutMoves
    <2>3. OneSender'
      BY <1>1 DEF OneSender
    <2>4. LineIsBehind'
      <3>1. \A c : Behind(c) => Behind(c)'
        BY <1>1 DEF Behind
      <3>2. air \in Seq(Chunks) /\ pending \in Seq(Chunks) /\ pending # <<>>
        BY <1>3 DEF TypeInv, TypeOK
      <3>3. 1 \in 1 .. Len(pending) /\ Head(pending) = pending[1]
        BY <3>2
      <3>4. \A k \in 1 .. Len(air') :
                air'[k] = pending[1] \/ (k \in 1 .. Len(air) /\ air'[k] = air[k])
        BY <1>3, <3>2, <3>3
      <3> QED
        BY <1>1, <3>1, <3>3, <3>4 DEF LineIsBehind
    <2>5. OvertakesOthersOnly'
      BY <1>1, <1>3 DEF OvertakesOthersOnly, TypeInv, TypeOK
    <2>6. NothingVanishes'
      BY <1>1, <2>2 DEF NothingVanishes, InHand
    <2> QED
      BY <2>2, <2>3, <2>4, <2>5, <2>6 DEF LineInv
  <1> QED
    BY <1>2, <1>3 DEF Flush

\* The chunk that was sent is removed from the backlog.
LEMMA PopStep ==
    ASSUME OrderInv, NothingVanishes, Pop
    PROVE  LineInv' /\ NothingVanishes'
  <1> USE DEF OrderInv
  <1>1. /\ pc[Main] = "pop" /\ Main \in Threads /\ pending' = Tail(pending)
        /\ pc' = [pc EXCEPT ![Main] = "flush"]
        /\ UNCHANGED <<unsent, cur, part, air, skipped>>
    BY DEF Pop, Threads
  <1>2. Rest' = Rest
    BY <1>1 DEF Rest, TypeInv, TypeOK
  <1>3. InOrder' /\ \A c : On(c) => On(c)'
    BY <1>1, <1>2, LineStays
  <1>4. \A k \in 1 .. Len(pending') : \E j \in 1 .. Len(pending) : pending'[k] = pending[j]
    BY <1>1, RestTypes DEF Rest
  <1>5. LineIsBehind'
    BY <1>1, <1>4 DEF LineIsBehind, Behind
  <1>6. OvertakesOthersOnly'
    BY <1>1, <1>4 DEF OvertakesOthersOnly, TypeInv, TypeOK
  <1>7. OneSender' /\ NothingVanishes'
    BY <1>1, <1>3 DEF OneSender, NothingVanishes, InHand
  <1> QED
    BY <1>3, <1>5, <1>6, <1>7 DEF LineInv

\* Every step keeps the line.
LEMMA StepLine ==
    OrderInv /\ NothingVanishes /\ [Next]_vars => OrderInv' /\ NothingVanishes'
  <1> SUFFICES ASSUME OrderInv, NothingVanishes, [Next]_vars PROVE LineInv' /\ NothingVanishes'
    BY StepTypes DEF OrderInv, LineInv
  <1> DEFINE Kept == LineInv' /\ NothingVanishes'
  <1>a. TypeInv /\ Main \in Threads
    BY DEF OrderInv, Threads
  <1>1. ASSUME NEW t \in Threads, NEW p \in Packets, SendPacket(t, p) PROVE Kept
    BY <1>1, BeginStep
  <1>2. ASSUME NEW t \in Threads, Skip(t) PROVE Kept
    BY <1>2, SkipStep
  <1>3. ASSUME NEW t \in Threads, Emit(t) PROVE Kept
    <2>1. pending = <<>>
      BY <1>3, <1>a DEF Emit, TypeInv, ThreadsFit
    <2>2. \A k \in 1 .. Len(pending) : pending[k].p # cur[t]
      BY <2>1
    <2> QED
      BY <1>3, <2>2, SendStep DEF Emit
  <1>4. ASSUME NEW t \in Threads, SendPart(t) PROVE Kept
    <2>1. pending = <<>>
      BY <1>4, <1>a DEF SendPart, TypeInv, ThreadsFit
    <2>2. \A k \in 1 .. Len(pending) : pending[k].p # cur[t]
      BY <2>1
    <2> QED
      BY <1>4, <2>2, SendStep DEF SendPart
  <1>5. ASSUME NEW t \in Threads, TestBacklog(t) PROVE Kept
    <2>1. UNCHANGED <<unsent, cur, part, pending, air, skipped>>
      BY <1>5 DEF TestBacklog
    <2>2. Rest' = Rest
      BY <1>5, <1>a DEF TestBacklog, Rest, TypeInv, TypeOK
    <2>3. \A s \in Threads : pc'[s] = "update" => pc[s] = "update" \/ pending = <<>>
      BY <1>5, <1>a DEF TestBacklog, TypeInv, TypeOK
    <2> QED
      BY <2>1, <2>2, <2>3, QuietStep
  <1>6. ASSUME NEW t \in Threads, Update(t) PROVE Kept
    <2>1. CASE space > 0
      <3>1. \A k \in 1 .. Len(pending) : pending[k].p # cur[t]
        BY <1>6 DEF Update, OrderInv, OvertakesOthersOnly
      <3>2. /\ pc[t] = "update" /\ air' = Append(air, Chunk(t)) /\ Advance(t)
            /\ UNCHANGED <<unsent, pending, skipped>>
        BY <1>6, <2>1 DEF Update
      <3> QED
        BY <3>1, <3>2, SendStep
    <2>2. CASE ~(space > 0)
      <3>1. /\ UNCHANGED <<unsent, cur, part, pending, air, skipped>>
            /\ pc[t] = "update" /\ pc' = [pc EXCEPT ![t] = "append"]
        BY <1>6, <2>2 DEF Update
      <3>2. Rest' = Rest
        BY <3>1, <1>a DEF Rest, TypeInv, TypeOK
      <3>3. \A s \in Threads : pc'[s] = "update" => pc[s] = "update"
        BY <3>1, <1>a DEF TypeInv, TypeOK
      <3> QED
        BY <3>1, <3>2, <3>3, QuietStep
    <2> QED
      BY <2>1, <2>2
  <1>7. ASSUME NEW t \in Threads, AppendPending(t) PROVE Kept
    BY <1>7, AppendStep
  <1>8. CASE Transmit \/ TurnOn \/ TurnOff \/ LosePeer \/ UNCHANGED vars
    <2>1. UNCHANGED <<unsent, pc, cur, part, pending, air, skipped>>
      BY <1>8 DEF Transmit, TurnOn, TurnOff, LosePeer, vars
    <2> QED
      BY <2>1, QuietStep DEF Rest
  <1>9. CASE Ready
    <2>1. /\ UNCHANGED <<unsent, cur, part, pending, air, skipped>>
          /\ pc[Main] = "idle" /\ pc' = [pc EXCEPT ![Main] = "flush"]
      BY <1>9 DEF Ready
    <2>2. Rest' = Rest
      BY <2>1, <1>a DEF Rest, TypeInv, TypeOK
    <2>3. \A s \in Threads : pc'[s] = "update" => pc[s] = "update"
      BY <2>1, <1>a DEF TypeInv, TypeOK
    <2> QED
      BY <2>1, <2>2, <2>3, QuietStep
  <1>10. CASE Flush
    BY <1>10, FlushStep
  <1>11. CASE Pop
    BY <1>11, PopStep
  <1>12. ASSUME NEW t \in Threads, Raise(t) PROVE Kept
    BY <1>12, RaiseStep
  <1> QED
    BY <1>1, <1>2, <1>3, <1>4, <1>5, <1>6, <1>7, <1>8, <1>9, <1>10, <1>11, <1>12 DEF Next

\* The line holds at all times.
LEMMA LineHolds == Spec => [](OrderInv /\ NothingVanishes)
  <1>1. Init => OrderInv /\ NothingVanishes
    <2> SUFFICES ASSUME Init PROVE OrderInv /\ NothingVanishes
      OBVIOUS
    <2>1. air = <<>> /\ pending = <<>> /\ Rest = <<>>
      BY DEF Init, Rest, Threads
    <2>2. InOrder /\ LineIsBehind /\ OvertakesOthersOnly
      BY <2>1 DEF InOrder, LineIsBehind, OvertakesOthersOnly
    <2>3. OneSender /\ NothingVanishes
      BY PacketsAssumption DEF Init, OneSender, NothingVanishes
    <2> QED
      BY <2>2, <2>3, InitTypes DEF OrderInv
  <1> QED
    BY <1>1, StepLine, PTL DEF Spec

\* The line is what was sent followed by what waits.
LEMMA LineElements ==
    ASSUME TypeInv
    PROVE  /\ Len(Line) = Len(air) + Len(Rest) /\ Len(air) \in Nat /\ Len(Rest) \in Nat
           /\ \A k \in 1 .. Len(air) : Line[k] = air[k]
           /\ \A k \in 1 .. Len(Rest) : Line[Len(air) + k] = Rest[k]
  <1>1. air \in Seq(Chunks) /\ Rest \in Seq(Chunks)
    BY RestTypes DEF TypeInv, TypeOK
  <1> QED
    BY <1>1 DEF Line

\* The chunks of every packet reach the phones in order and once.
THEOREM ChunksInOrder == Spec => []ChunksStayInOrder
  <1>1. ASSUME OrderInv PROVE ChunksStayInOrder
    <2> SUFFICES ASSUME NEW j \in 1 .. Len(Line), NEW k \in 1 .. Len(Line), j < k
                 PROVE  Precedes(Line[j], Line[k])
      BY DEF ChunksStayInOrder, Precedes
    <2>1. /\ Len(Line) = Len(air) + Len(Rest) /\ Len(air) \in Nat /\ Len(Rest) \in Nat
          /\ \A l \in 1 .. Len(air) : Line[l] = air[l]
          /\ \A l \in 1 .. Len(Rest) : Line[Len(air) + l] = Rest[l]
      BY <1>1, LineElements DEF OrderInv
    <2>2. \A l \in 1 .. Len(Line) :
              \/ l \in 1 .. Len(air) /\ Line[l] = air[l]
              \/ l > Len(air) /\ l - Len(air) \in 1 .. Len(Rest) /\ Line[l] = Rest[l - Len(air)]
      <3> TAKE l \in 1 .. Len(Line)
      <3>1. CASE l <= Len(air)
        BY <2>1, <3>1
      <3>2. CASE l > Len(air)
        <4>1. l - Len(air) \in 1 .. Len(Rest) /\ Len(air) + (l - Len(air)) = l
          BY <2>1, <3>2
        <4> QED
          BY <2>1, <3>2, <4>1
      <3> QED
        BY <2>1, <3>1, <3>2
    <2>3. CASE j \in 1 .. Len(air) /\ k \in 1 .. Len(air)
      BY <1>1, <2>1, <2>3 DEF OrderInv, InOrder
    <2>4. CASE j \in 1 .. Len(air) /\ k > Len(air)
      BY <1>1, <2>1, <2>2, <2>4 DEF OrderInv, InOrder
    <2>5. CASE j > Len(air) /\ k > Len(air)
      <3>1. j - Len(air) < k - Len(air)
        BY <2>1
      <3> QED
        BY <1>1, <2>1, <2>2, <2>5, <3>1 DEF OrderInv, InOrder
    <2> QED
      BY <2>1, <2>3, <2>4, <2>5
  <1> QED
    BY <1>1, LineHolds, PTL

\* No chunk send_packet was asked to send is lost.
THEOREM NoChunkLost == Spec => []NoChunkIsLost
  <1>1. ASSUME OrderInv, NothingVanishes PROVE NoChunkIsLost
    <2>1. /\ Len(Line) = Len(air) + Len(Rest) /\ Len(air) \in Nat /\ Len(Rest) \in Nat
          /\ \A l \in 1 .. Len(air) : Line[l] = air[l]
          /\ \A l \in 1 .. Len(Rest) : Line[Len(air) + l] = Rest[l]
      BY <1>1, LineElements DEF OrderInv
    <2>2. ASSUME NEW c, On(c) PROVE \E k \in 1 .. Len(Line) : Line[k] = c
      <3>1. CASE \E k \in 1 .. Len(air) : air[k] = c
        BY <2>1, <3>1
      <3>2. CASE \E k \in 1 .. Len(Rest) : Rest[k] = c
        <4>1. PICK k \in 1 .. Len(Rest) : Rest[k] = c
          BY <3>2
        <4>2. Len(air) + k \in 1 .. Len(Line) /\ Line[Len(air) + k] = c
          BY <2>1, <4>1
        <4> QED
          BY <4>2
      <3> QED
        BY <2>2, <3>1, <3>2 DEF On
    <2> QED
      BY <1>1, <2>2 DEF NothingVanishes, NoChunkIsLost
  <1> QED
    BY <1>1, LineHolds, PTL
=============================================================================
