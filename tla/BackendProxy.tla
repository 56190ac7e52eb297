---------------------------- MODULE BackendProxy ----------------------------
(***************************************************************************)
(* A phone's calls to the organiser's backend through its node: the bytes  *)
(* it writes to its link, their reassembly (node/ble/base.py,              *)
(* node/transport/wifi_transport.py), the relay's demux, and the worker    *)
(* pool of node/backend_proxy.py that makes the call and sends the reply.  *)
(*                                                                         *)
(* Packets are byte strings; which of them are requests, and which of      *)
(* those name an allowed method and path, are parameters.  Of a reply only *)
(* its length matters.                                                     *)
(***************************************************************************)
EXTENDS Framing, SequencesExt

CONSTANTS
    Phones, BlePhones,  \* all phones; those that use BLE
    Messages,           \* packets phones send
    Requests, Allowed,  \* MLBP1 requests; those _execute forwards
    Workers,            \* threads of the pool (max_workers)
    Idle,               \* a worker without a task
    Bodies,             \* lengths of the backend's answers
    Note,               \* length of a reply with status 0
    MaxResponse,        \* MAX_RESPONSE_BYTES
    MaxLinks, MaxSent   \* bounds on the links and the packets of a phone

ASSUME MessagesAssumption ==
    /\ \A m \in Messages : m \in Seq(Bytes) /\ Len(m) > 0 /\ Frameable(Len(m))
    /\ Allowed \subseteq Requests /\ BlePhones \subseteq Phones
ASSUME RepliesAssumption ==
    /\ Bodies \subseteq Nat \ {0} /\ MaxResponse \in Nat
    /\ Note \in Nat \ {0} /\ Frameable(Note)
ASSUME BoundsAssumption == MaxLinks \in Nat /\ MaxSent \in Nat

VARIABLES
    link,       \* link[ph]: "down", "mute" (a central that has not subscribed), "up"
    on,         \* on[ph]: the number of its last link
    links, sent,    \* how many links there were, how many packets were written
    wire,       \* wire[ph]: bytes written and not read yet
    buf,        \* buf[ph]: the FrameAssembler the node has for ph
    queue,      \* the pool's queue of tasks
    job,        \* job[w]: what worker w is doing
    stopped,    \* "no", then "proxy", then "transport", in the order of main.py
    \* For the properties.
    due,        \* due[ph]: packets sent over this link and not handed over yet
    astray,     \* phones whose stream is out of step: the assembler outlived a link,
                \* or a packet was longer than a frame may be
    owed,       \* owed[ph]: requests handed over from this link and not answered
    missed      \* phones that missed a reply on this link

linkVars == <<link, on, links>>
streamVars == <<sent, wire, buf, due, astray>>
poolVars == <<queue, job, stopped>>
replyVars == <<owed, missed>>
vars == <<linkVars, streamVars, poolVars, replyVars>>

Task == [peer : Phones, on : 1 .. MaxLinks, req : Requests]

\* The length of the reply, none while the call is under way.
NoReply == 0
Job == [task : Task, reply : {NoReply, Note} \cup Bodies]

Calling(w) == job[w] # Idle /\ job[w].reply = NoReply

Init ==
    /\ link = [ph \in Phones |-> "down"]
    /\ on = [ph \in Phones |-> 0] /\ links = 0 /\ sent = 0
    /\ wire = [ph \in Phones |-> <<>>]
    /\ buf = [ph \in Phones |-> <<>>]
    /\ queue = <<>>
    /\ job = [w \in Workers |-> Idle]
    /\ stopped = "no"
    /\ due = [ph \in Phones |-> <<>>]
    /\ owed = [ph \in Phones |-> {}]
    /\ astray = {} /\ missed = {}

-----------------------------------------------------------------------------
(* Links and streams. *)

\* A BLE central may write before it subscribes.  _peer_connected leaves an
\* assembler it finds as it is; a Wi-Fi reader makes a new one.
Connect(ph) ==
    /\ link[ph] = "down" /\ links < MaxLinks /\ stopped # "transport"
    /\ link' = [link EXCEPT ![ph] = IF ph \in BlePhones THEN "mute" ELSE "up"]
    /\ links' = links + 1 /\ on' = [on EXCEPT ![ph] = links']
    /\ buf' = [buf EXCEPT ![ph] = IF ph \in BlePhones THEN @ ELSE <<>>]
    /\ UNCHANGED <<sent, wire, due, astray, poolVars, replyVars>>

Subscribe(ph) ==
    /\ link[ph] = "mute"
    /\ link' = [link EXCEPT ![ph] = "up"]
    /\ UNCHANGED <<on, links, streamVars, poolVars, replyVars>>

\* The app frames a packet and writes it; how it is cut up does not matter.
PhoneWrites(ph, m) ==
    /\ link[ph] # "down" /\ sent < MaxSent
    /\ sent' = sent + 1
    /\ wire' = [wire EXCEPT ![ph] = @ \o Frame(m)]
    /\ due' = [due EXCEPT ![ph] = Append(@, m)]
    /\ astray' = IF Len(m) > MaxFrame THEN astray \cup {ph} ELSE astray
    /\ UNCHANGED <<buf, linkVars, poolVars, replyVars>>

\* A link of phones S ends: what was not read is gone, nobody waits any more.
EndLinks(S) ==
    /\ link' = [ph \in Phones |-> IF ph \in S THEN "down" ELSE link[ph]]
    /\ wire' = [ph \in Phones |-> IF ph \in S THEN <<>> ELSE wire[ph]]
    /\ due' = [ph \in Phones |-> IF ph \in S THEN <<>> ELSE due[ph]]
    /\ owed' = [ph \in Phones |-> IF ph \in S THEN {} ELSE owed[ph]]
    /\ missed' = missed \ S
    /\ UNCHANGED <<on, links, sent>>

\* The assembler stays for the phone's next link.
LoseLinkOnly(ph) ==
    /\ link[ph] # "down"
    /\ EndLinks({ph})
    /\ UNCHANGED <<buf, astray, poolVars>>

\* The link breaks.  _peer_disconnected drops the assembler, but CoreBluetooth
\* reports only centrals that had subscribed.
LoseLink(ph) ==
    /\ link[ph] # "down"
    /\ EndLinks({ph})
    /\ \/ buf' = [buf EXCEPT ![ph] = <<>>] /\ astray' = astray \ {ph}
       \/ /\ link[ph] = "mute" /\ UNCHANGED buf
          /\ astray' = IF buf[ph] # <<>> THEN astray \cup {ph} ELSE astray \ {ph}
    /\ UNCHANGED poolVars

\* The tasks made of requests that came in from phone ph.
Tasks(ph, reqs) == [i \in DOMAIN reqs |-> [peer |-> ph, on |-> on[ph], req |-> reqs[i]]]

\* A submit that waits until a worker is free.
SubmitWaiting(ph, reqs) ==
    /\ reqs = <<>> \/ stopped # "no" \/ \E w \in Workers : job[w] = Idle
    /\ queue' = IF stopped = "no" THEN queue \o Tasks(ph, reqs) ELSE queue
    /\ owed' = IF stopped = "no" THEN [owed EXCEPT ![ph] = @ \cup ToSet(reqs)] ELSE owed

\* ThreadPoolExecutor.submit: the queue has no bound; after shutdown it raises
\* RuntimeError, which handle_frame swallows.
Submit(ph, reqs) ==
    IF stopped = "no"
    THEN queue' = queue \o Tasks(ph, reqs) /\ owed' = [owed EXCEPT ![ph] = @ \cup ToSet(reqs)]
    ELSE UNCHANGED <<queue, owed>>

\* The demux: the packets that are requests, in their order.
RequestsIn[packets \in Seq(Seq(Bytes))] ==
    IF packets = <<>> THEN <<>>
    ELSE (IF Head(packets) \in Requests THEN <<Head(packets)>> ELSE <<>>)
         \o RequestsIn[Tail(packets)]

\* One write event or recv: some of the bytes are fed to the assembler, and of
\* the packets the demux hands the requests to the proxy.
Read(ph, n) ==
    LET fed == Feed[buf[ph] \o SubSeq(wire[ph], 1, n)] IN
    /\ ~fed.corrupt \/ ph \in BlePhones
    /\ Submit(ph, RequestsIn[fed.packets])
    /\ wire' = [wire EXCEPT ![ph] = SubSeq(@, n + 1, Len(@))]
    /\ buf' = [buf EXCEPT ![ph] = fed.buf]
    /\ due' = [due EXCEPT ![ph] =
          IF IsPrefix(fed.packets, @) THEN SubSeq(@, Len(fed.packets) + 1, Len(@)) ELSE @]
    /\ UNCHANGED <<sent, astray, job, stopped, missed, linkVars>>

\* A corrupt stream ends a Wi-Fi connection, as nothing can bring it in step
\* again; over BLE the emptied assembler goes on with whatever comes next.
ReadCorrupt(ph, n) ==
    /\ Feed[buf[ph] \o SubSeq(wire[ph], 1, n)].corrupt /\ ph \notin BlePhones
    /\ EndLinks({ph})
    /\ buf' = [buf EXCEPT ![ph] = <<>>] /\ astray' = astray \ {ph}
    /\ UNCHANGED poolVars

-----------------------------------------------------------------------------
(* The worker pool. *)

\* A worker takes the oldest task; _execute refuses it or calls the backend.
Take(w) ==
    /\ job[w] = Idle /\ queue # <<>>
    /\ job' = [job EXCEPT ![w] =
          [task |-> Head(queue), reply |-> IF Head(queue).req \in Allowed THEN NoReply ELSE Note]]
    /\ queue' = Tail(queue)
    /\ UNCHANGED <<stopped, linkVars, streamVars, replyVars>>

\* The backend accepts or rejects: a body of some length with its status, or
\* status 0 if there is too much of it.
Answer(w, body) ==
    /\ Calling(w)
    /\ job' = [job EXCEPT ![w].reply = IF body > MaxResponse THEN Note ELSE body]
    /\ UNCHANGED <<queue, stopped, linkVars, streamVars, replyVars>>

\* No uplink, or no answer in time: status 0.
CallFails(w) ==
    /\ Calling(w)
    /\ job' = [job EXCEPT ![w].reply = Note]
    /\ UNCHANGED <<queue, stopped, linkVars, streamVars, replyVars>>

\* The task of worker w was asked over the link its phone still has.
Current(w) == job[w].task.on = on[job[w].task.peer] /\ link[job[w].task.peer] # "down"

\* Worker w is done with a task whose reply never reached the phone.
Miss(w) ==
    /\ missed' = IF Current(w) THEN missed \cup {job[w].task.peer} ELSE missed
    /\ UNCHANGED owed

\* The body of a rejection does not come: exc.read raises, out of _serve.
RejectionCutOff(w) ==
    /\ Calling(w)
    /\ Miss(w)
    /\ job' = [job EXCEPT ![w] = Idle]
    /\ UNCHANGED <<queue, stopped, linkVars, streamVars>>

\* A Wi-Fi peer id is one connection; a notification reaches every central that
\* is subscribed.
Reply(w) ==
    IF Current(w) /\ link[job[w].task.peer] = "up"
    THEN owed' = [owed EXCEPT ![job[w].task.peer] = @ \ {job[w].task.req}] /\ UNCHANGED missed
    ELSE Miss(w)

\* A reply that cannot be framed takes its thread with it.
SendOrDie(w) ==
    /\ job[w] # Idle /\ ~Calling(w)
    /\ Frameable(job[w].reply) /\ Reply(w)
    /\ job' = [job EXCEPT ![w] = Idle]
    /\ UNCHANGED <<queue, stopped, linkVars, streamVars>>

\* transport.send: frame() raises if the reply is too long, and the exception
\* is swallowed in BleTransport.send or in _serve.
Send(w) ==
    /\ job[w] # Idle /\ ~Calling(w)
    /\ IF Frameable(job[w].reply) THEN Reply(w) ELSE Miss(w)
    /\ job' = [job EXCEPT ![w] = Idle]
    /\ UNCHANGED <<queue, stopped, linkVars, streamVars>>

-----------------------------------------------------------------------------
(* Shutdown: the proxy first, the transports later. *)

\* shutdown without cancel_futures.
StopButServe ==
    /\ stopped = "no"
    /\ stopped' = "proxy"
    /\ UNCHANGED <<queue, job, linkVars, streamVars, replyVars>>

\* BackendProxyService.stop: queued tasks are cancelled, running ones go on.
StopProxy ==
    /\ stopped = "no"
    /\ stopped' = "proxy" /\ queue' = <<>>
    /\ UNCHANGED <<job, linkVars, streamVars, replyVars>>

\* relay.stop() closes the connections and ends the BLE server.
StopTransport ==
    /\ stopped = "proxy"
    /\ stopped' = "transport"
    /\ EndLinks(Phones)
    /\ buf' = [ph \in Phones |-> <<>>] /\ astray' = {}
    /\ UNCHANGED <<queue, job>>

\* The process is about to end: workers have nothing left to do.
Stopped == stopped = "transport" /\ (\A w \in Workers : job[w] = Idle) /\ UNCHANGED vars

ReadSome(ph) == \E n \in 1 .. Len(wire[ph]) : Read(ph, n) \/ ReadCorrupt(ph, n)

Next ==
    \/ \E ph \in Phones : Connect(ph) \/ Subscribe(ph) \/ LoseLink(ph) \/ ReadSome(ph)
    \/ \E ph \in Phones : \E m \in Messages : PhoneWrites(ph, m)
    \/ \E w \in Workers : Take(w) \/ Send(w) \/ CallFails(w) \/ RejectionCutOff(w)
    \/ \E w \in Workers : \E body \in Bodies : Answer(w, body)
    \/ StopProxy \/ StopTransport \/ Stopped

Spec == Init /\ [][Next]_vars

\* Readers read what has come in, and workers go on with what does not depend
\* on the backend.  No call has to end.
Fairness ==
    /\ \A ph \in Phones : WF_vars(ReadSome(ph))
    /\ \A w \in Workers : WF_vars(Take(w)) /\ WF_vars(Send(w))

FairSpec == Spec /\ Fairness

-----------------------------------------------------------------------------

\* Type correctness of the streams and the pool.
TypeOK ==
    /\ link \in [Phones -> {"down", "mute", "up"}]
    /\ on \in [Phones -> 0 .. MaxLinks] /\ links \in 0 .. MaxLinks /\ sent \in 0 .. MaxSent
    /\ wire \in [Phones -> Seq(Bytes)] /\ buf \in [Phones -> Seq(Bytes)]
    /\ queue \in Seq(Task)
    /\ job \in [Workers -> Job \cup {Idle}]
    /\ stopped \in {"no", "proxy", "transport"}
    /\ due \in [Phones -> Seq(Messages)]
    /\ owed \in [Phones -> SUBSET Requests]
    /\ astray \subseteq Phones /\ missed \subseteq Phones

\* "Chunk boundaries carry no meaning" (framing.py:5): the bytes in a phone's
\* assembler and on its link are exactly the frames of the packets it sent over
\* this link and the node has not handed over.  So packets are handed over whole,
\* in order and once, however the stream is cut up and wherever earlier links
\* broke off; "Reconnecting must start from a clean buffer" (test_gatt_base.py).
\* Excepted are a central that was lost before it had subscribed, and a packet
\* longer than MAX_FRAME, until the link ends.
StreamIsWhole ==
    \A ph \in Phones \ astray :
        buf[ph] \o wire[ph] = Frames[due[ph]]

\* No call takes for ever: urlopen has a timeout.
CallsEnd == \A w \in Workers : []<>~Calling(w)

\* A phone that stays gets a reply to every request the pool accepted, whatever
\* the calls before it came to, unless the node stops or the reply is of a kind
\* that is lost in silence: too long for a frame, a rejection whose body does
\* not come, or one for a central that has not subscribed.
RequestsAreAnswered ==
    CallsEnd => \A ph \in Phones :
        owed[ph] # {} ~> (owed[ph] = {} \/ ph \in missed \/ stopped # "no")

\* "a slow backend can neither block the relay's receive path ..."
\* (backend_proxy.py:27): what a phone wrote is read, even if no call ever ends
\* and every worker waits for one.
ReceivePathStaysFree == \A ph \in Phones : wire[ph] # <<>> ~> wire[ph] = <<>>

\* After stop() no call to the backend begins, neither of a task that waited in
\* the queue nor of a request that comes in while the transports are still up.
NoCallAfterStop ==
    [][stopped # "no" => \A w \in Workers : Calling(w)' => Calling(w)]_vars
=============================================================================
