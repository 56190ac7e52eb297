--------------------------- MODULE LocationAuthz ----------------------------
(***************************************************************************)
(* Location serving on one node: LocationService, LocationAuthz and        *)
(* LocationStore (node/location/).  Beacons overwrite the sharer's one     *)
(* row; a query is answered from that row if it carries a capability token *)
(* of the target; the target may revoke the token.                         *)
(*                                                                         *)
(* Queries run on several threads (BLE, Wi-Fi, backhaul), each with a pc;  *)
(* a step ends where handle_query looks at shared state again.  The clock  *)
(* is time.time(), which may be stepped back.  Token and seal cryptography *)
(* (meshlink-core) is external: a token is a name with attributes.         *)
(***************************************************************************)
EXTENDS Naturals, Integers, FiniteSets

CONSTANTS
    Users,          \* stable identities of phones
    Tokens,         \* capability tokens
    Issuer, Grantee, Until, Genuine,    \* attributes of the tokens
    Threads,        \* threads that run the relay's handler
    Sharers,        \* users whose phone sends beacons
    Listings,       \* sets of users the backend may list
    Cell,           \* users whose phone is a subscribed BLE central
    NoToken, NoFix, \* None
    MinInterval,    \* query_min_interval_s
    Epoch,          \* the clock when the node first boots
    MaxClock, MaxBack, MaxFixes, MaxQueries, MaxRestarts    \* bounds

ASSUME TokenAssumption ==
    /\ Users # {}
    /\ NoToken \notin Tokens
    /\ Issuer \in [Tokens -> Users]
    /\ Grantee \in [Tokens -> Users]
    /\ Until \in [Tokens -> Nat]
    /\ Genuine \in [Tokens -> BOOLEAN]
    /\ Cell \subseteq Users /\ Sharers \subseteq Users /\ Listings \subseteq SUBSET Users
    /\ NoFix \notin Nat
ASSUME TimeAssumption ==
    /\ MinInterval \in Nat
    /\ Epoch \in Nat
    /\ MinInterval <= Epoch     \* time.time() is decades away from 0.0
ASSUME BoundAssumption ==
    /\ {MaxClock, MaxBack, MaxFixes, MaxQueries, MaxRestarts} \subseteq Nat
    /\ Epoch <= MaxClock

Pairs == Users \X Users         \* <<requester, target>>
Vias == {"ble", "wifi", "backhaul"}

VARIABLES
    clock,      \* the wall clock of the node
    directory,  \* users the DirectoryCache knows
    ingested,   \* ingested[u]: beacons of u the dedup step has let through
    rows,       \* rows[u]: fix and time of the stored beacon, or NoFix
    revoked,    \* _revoked
    lastQuery,  \* _last_query; 0 stands for a missing key, like get(pair, 0.0)
    pc, job, now, row,      \* per thread: label, query, locals now and row
    back, queries, restarts,        \* counters of the bounds
    \* For the properties.
    fixes,      \* fixes[u]: number of fixes u's phone has made
    responses   \* responses sent, with the circumstances of each

vars == <<clock, directory, ingested, rows, revoked, lastQuery, pc, job, now, row, back,
          queries, restarts, fixes, responses>>

shared == <<clock, directory, ingested, rows, revoked, lastQuery>>
local == <<pc, job, now, row>>
ghosts == <<fixes, responses>>
bounds == <<back, queries, restarts>>

NoRow == [fix |-> NoFix, at |-> 0]
NoJob == [tok |-> NoToken, sender |-> CHOOSE u \in Users : TRUE, via |-> "ble",
          revoked |-> FALSE, nr |-> 0]

Init ==
    /\ clock = Epoch
    /\ directory = Users
    /\ ingested = [u \in Users |-> {}]
    /\ rows = [u \in Users |-> NoRow]
    /\ revoked = {}
    /\ lastQuery = [p \in Pairs |-> 0]
    /\ pc = [t \in Threads |-> "idle"]
    /\ job = [t \in Threads |-> NoJob]
    /\ now = [t \in Threads |-> 0]
    /\ row = [t \in Threads |-> NoRow]
    /\ back = 0 /\ queries = 0 /\ restarts = 0
    /\ fixes = [u \in Users |-> 0]
    /\ responses = {}

-----------------------------------------------------------------------------

\* by_ed25519_id of the directory finds the user.
Known(u) == u \in directory

\* LocationStore: get returns the one row of a user, update overwrites it.
Get(u) == rows[u]
Update(u, fix) == rows' = [rows EXCEPT ![u] = [fix |-> fix, at |-> clock]]

\* _refuse, and the end of a served query: the thread forgets its locals.
Leave(t) ==
    /\ pc' = [pc EXCEPT ![t] = "idle"]
    /\ job' = [job EXCEPT ![t] = NoJob]
    /\ now' = [now EXCEPT ![t] = 0]
    /\ row' = [row EXCEPT ![t] = NoRow]

\* Whoever bears the token may use it.
MayProceedBearer(tok, sender) == tok # NoToken /\ Known(Issuer[tok])

\* The envelope's sender must be the grantee, the issuer must be known.
MayProceed(tok, sender) ==
    tok # NoToken /\ Grantee[tok] = sender /\ Known(Issuer[tok])

\* handle_query up to the clock: decode, grantee and issuer.  A query that is
\* malformed (NoToken), stolen or about a stranger is refused at once.
Query(t, tok, sender, via) ==
    /\ pc[t] = "idle"
    /\ queries < MaxQueries
    /\ queries' = queries + 1
    /\ via = "ble" => sender \in Cell
    /\ IF MayProceed(tok, sender)
       THEN /\ job' = [job EXCEPT ![t] = [tok |-> tok, sender |-> sender, via |-> via,
                                          revoked |-> tok \in revoked,
                                          nr |-> queries + 1]]
            /\ pc' = [pc EXCEPT ![t] = "verify"]
       ELSE UNCHANGED <<pc, job>>
    /\ UNCHANGED <<shared, now, row, ghosts, back, restarts>>

\* now = self._clock(), then verify_capability_token.
Valid(tok, time) == Genuine[tok] /\ time <= Until[tok]

Verify(t) ==
    /\ pc[t] = "verify"
    /\ IF Valid(job[t].tok, clock)
       THEN /\ now' = [now EXCEPT ![t] = clock]
            /\ pc' = [pc EXCEPT ![t] = "revocation"]
            /\ UNCHANGED <<job, row>>
       ELSE Leave(t)
    /\ UNCHANGED <<shared, ghosts, bounds>>

\* The revocation set is not consulted.
CheckNothing(t) ==
    /\ pc[t] = "revocation"
    /\ pc' = [pc EXCEPT ![t] = "slot"]
    /\ UNCHANGED <<job, now, row>>
    /\ UNCHANGED <<shared, ghosts, bounds>>

CheckRevoked(t) ==
    /\ pc[t] = "revocation"
    /\ IF job[t].tok \in revoked
       THEN Leave(t)
       ELSE /\ pc' = [pc EXCEPT ![t] = "slot"]
            /\ UNCHANGED <<job, now, row>>
    /\ UNCHANGED <<shared, ghosts, bounds>>

PairOf(j) == <<j.sender, Issuer[j.tok]>>

\* A slot from the future, as after a clock step, counts as free.
TakeSlotBackwards(t) ==
    LET pair == PairOf(job[t]) IN
    /\ pc[t] = "slot"
    /\ IF now[t] - lastQuery[pair] \in 0 .. (MinInterval - 1)
       THEN Leave(t) /\ UNCHANGED lastQuery
       ELSE /\ lastQuery' = [lastQuery EXCEPT ![pair] = now[t]]
            /\ pc' = [pc EXCEPT ![t] = "row"]
            /\ UNCHANGED <<job, now, row>>
    /\ UNCHANGED <<clock, directory, ingested, rows, revoked, ghosts, bounds>>

\* The rate limit, checked and taken under one lock.
TakeSlot(t) ==
    LET pair == PairOf(job[t]) IN
    /\ pc[t] = "slot"
    /\ IF now[t] - lastQuery[pair] < MinInterval
       THEN Leave(t) /\ UNCHANGED lastQuery
       ELSE /\ lastQuery' = [lastQuery EXCEPT ![pair] = now[t]]
            /\ pc' = [pc EXCEPT ![t] = "row"]
            /\ UNCHANGED <<job, now, row>>
    /\ UNCHANGED <<clock, directory, ingested, rows, revoked, ghosts, bounds>>

ReadRow(t) ==
    LET r == Get(Issuer[job[t].tok]) IN
    /\ pc[t] = "row"
    /\ IF r = NoRow
       THEN Leave(t)
       ELSE /\ row' = [row EXCEPT ![t] = r]
            /\ pc' = [pc EXCEPT ![t] = "respond"]
            /\ UNCHANGED <<job, now>>
    /\ UNCHANGED <<shared, ghosts, bounds>>

\* transport.send(peer_id, ...): MultiTransport takes every peer id that does
\* not name a Wi-Fi session for BLE, and a BLE send goes to the whole cell.
SentTo(j) == IF j.via = "wifi" THEN {j.sender} ELSE Cell

\* The requester must be known; the answer is sealed to its key and sent back.
Respond(t) ==
    /\ pc[t] = "respond"
    /\ responses' =
          IF Known(job[t].sender)
          THEN responses \cup {[nr |-> job[t].nr, tok |-> job[t].tok,
                                to |-> job[t].sender, now |-> now[t],
                                fix |-> row[t].fix, reached |-> SentTo(job[t]),
                                revoked |-> job[t].revoked, boot |-> restarts]}
          ELSE responses
    /\ Leave(t)
    /\ UNCHANGED <<shared, bounds, fixes>>

\* A query in the handler that has not yet come to the revocation check, and
\* the mark of one whose token was revoked before it did.
Unchecked(t) == pc[t] \in {"verify", "revocation"}
Marked(t, tok) ==
    IF Unchecked(t) /\ job[t].tok = tok THEN [job[t] EXCEPT !.revoked = TRUE] ELSE job[t]

\* handle_revoke: the envelope's sender must be the issuer.
Revoke(tok, sender) ==
    /\ IF sender = Issuer[tok]
       THEN revoked' = revoked \cup {tok} /\ job' = [t \in Threads |-> Marked(t, tok)]
       ELSE UNCHANGED <<revoked, job>>
    /\ UNCHANGED <<clock, directory, ingested, rows, lastQuery, pc, now, row, ghosts, bounds>>

\* The phone of u takes another fix and puts it in a beacon.
TakeFix(u) ==
    /\ fixes[u] < MaxFixes
    /\ fixes' = [fixes EXCEPT ![u] = @ + 1]
    /\ UNCHANGED <<shared, local, bounds, responses>>

\* The row's fields are stored the wrong way round.
IngestSwapped(u, fix) ==
    /\ fix \notin ingested[u]
    /\ ingested' = [ingested EXCEPT ![u] = @ \cup {fix}]
    /\ rows' = [rows EXCEPT ![u] = [fix |-> clock, at |-> fix]]
    /\ UNCHANGED <<clock, directory, revoked, lastQuery, local, bounds, ghosts>>

\* _ingest_beacon: one of u's beacons arrives and overwrites the row.  Beacons
\* travel through other phones too, so they arrive in any order.
Ingest(u, fix) ==
    /\ fix \notin ingested[u]
    /\ ingested' = [ingested EXCEPT ![u] = @ \cup {fix}]
    /\ Update(u, fix)
    /\ UNCHANGED <<clock, directory, revoked, lastQuery, local, bounds, ghosts>>

\* DirectoryCache.refresh replaces the index by what the backend lists.
SyncDirectory(known) ==
    /\ directory' = known
    /\ UNCHANGED <<clock, ingested, rows, revoked, lastQuery, local, bounds, ghosts>>

Tick ==
    /\ clock < MaxClock
    /\ clock' = clock + 1
    /\ UNCHANGED <<directory, ingested, rows, revoked, lastQuery, local, bounds, ghosts>>

\* NTP steps the wall clock back.
StepBack ==
    /\ back < MaxBack
    /\ back' = back + 1
    /\ clock > Epoch
    /\ clock' = clock - 1
    /\ UNCHANGED <<directory, ingested, rows, revoked, lastQuery, local, queries, restarts, ghosts>>

\* The process restarts: the directory comes back from its disk cache, rows,
\* revocations and rate-limit slots do not.
Restart ==
    /\ restarts < MaxRestarts
    /\ restarts' = restarts + 1
    /\ ingested' = [u \in Users |-> {}]
    /\ rows' = [u \in Users |-> NoRow]
    /\ revoked' = {}
    /\ lastQuery' = [p \in Pairs |-> 0]
    /\ pc' = [t \in Threads |-> "idle"]
    /\ job' = [t \in Threads |-> NoJob]
    /\ now' = [t \in Threads |-> 0]
    /\ row' = [t \in Threads |-> NoRow]
    /\ UNCHANGED <<clock, directory, back, queries, ghosts>>

HandleQuery(t) ==
    Verify(t) \/ CheckRevoked(t) \/ TakeSlot(t) \/ ReadRow(t) \/ Respond(t)

Next ==
    \/ \E t \in Threads : \E tok \in Tokens \cup {NoToken} : \E u \in Users :
          \E via \in Vias : Query(t, tok, u, via)
    \/ \E t \in Threads : HandleQuery(t)
    \/ \E tok \in Tokens : \E u \in Users : Revoke(tok, u)
    \/ \E u \in Sharers : TakeFix(u)
    \/ \E u \in Sharers : \E fix \in 1 .. fixes[u] : Ingest(u, fix)
    \/ \E known \in Listings : SyncDirectory(known)
    \/ Tick
    \/ StepBack
    \/ Restart

Spec == Init /\ [][Next]_vars

-----------------------------------------------------------------------------

Fixes == 1 .. MaxFixes
Times == 0 .. MaxClock
Rows == [fix : Fixes \cup {NoFix}, at : Times]
Jobs == [tok : Tokens \cup {NoToken}, sender : Users, via : Vias,
         revoked : BOOLEAN, nr : 0 .. MaxQueries]
Labels == {"idle", "verify", "revocation", "slot", "row", "respond"}
Responses == [nr : 0 .. MaxQueries, tok : Tokens, to : Users, now : Times,
              fix : Fixes \cup {NoFix}, reached : SUBSET Users, revoked : BOOLEAN,
              boot : 0 .. MaxRestarts]

\* Type correctness of the location service.
TypeOK ==
    /\ clock \in Times
    /\ directory \subseteq Users
    /\ ingested \in [Users -> SUBSET Fixes]
    /\ rows \in [Users -> Rows]
    /\ revoked \subseteq Tokens
    /\ lastQuery \in [Pairs -> Times]
    /\ pc \in [Threads -> Labels]
    /\ job \in [Threads -> Jobs]
    /\ \A t \in Threads : pc[t] # "idle" => job[t].tok \in Tokens
    /\ now \in [Threads -> Times]
    /\ row \in [Threads -> Rows]
    /\ fixes \in [Users -> 0 .. MaxFixes]
    /\ back \in 0 .. MaxBack
    /\ queries \in 0 .. MaxQueries
    /\ restarts \in 0 .. MaxRestarts
    /\ responses \subseteq Responses

\* "The node never fabricates consent": behind every response there is a
\* genuine token of the person located, made out to the requester and valid
\* at the moment handle_query looked at the clock, and the coordinate is one
\* that person's phone sent.
ConsentBehindEveryResponse ==
    \A r \in responses :
        /\ Valid(r.tok, r.now)
        /\ Grantee[r.tok] = r.to
        /\ r.fix \in 1 .. fixes[Issuer[r.tok]]

\* "The 60 s rate limit stops a valid token being polled into a track": of two
\* responses about one person to one requester in one boot the clocks differ
\* by the interval, also when two threads race for the slot, when the clock is
\* stepped back and when the requester holds several tokens.
ResponsesAreSpaced ==
    \A r, s \in responses :
        /\ r.boot = s.boot /\ r.to = s.to /\ Issuer[r.tok] = Issuer[s.tok]
        /\ r.now <= s.now /\ r # s
        => s.now - r.now >= MinInterval

\* A revocation wins over every query that has not passed the check, whichever
\* thread has it in hand, also between the token check and this one: such a
\* query is not answered, nor is any later one for as long as the node runs.
\* Only queries past the check when the revocation lands still get an answer.
RevocationHolds == \A r \in responses : ~r.revoked

\* service.py:13: the node "sends it straight back over the requester's
\* session".
ResponsesReachRequester == \A r \in responses : r.to \in r.reached
=============================================================================
