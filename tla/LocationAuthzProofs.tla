------------------------ MODULE LocationAuthzProofs -------------------------
(***************************************************************************)
(* Proofs about LocationAuthz, for any users, tokens, threads, interval    *)
(* and bounds, and with a clock that is stepped back at any moment.        *)
(***************************************************************************)
EXTENDS LocationAuthz, TLAPS

\* The bounds are numbers, the empty row and the empty job have their types.
LEMMA BoundTypes ==
    /\ MaxClock \in Nat /\ MaxBack \in Nat /\ MaxFixes \in Nat
    /\ MaxQueries \in Nat /\ MaxRestarts \in Nat
    /\ Epoch \in Times
  BY TimeAssumption, BoundAssumption DEF Times

LEMMA EmptyTypes == NoRow \in Rows /\ NoJob \in Jobs
  <1>1. (CHOOSE u \in Users : TRUE) \in Users
    BY TokenAssumption
  <1> QED
    BY <1>1, BoundTypes DEF NoRow, NoJob, Rows, Jobs, Times, Vias

\* A thread that leaves the handler keeps the types of its locals.
LEMMA LeaveTypes ==
    ASSUME TypeOK, NEW t \in Threads, Leave(t)
    PROVE  /\ pc' \in [Threads -> Labels]
           /\ job' \in [Threads -> Jobs]
           /\ \A s \in Threads : pc'[s] # "idle" => job'[s].tok \in Tokens
           /\ now' \in [Threads -> Times]
           /\ row' \in [Threads -> Rows]
  <1>1. 0 \in Times
    BY BoundTypes DEF Times
  <1> QED
    BY <1>1, EmptyTypes DEF TypeOK, Leave, Labels

\* Initially the types hold.
LEMMA InitTypes == Init => TypeOK
  <1> SUFFICES ASSUME Init PROVE TypeOK
    OBVIOUS
  <1>1. 0 \in Times /\ clock \in Times
    BY BoundTypes DEF Times, Init
  <1> QED
    BY <1>1, BoundTypes, EmptyTypes DEF Init, TypeOK, Labels

\* A revocation marks queries and changes nothing else about them.
LEMMA RevokeMarks ==
    ASSUME TypeOK, NEW tok \in Tokens, NEW u \in Users, Revoke(tok, u)
    PROVE  /\ job' \in [Threads -> Jobs]
           /\ \A t \in Threads :
                 /\ job'[t].tok = job[t].tok /\ job'[t].sender = job[t].sender
                 /\ job'[t].revoked => job[t].revoked \/ (Unchecked(t) /\ job[t].tok \in revoked')
  <1>1. \A t \in Threads : job[t] \in Jobs
    BY DEF TypeOK
  <1>2. CASE u = Issuer[tok]
    <2>1. revoked' = revoked \cup {tok} /\ job' = [t \in Threads |-> Marked(t, tok)]
      BY <1>2 DEF Revoke
    <2>2. ASSUME NEW t \in Threads
          PROVE  /\ Marked(t, tok) \in Jobs
                 /\ Marked(t, tok).tok = job[t].tok /\ Marked(t, tok).sender = job[t].sender
                 /\ Marked(t, tok).revoked => job[t].revoked \/ (Unchecked(t) /\ job[t].tok = tok)
      BY <1>1 DEF Marked, Jobs
    <2> QED
      BY <2>1, <2>2
  <1>3. CASE u # Issuer[tok]
    BY <1>1, <1>3 DEF Revoke, TypeOK
  <1> QED
    BY <1>2, <1>3

\* Every action, and so every step, preserves the types.
LEMMA StepTypes == TypeOK /\ [Next]_vars => TypeOK'
  <1> SUFFICES ASSUME TypeOK, [Next]_vars PROVE TypeOK'
    OBVIOUS
  <1> USE BoundTypes
  <1>1. ASSUME NEW t \in Threads, NEW tok \in Tokens \cup {NoToken}, NEW u \in Users,
               NEW via \in Vias, Query(t, tok, u, via)
        PROVE  TypeOK'
    <2>1. queries' \in 0 .. MaxQueries /\ queries + 1 \in 0 .. MaxQueries
      BY <1>1 DEF Query, TypeOK
    <2>2. CASE MayProceed(tok, u)
      <3>1. [tok |-> tok, sender |-> u, via |-> via, revoked |-> tok \in revoked,
             nr |-> queries + 1] \in Jobs
        BY <2>1 DEF Jobs
      <3>2. tok \in Tokens
        BY <2>2 DEF MayProceed
      <3> QED
        BY <1>1, <2>1, <2>2, <3>1, <3>2 DEF Query, TypeOK, shared, ghosts, Labels
    <2>3. CASE ~MayProceed(tok, u)
      BY <1>1, <2>1, <2>3 DEF Query, TypeOK, shared, ghosts
    <2> QED
      BY <2>2, <2>3
  <1>2. ASSUME NEW t \in Threads, Verify(t) PROVE TypeOK'
    <2>1. CASE Valid(job[t].tok, clock)
      BY <1>2, <2>1 DEF Verify, TypeOK, shared, ghosts, bounds, Labels
    <2>2. CASE ~Valid(job[t].tok, clock)
      BY <1>2, <2>2, LeaveTypes DEF Verify, TypeOK, shared, ghosts, bounds
    <2> QED
      BY <2>1, <2>2
  <1>3. ASSUME NEW t \in Threads, CheckRevoked(t) PROVE TypeOK'
    <2>1. CASE job[t].tok \in revoked
      BY <1>3, <2>1, LeaveTypes DEF CheckRevoked, TypeOK, shared, ghosts, bounds
    <2>2. CASE job[t].tok \notin revoked
      BY <1>3, <2>2 DEF CheckRevoked, TypeOK, shared, ghosts, bounds, Labels
    <2> QED
      BY <2>1, <2>2
  <1>4. ASSUME NEW t \in Threads, TakeSlot(t) PROVE TypeOK'
    <2>1. CASE now[t] - lastQuery[PairOf(job[t])] < MinInterval
      BY <1>4, <2>1, LeaveTypes DEF TakeSlot, TypeOK, ghosts, bounds
    <2>2. CASE ~(now[t] - lastQuery[PairOf(job[t])] < MinInterval)
      BY <1>4, <2>2 DEF TakeSlot, TypeOK, ghosts, bounds, Labels
    <2> QED
      BY <2>1, <2>2
  <1>5. ASSUME NEW t \in Threads, ReadRow(t) PROVE TypeOK'
    <2>1. CASE Get(Issuer[job[t].tok]) = NoRow
      BY <1>5, <2>1, LeaveTypes DEF ReadRow, TypeOK, shared, ghosts, bounds
    <2>2. CASE Get(Issuer[job[t].tok]) # NoRow
      <3>1. Get(Issuer[job[t].tok]) \in Rows
        BY <1>5, TokenAssumption DEF ReadRow, TypeOK, Get
      <3> QED
        BY <1>5, <2>2, <3>1 DEF ReadRow, TypeOK, shared, ghosts, bounds, Labels
    <2> QED
      BY <2>1, <2>2
  <1>6. ASSUME NEW t \in Threads, Respond(t) PROVE TypeOK'
    <2>1. responses' \subseteq Responses
      <3>1. job[t] \in Jobs /\ job[t].tok \in Tokens /\ row[t] \in Rows /\ now[t] \in Times
        BY <1>6 DEF Respond, TypeOK
      <3>2. SentTo(job[t]) \subseteq Users
        BY <3>1, TokenAssumption DEF SentTo, Jobs
      <3>3. [nr |-> job[t].nr, tok |-> job[t].tok, to |-> job[t].sender, now |-> now[t],
             fix |-> row[t].fix, reached |-> SentTo(job[t]),
             revoked |-> job[t].revoked, boot |-> restarts] \in Responses
        BY <3>1, <3>2 DEF Responses, Jobs, Rows, TypeOK
      <3> QED
        BY <1>6, <3>3 DEF Respond, TypeOK
    <2> QED
      BY <1>6, <2>1, LeaveTypes DEF Respond, TypeOK, shared, bounds
  <1>7. ASSUME NEW tok \in Tokens, NEW u \in Users, Revoke(tok, u) PROVE TypeOK'
    <2>1. /\ job' \in [Threads -> Jobs]
          /\ \A t \in Threads : job'[t].tok = job[t].tok
      BY <1>7, RevokeMarks
    <2>2. revoked' \subseteq Tokens
      BY <1>7 DEF Revoke, TypeOK
    <2> QED
      BY <1>7, <2>1, <2>2 DEF Revoke, TypeOK, ghosts, bounds
  <1>8. ASSUME NEW u \in Sharers, TakeFix(u) PROVE TypeOK'
    BY <1>8, TokenAssumption DEF TakeFix, TypeOK, local, shared, bounds
  <1>9. ASSUME NEW u \in Sharers, NEW fix \in 1 .. fixes[u], Ingest(u, fix) PROVE TypeOK'
    <2>1. u \in Users /\ fix \in Fixes
      BY TokenAssumption DEF TypeOK, Fixes
    <2>2. [fix |-> fix, at |-> clock] \in Rows
      BY <2>1 DEF Rows, TypeOK
    <2> QED
      BY <1>9, <2>1, <2>2 DEF Ingest, Update, TypeOK, local, ghosts, bounds
  <1>10. ASSUME NEW known \in Listings, SyncDirectory(known) PROVE TypeOK'
    BY <1>10, TokenAssumption DEF SyncDirectory, TypeOK, local, ghosts, bounds
  <1>11. CASE Tick
    BY <1>11 DEF Tick, TypeOK, Times, local, ghosts, bounds
  <1>12. CASE StepBack
    BY <1>12, TimeAssumption DEF StepBack, TypeOK, Times, local, ghosts
  <1>13. CASE Restart
    <2>1. 0 \in Times /\ restarts' \in 0 .. MaxRestarts
      BY <1>13 DEF Times, Restart, TypeOK
    <2> QED
      BY <1>13, <2>1, EmptyTypes DEF Restart, TypeOK, Labels, ghosts
  <1>14. CASE UNCHANGED vars
    BY <1>14 DEF vars, TypeOK
  <1> QED
    BY <1>1, <1>2, <1>3, <1>4, <1>5, <1>6, <1>7, <1>8, <1>9, <1>10, <1>11, <1>12, <1>13, <1>14
       DEF Next, HandleQuery

\* The location service always has its types.
THEOREM TypeCorrect == Spec => []TypeOK
  BY InitTypes, StepTypes, PTL DEF Spec

-----------------------------------------------------------------------------

\* The thread has taken its time and passed the token's signature and expiry.
Verified == {"revocation", "slot", "row", "respond"}

\* Every stored fix is one the phone has made.
RowsWereSent == \A u \in Users : rows[u] # NoRow => rows[u].fix \in 1 .. fixes[u]

\* What handle_query has established about its query is still true at every
\* later label: the locals carry it across the points where others run.
ConsentIsCarried ==
    \A t \in Threads :
        /\ pc[t] # "idle" => Grantee[job[t].tok] = job[t].sender
        /\ pc[t] \in Verified => Valid(job[t].tok, now[t])
        /\ pc[t] = "respond" => row[t].fix \in 1 .. fixes[Issuer[job[t].tok]]

ConsentInv == TypeOK /\ RowsWereSent /\ ConsentIsCarried /\ ConsentBehindEveryResponse

\* A step keeps what a response rests on.
LEMMA StepConsent == ConsentInv /\ [Next]_vars => ConsentInv'
  <1> DEFINE Good == RowsWereSent /\ ConsentIsCarried /\ ConsentBehindEveryResponse
  <1> SUFFICES ASSUME ConsentInv, [Next]_vars PROVE Good'
    BY StepTypes DEF ConsentInv
  <1> USE TokenAssumption, BoundTypes
      DEF ConsentInv, TypeOK, RowsWereSent, ConsentIsCarried, ConsentBehindEveryResponse, Verified
  <1>1. ASSUME NEW t \in Threads, NEW tok \in Tokens \cup {NoToken}, NEW u \in Users,
               NEW via \in Vias, Query(t, tok, u, via)
        PROVE  Good'
    BY <1>1 DEF Query, MayProceed, shared, ghosts
  <1>2. ASSUME NEW t \in Threads, Verify(t) PROVE Good'
    BY <1>2 DEF Verify, Leave, shared, ghosts, bounds
  <1>3. ASSUME NEW t \in Threads, CheckRevoked(t) PROVE Good'
    BY <1>3 DEF CheckRevoked, Leave, shared, ghosts, bounds
  <1>4. ASSUME NEW t \in Threads, TakeSlot(t) PROVE Good'
    BY <1>4 DEF TakeSlot, Leave, ghosts, bounds
  <1>5. ASSUME NEW t \in Threads, ReadRow(t) PROVE Good'
    BY <1>5 DEF ReadRow, Get, Leave, shared, ghosts, bounds
  <1>6. ASSUME NEW t \in Threads, Respond(t) PROVE Good'
    BY <1>6 DEF Respond, Leave, shared, bounds
  <1>7. ASSUME NEW tok \in Tokens, NEW u \in Users, Revoke(tok, u)
        PROVE  Good'
    BY <1>7, RevokeMarks DEF Revoke, ghosts, bounds
  <1>8. ASSUME NEW u \in Sharers, TakeFix(u)
        PROVE  Good'
    BY <1>8 DEF TakeFix, local, shared, bounds
  <1>9. ASSUME NEW u \in Sharers, NEW fix \in 1 .. fixes[u], Ingest(u, fix)
        PROVE  Good'
    BY <1>9 DEF Ingest, Update, local, ghosts, bounds
  <1>10. ASSUME NEW known \in Listings, SyncDirectory(known)
        PROVE  Good'
    BY <1>10 DEF SyncDirectory, local, ghosts, bounds
  <1>11. CASE Tick
    BY <1>11 DEF Tick, local, ghosts, bounds
  <1>12. CASE StepBack
    BY <1>12 DEF StepBack, local, ghosts
  <1>13. CASE Restart
    BY <1>13 DEF Restart, ghosts
  <1>14. CASE UNCHANGED vars
    BY <1>14 DEF vars
  <1> QED
    BY <1>1, <1>2, <1>3, <1>4, <1>5, <1>6, <1>7, <1>8, <1>9, <1>10, <1>11, <1>12, <1>13, <1>14
       DEF Next, HandleQuery

\* Behind every response there is the consent of the person located.
THEOREM NoResponseWithoutConsent == Spec => []ConsentBehindEveryResponse
  <1>1. Init => ConsentInv
    BY InitTypes DEF Init, ConsentInv, RowsWereSent, ConsentIsCarried, ConsentBehindEveryResponse,
                     Verified
  <1> QED
    BY <1>1, StepConsent, PTL DEF Spec, ConsentInv

-----------------------------------------------------------------------------

\* A query that met the revocation before the check gets no further than the
\* check, because the revocation set only grows while the node runs.
RevokedStops ==
    \A t \in Threads :
        job[t].revoked => pc[t] \in {"verify", "revocation"} /\ job[t].tok \in revoked

RevocationInv == TypeOK /\ RevokedStops /\ RevocationHolds

\* A step lets no revoked query pass.
LEMMA StepRevocation == RevocationInv /\ [Next]_vars => RevocationInv'
  <1> DEFINE Good == RevokedStops /\ RevocationHolds
  <1> SUFFICES ASSUME RevocationInv, [Next]_vars PROVE Good'
    BY StepTypes DEF RevocationInv
  <1> USE DEF RevocationInv, TypeOK, RevokedStops, RevocationHolds, NoJob
  <1>1. ASSUME NEW t \in Threads, NEW tok \in Tokens \cup {NoToken}, NEW u \in Users,
               NEW via \in Vias, Query(t, tok, u, via)
        PROVE  Good'
    <2>1. CASE MayProceed(tok, u)
      <3>1. pc' = [pc EXCEPT ![t] = "verify"] /\ UNCHANGED <<revoked, responses>>
        BY <1>1, <2>1 DEF Query, shared, ghosts
      <3>2. job'[t].tok = tok /\ job'[t].revoked = (tok \in revoked)
        BY <1>1, <2>1 DEF Query
      <3>3. \A s \in Threads \ {t} : job'[s] = job[s]
        BY <1>1, <2>1 DEF Query
      <3> QED
        BY <3>1, <3>2, <3>3
    <2>2. CASE ~MayProceed(tok, u)
      BY <1>1, <2>2 DEF Query, shared, ghosts
    <2> QED
      BY <2>1, <2>2
  <1>2. ASSUME NEW t \in Threads, Verify(t) PROVE Good'
    BY <1>2 DEF Verify, Leave, shared, ghosts, bounds
  <1>3. ASSUME NEW t \in Threads, CheckRevoked(t) PROVE Good'
    BY <1>3 DEF CheckRevoked, Leave, shared, ghosts, bounds
  <1>4. ASSUME NEW t \in Threads, TakeSlot(t) PROVE Good'
    BY <1>4 DEF TakeSlot, Leave, ghosts, bounds
  <1>5. ASSUME NEW t \in Threads, ReadRow(t) PROVE Good'
    BY <1>5 DEF ReadRow, Get, Leave, shared, ghosts, bounds
  <1>6. ASSUME NEW t \in Threads, Respond(t) PROVE Good'
    BY <1>6 DEF Respond, Leave, shared, bounds
  <1>7. ASSUME NEW tok \in Tokens, NEW u \in Users, Revoke(tok, u)
        PROVE  Good'
    BY <1>7, RevokeMarks DEF Revoke, Unchecked, ghosts, bounds
  <1>8. ASSUME NEW u \in Sharers, TakeFix(u)
        PROVE  Good'
    BY <1>8 DEF TakeFix, local, shared, bounds
  <1>9. ASSUME NEW u \in Sharers, NEW fix \in 1 .. fixes[u], Ingest(u, fix)
        PROVE  Good'
    BY <1>9 DEF Ingest, Update, local, ghosts, bounds
  <1>10. ASSUME NEW known \in Listings, SyncDirectory(known)
        PROVE  Good'
    BY <1>10 DEF SyncDirectory, local, ghosts, bounds
  <1>11. CASE Tick
    BY <1>11 DEF Tick, local, ghosts, bounds
  <1>12. CASE StepBack
    BY <1>12 DEF StepBack, local, ghosts
  <1>13. CASE Restart
    BY <1>13 DEF Restart, ghosts
  <1>14. CASE UNCHANGED vars
    BY <1>14 DEF vars
  <1> QED
    BY <1>1, <1>2, <1>3, <1>4, <1>5, <1>6, <1>7, <1>8, <1>9, <1>10, <1>11, <1>12, <1>13, <1>14
       DEF Next, HandleQuery

\* No response answers a query whose token was revoked before it came to the
\* check of the revocation set.
THEOREM RevokedQueriesGetNoAnswer == Spec => []RevocationHolds
  <1>1. Init => RevocationInv
    BY InitTypes DEF Init, RevocationInv, RevokedStops, RevocationHolds, NoJob
  <1> QED
    BY <1>1, StepRevocation, PTL DEF Spec, RevocationInv

-----------------------------------------------------------------------------

\* The thread holds a slot of the rate limit.
Holds(t) == pc[t] \in {"row", "respond"}

\* Two times differ by the interval, either way round.
Apart(a, b) == a - b >= MinInterval \/ b - a >= MinInterval

PairOfResponse(r) == <<r.to, Issuer[r.tok]>>

\* _last_query is the latest slot given out for a pair in this boot: no thread
\* and no response of the boot has a later time.
SlotsAreLatest ==
    /\ \A t \in Threads : Holds(t) => now[t] <= lastQuery[PairOf(job[t])]
    /\ \A r \in responses :
          /\ r.boot <= restarts
          /\ r.boot = restarts => r.now <= lastQuery[PairOfResponse(r)]

\* Slots are apart, whether their response is on its way or sent.
SlotsAreApart ==
    /\ \A s, t \in Threads :
          s # t /\ Holds(s) /\ Holds(t) /\ PairOf(job[s]) = PairOf(job[t])
          => Apart(now[s], now[t])
    /\ \A t \in Threads : \A r \in responses :
          Holds(t) /\ r.boot = restarts /\ PairOfResponse(r) = PairOf(job[t])
          => Apart(now[t], r.now)
    /\ \A r, s \in responses :
          r # s /\ r.boot = s.boot /\ PairOfResponse(r) = PairOfResponse(s)
          => Apart(r.now, s.now)

SpacingInv == TypeOK /\ SlotsAreLatest /\ SlotsAreApart

\* A step keeps the slots apart and the latest one in _last_query.
LEMMA StepSpacing == SpacingInv /\ [Next]_vars => SpacingInv'
  <1> DEFINE Good == SlotsAreLatest /\ SlotsAreApart
  <1> SUFFICES ASSUME SpacingInv, [Next]_vars PROVE Good'
    BY StepTypes DEF SpacingInv
  <1> USE TokenAssumption, TimeAssumption, BoundTypes
      DEF SpacingInv, TypeOK, SlotsAreLatest, SlotsAreApart, Holds, Apart
  <1>1. ASSUME NEW t \in Threads, NEW tok \in Tokens \cup {NoToken}, NEW u \in Users,
               NEW via \in Vias, Query(t, tok, u, via)
        PROVE  Good'
    BY <1>1 DEF Query, MayProceed, shared, ghosts
  <1>2. ASSUME NEW t \in Threads, Verify(t) PROVE Good'
    BY <1>2 DEF Verify, Leave, shared, ghosts, bounds
  <1>3. ASSUME NEW t \in Threads, CheckRevoked(t) PROVE Good'
    BY <1>3 DEF CheckRevoked, Leave, shared, ghosts, bounds
  <1>4. ASSUME NEW t \in Threads, TakeSlot(t) PROVE Good'
    <2>1. CASE now[t] - lastQuery[PairOf(job[t])] < MinInterval
      BY <1>4, <2>1 DEF TakeSlot, Leave, ghosts, bounds
    <2>2. CASE ~(now[t] - lastQuery[PairOf(job[t])] < MinInterval)
      <3> DEFINE pair == PairOf(job[t])
      <3>1. pair \in Pairs /\ now[t] \in Nat /\ lastQuery[pair] \in Nat
        BY <1>4 DEF TakeSlot, PairOf, Pairs, Jobs, Times
      <3>2. lastQuery[pair] + MinInterval <= now[t] /\ lastQuery[pair] <= now[t]
        BY <2>2, <3>1
      <3>3. /\ lastQuery' = [lastQuery EXCEPT ![pair] = now[t]]
            /\ pc' = [pc EXCEPT ![t] = "row"]
            /\ UNCHANGED <<job, now, responses, restarts>>
        BY <1>4, <2>2 DEF TakeSlot, ghosts, bounds
      <3>4. /\ \A s \in Threads : now[s] \in Nat
            /\ \A s \in Threads : pc[s] # "idle" => PairOf(job[s]) \in Pairs
            /\ \A r \in responses : r.now \in Nat /\ PairOfResponse(r) \in Pairs
        BY DEF Responses, Times, Jobs, PairOf, PairOfResponse, Pairs
      <3> HIDE DEF pair
      <3>5. \A s \in Threads \ {t} :
                Holds(s) /\ PairOf(job[s]) = pair => now[s] + MinInterval <= now[t]
        BY <3>1, <3>2, <3>4 DEF Times
      <3>6. \A r \in responses :
                r.boot = restarts /\ PairOfResponse(r) = pair => r.now + MinInterval <= now[t]
        BY <3>1, <3>2, <3>4
      <3>7. SlotsAreLatest'
        <4>1. ASSUME NEW s \in Threads, Holds(s)' PROVE (now[s] <= lastQuery[PairOf(job[s])])'
          <5>1. CASE PairOf(job[s]) = pair
            BY <3>1, <3>3, <3>4, <3>5, <4>1, <5>1
          <5>2. CASE PairOf(job[s]) # pair
            BY <3>1, <3>3, <3>4, <4>1, <5>2 DEF pair
          <5> QED
            BY <5>1, <5>2
        <4>2. ASSUME NEW r \in responses, r.boot = restarts
              PROVE  r.now <= lastQuery'[PairOfResponse(r)]
          BY <3>1, <3>3, <3>4, <3>6, <4>2
        <4> QED
          BY <3>3, <4>1, <4>2 DEF PairOfResponse
      <3>8. SlotsAreApart'
        <4>1. ASSUME NEW r \in Threads, NEW s \in Threads, r # s, Holds(r)', Holds(s)',
                     PairOf(job[r]) = PairOf(job[s])
              PROVE  Apart(now[r], now[s])
          BY <3>1, <3>3, <3>4, <3>5, <4>1 DEF pair
        <4>2. ASSUME NEW s \in Threads, NEW r \in responses, Holds(s)', r.boot = restarts,
                     PairOfResponse(r) = PairOf(job[s])
              PROVE  Apart(now[s], r.now)
          BY <3>1, <3>3, <3>4, <3>6, <4>2 DEF pair
        <4> QED
          BY <3>3, <4>1, <4>2 DEF PairOf, PairOfResponse
      <3> QED
        BY <3>7, <3>8
    <2> QED
      BY <2>1, <2>2
  <1>5. ASSUME NEW t \in Threads, ReadRow(t) PROVE Good'
    BY <1>5 DEF ReadRow, Get, Leave, shared, ghosts, bounds
  <1>6. ASSUME NEW t \in Threads, Respond(t) PROVE Good'
    <2> DEFINE new == [nr |-> job[t].nr, tok |-> job[t].tok, to |-> job[t].sender,
                       now |-> now[t], fix |-> row[t].fix, reached |-> SentTo(job[t]),
                       revoked |-> job[t].revoked, boot |-> restarts]
    <2>1. /\ responses' = responses \/ responses' = responses \cup {new}
          /\ UNCHANGED <<lastQuery, restarts>>
      BY <1>6 DEF Respond, shared, bounds
    <2>2. \A s \in Threads : Holds(s)' => s # t /\ Holds(s) /\ now'[s] = now[s] /\ job'[s] = job[s]
      BY <1>6 DEF Respond, Leave
    <2>3. Holds(t) /\ restarts \in Nat
      BY <1>6 DEF Respond
    <2>4. new.boot = restarts /\ new.now = now[t] /\ PairOfResponse(new) = PairOf(job[t])
      BY DEF PairOfResponse, PairOf
    <2> HIDE DEF new
    <2>5. SlotsAreLatest'
      <3>1. \A s \in Threads : Holds(s)' => (now[s] <= lastQuery[PairOf(job[s])])'
        BY <2>1, <2>2
      <3>2. new.boot <= restarts /\ new.now <= lastQuery[PairOfResponse(new)]
        BY <2>3, <2>4
      <3> QED
        BY <2>1, <3>1, <3>2 DEF PairOfResponse
    <2>6. SlotsAreApart'
      <3>1. ASSUME NEW s \in Threads, Holds(s)', PairOf(job[t]) = PairOf(job[s])
            PROVE  Apart(now[s], now[t])
        BY <2>2, <2>3, <3>1
      <3>2. ASSUME NEW r \in responses, r.boot = restarts, PairOfResponse(r) = PairOf(job[t])
            PROVE  Apart(now[t], r.now) /\ Apart(r.now, now[t])
        BY <2>3, <3>2
      <3> QED
        BY <2>1, <2>2, <2>4, <3>1, <3>2 DEF PairOf, PairOfResponse
    <2> QED
      BY <2>5, <2>6
  <1>7. ASSUME NEW tok \in Tokens, NEW u \in Users, Revoke(tok, u)
        PROVE  Good'
    BY <1>7, RevokeMarks DEF Revoke, PairOf, ghosts, bounds
  <1>8. ASSUME NEW u \in Sharers, TakeFix(u)
        PROVE  Good'
    BY <1>8 DEF TakeFix, local, shared, bounds
  <1>9. ASSUME NEW u \in Sharers, NEW fix \in 1 .. fixes[u], Ingest(u, fix)
        PROVE  Good'
    BY <1>9 DEF Ingest, Update, local, ghosts, bounds
  <1>10. ASSUME NEW known \in Listings, SyncDirectory(known)
        PROVE  Good'
    BY <1>10 DEF SyncDirectory, local, ghosts, bounds
  <1>11. CASE Tick
    BY <1>11 DEF Tick, local, ghosts, bounds
  <1>12. CASE StepBack
    BY <1>12 DEF StepBack, local, ghosts
  <1>13. CASE Restart
    <2>1. \A r \in responses : r.boot \in Nat /\ r.boot < restarts'
      BY <1>13 DEF Restart, Responses
    <2> QED
      BY <1>13, <2>1 DEF Restart, ghosts, PairOfResponse
  <1>14. CASE UNCHANGED vars
    BY <1>14 DEF vars
  <1> QED
    BY <1>1, <1>2, <1>3, <1>4, <1>5, <1>6, <1>7, <1>8, <1>9, <1>10, <1>11, <1>12, <1>13, <1>14
       DEF Next, HandleQuery

\* Responses of one boot to one requester about one person are spaced.
THEOREM RateLimitHolds == Spec => []ResponsesAreSpaced
  <1>1. Init => SpacingInv
    BY InitTypes DEF Init, SpacingInv, SlotsAreLatest, SlotsAreApart, Holds
  <1>2. SpacingInv => ResponsesAreSpaced
    BY TimeAssumption, BoundTypes
       DEF SpacingInv, SlotsAreApart, ResponsesAreSpaced, Apart, PairOfResponse,
           TypeOK, Responses, Times
  <1> QED
    BY <1>1, <1>2, StepSpacing, PTL DEF Spec
=============================================================================
