-------------------------- MODULE PhoneLinksProofs --------------------------
(***************************************************************************)
(* Proofs about PhoneLinks, for any phones and any life of a report.       *)
(***************************************************************************)
EXTENDS PhoneLinks, TLAPS

\* The accept loop has a connection in hand exactly between accept() and the
\* start of its reader, the main thread a phone exactly while it runs a hook.
HandsFit ==
    /\ accept = "accept" <=> taken = NoPhone
    /\ main = "hook" => hooked \in Ble

TypeInv == TypeOK /\ HandsFit

\* Initially the types hold.
LEMMA InitTypes == Init => TypeInv
  <1> SUFFICES ASSUME Init PROVE TypeInv
    OBVIOUS
  <1>1. NoReport \in 0 .. NoReport
    BY ReportTtlAssumption DEF NoReport
  <1>2. stopped \in BOOLEAN
    BY DEF Init
  <1> QED
    BY <1>1, <1>2 DEF Init, TypeInv, TypeOK, HandsFit

\* Every action, and so every step, preserves the types.
LEMMA StepTypes == TypeInv /\ [Next]_vars => TypeInv'
  <1> SUFFICES ASSUME TypeInv, [Next]_vars PROVE TypeInv'
    OBVIOUS
  <1> USE PhonesAssumption, ReportTtlAssumption DEF TypeInv, TypeOK, HandsFit, Phones
  <1>1. ASSUME NEW p \in Phones, Arrive(p) PROVE TypeInv'
    BY <1>1 DEF Arrive, wifiVars, bleVars, timerVars, pingVars
  <1>2. ASSUME NEW p \in Phones, NEW how \in {"left", "lost"}, Depart(p, how) PROVE TypeInv'
    BY <1>2 DEF Depart, Here, wifiVars, bleVars, timerVars, pingVars
  <1>3. ASSUME NEW p \in Wifi, Accept(p) PROVE TypeInv'
    BY <1>3 DEF Accept, bleVars, timerVars, pingVars
  <1>4. CASE ListConn
    BY <1>4 DEF ListConn, bleVars, timerVars, pingVars
  <1>5. CASE TrackConn
    BY <1>5 DEF TrackConn, Track, bleVars, pingVars
  <1>6. CASE ArmConn
    BY <1>6 DEF ArmConn, Arm, bleVars, pingVars
  <1>7. CASE Spawn
    BY <1>7 DEF Spawn, bleVars, timerVars, pingVars
  <1>8. ASSUME NEW p \in Wifi, ReadEnds(p) PROVE TypeInv'
    BY <1>8 DEF ReadEnds, bleVars, timerVars, pingVars
  <1>9. ASSUME NEW p \in Wifi, Leave(p) PROVE TypeInv'
    BY <1>9 DEF Leave, bleVars, timerVars, pingVars
  <1>10. ASSUME NEW p \in Ble, BleConnect(p) PROVE TypeInv'
    BY <1>10 DEF BleConnect, Track, wifiVars, timerVars, pingVars
  <1>11. CASE BleArm
    BY <1>11 DEF BleArm, Arm, wifiVars, bleVars, pingVars
  <1>12. ASSUME NEW p \in Ble, BleDisconnect(p) PROVE TypeInv'
    BY <1>12 DEF BleDisconnect, wifiVars, timerVars, pingVars
  <1>13. ASSUME NEW p \in Ble, BleWrite(p) PROVE TypeInv'
    BY <1>13 DEF BleWrite, wifiVars, timerVars, pingVars
  <1>14. ASSUME NEW p \in Phones, Fire(p) PROVE TypeInv'
    BY <1>14 DEF Fire, wifiVars, bleVars, pingVars
  <1>15. ASSUME NEW p \in Phones, ConnectPing(p) PROVE TypeInv'
    BY <1>15 DEF ConnectPing, Reaches, Probe, bleVars
  <1>16. CASE StartSweep
    BY <1>16 DEF StartSweep, wifiVars, bleVars, timerVars
  <1>17. ASSUME NEW p \in Phones, PingNext(p) PROVE TypeInv'
    BY <1>17 DEF PingNext, Reaches, Probe, bleVars, timerVars
  <1>18. CASE EndSweep
    BY <1>18 DEF EndSweep, wifiVars, bleVars, timerVars
  <1>19. ASSUME NEW p \in Phones, Answer(p) PROVE TypeInv'
    <2>1. age' \in [Phones -> 0 .. NoReport]
      <3>1. 0 \in 0 .. NoReport
        BY DEF NoReport
      <3> QED
        BY <1>19, <3>1 DEF Answer
    <2> QED
      BY <1>19, <2>1 DEF Answer, Written, wifiVars, timerVars
  <1>20. CASE Tick
    BY <1>20 DEF Tick, NoReport, wifiVars, bleVars, timerVars
  <1>21. CASE StopPings
    BY <1>21 DEF StopPings, wifiVars, bleVars, timerVars, pingVars
  <1>22. CASE CancelTimers
    BY <1>22 DEF CancelTimers, wifiVars, bleVars, pingVars
  <1>23. CASE StopWifi
    BY <1>23 DEF StopWifi, bleVars, timerVars, pingVars
  <1>24. ASSUME NEW p \in Ble, BleSubscribe(p) PROVE TypeInv'
    BY <1>24 DEF BleSubscribe, wifiVars, timerVars, pingVars
  <1>25. CASE UNCHANGED vars
    BY <1>25 DEF vars, wifiVars, bleVars, timerVars, pingVars
  <1> QED
    BY <1>1, <1>2, <1>3, <1>4, <1>5, <1>6, <1>7, <1>8, <1>9, <1>10, <1>11, <1>12, <1>13,
       <1>14, <1>15, <1>16, <1>17, <1>18, <1>19, <1>20, <1>21, <1>22, <1>23, <1>24,
       <1>25
       DEF Next

\* The links and the ping service always have their types.
THEOREM TypeCorrect == Spec => []TypeOK
  BY InitTypes, StepTypes, PTL DEF Spec, TypeInv

-----------------------------------------------------------------------------

\* A step leaves no listed peer without a reader or the accept loop.
LEMMA StepReaders == TypeInv /\ PeersHaveReaders /\ [Next]_vars => PeersHaveReaders'
  <1> SUFFICES ASSUME TypeInv, PeersHaveReaders, [Next]_vars PROVE PeersHaveReaders'
    OBVIOUS
  <1> USE PhonesAssumption DEF TypeInv, TypeOK, HandsFit, PeersHaveReaders, Phones
  <1>1. ASSUME NEW p \in Phones, Arrive(p) PROVE PeersHaveReaders'
    BY <1>1 DEF Arrive, wifiVars, bleVars, timerVars, pingVars
  <1>2. ASSUME NEW p \in Phones, NEW how \in {"left", "lost"}, Depart(p, how) PROVE PeersHaveReaders'
    BY <1>2 DEF Depart, Here, wifiVars, bleVars, timerVars, pingVars
  <1>3. ASSUME NEW p \in Wifi, Accept(p) PROVE PeersHaveReaders'
    BY <1>3 DEF Accept, bleVars, timerVars, pingVars
  <1>4. CASE ListConn
    BY <1>4 DEF ListConn, bleVars, timerVars, pingVars
  <1>5. CASE TrackConn
    BY <1>5 DEF TrackConn, Track, bleVars, pingVars
  <1>6. CASE ArmConn
    BY <1>6 DEF ArmConn, Arm, bleVars, pingVars
  <1>7. CASE Spawn
    BY <1>7 DEF Spawn, bleVars, timerVars, pingVars
  <1>8. ASSUME NEW p \in Wifi, ReadEnds(p) PROVE PeersHaveReaders'
    BY <1>8 DEF ReadEnds, bleVars, timerVars, pingVars
  <1>9. ASSUME NEW p \in Wifi, Leave(p) PROVE PeersHaveReaders'
    BY <1>9 DEF Leave, bleVars, timerVars, pingVars
  <1>10. ASSUME NEW p \in Ble, BleConnect(p) PROVE PeersHaveReaders'
    BY <1>10 DEF BleConnect, Track, wifiVars, timerVars, pingVars
  <1>11. CASE BleArm
    BY <1>11 DEF BleArm, Arm, wifiVars, bleVars, pingVars
  <1>12. ASSUME NEW p \in Ble, BleDisconnect(p) PROVE PeersHaveReaders'
    BY <1>12 DEF BleDisconnect, wifiVars, timerVars, pingVars
  <1>13. ASSUME NEW p \in Ble, BleWrite(p) PROVE PeersHaveReaders'
    BY <1>13 DEF BleWrite, wifiVars, timerVars, pingVars
  <1>14. ASSUME NEW p \in Phones, Fire(p) PROVE PeersHaveReaders'
    BY <1>14 DEF Fire, wifiVars, bleVars, pingVars
  <1>15. ASSUME NEW p \in Phones, ConnectPing(p) PROVE PeersHaveReaders'
    BY <1>15 DEF ConnectPing, Reaches, Probe, bleVars
  <1>16. CASE StartSweep
    BY <1>16 DEF StartSweep, wifiVars, bleVars, timerVars
  <1>17. ASSUME NEW p \in Phones, PingNext(p) PROVE PeersHaveReaders'
    BY <1>17 DEF PingNext, Reaches, Probe, bleVars, timerVars
  <1>18. CASE EndSweep
    BY <1>18 DEF EndSweep, wifiVars, bleVars, timerVars
  <1>19. ASSUME NEW p \in Phones, Answer(p) PROVE PeersHaveReaders'
    BY <1>19 DEF Answer, Written, wifiVars, timerVars
  <1>20. CASE Tick
    BY <1>20 DEF Tick, NoReport, wifiVars, bleVars, timerVars
  <1>21. CASE StopPings
    BY <1>21 DEF StopPings, wifiVars, bleVars, timerVars, pingVars
  <1>22. CASE CancelTimers
    BY <1>22 DEF CancelTimers, wifiVars, bleVars, pingVars
  <1>23. CASE StopWifi
    BY <1>23 DEF StopWifi, bleVars, timerVars, pingVars
  <1>24. ASSUME NEW p \in Ble, BleSubscribe(p) PROVE PeersHaveReaders'
    BY <1>24 DEF BleSubscribe, wifiVars, timerVars, pingVars
  <1>25. CASE UNCHANGED vars
    BY <1>25 DEF vars, wifiVars, bleVars, timerVars, pingVars
  <1> QED
    BY <1>1, <1>2, <1>3, <1>4, <1>5, <1>6, <1>7, <1>8, <1>9, <1>10, <1>11, <1>12, <1>13,
       <1>14, <1>15, <1>16, <1>17, <1>18, <1>19, <1>20, <1>21, <1>22, <1>23, <1>24,
       <1>25
       DEF Next

\* Every Wi-Fi peer the relay can send to is some thread's to take off the list.
THEOREM ListedPeersHaveReaders == Spec => []PeersHaveReaders
  <1>1. Init => PeersHaveReaders
    BY DEF Init, PeersHaveReaders
  <1> QED
    BY <1>1, InitTypes, StepTypes, StepReaders, PTL DEF Spec

=============================================================================
