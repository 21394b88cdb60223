----------------------------- MODULE KpiLogger ------------------------------
(***************************************************************************)
(* The KPI logger on top of the pool: CAMs are tagged and logged when they *)
(* leave a UE, they are received late, several times, out of order or not  *)
(* at all while the UEs change hands, and PRR and PIR are computed from a  *)
(* sliding window of logged transmissions and receptions.                  *)
(*                                                                         *)
(* Geometry is abstracted: who is inside the core region and in awareness  *)
(* range of a transmission is chosen nondeterministically per event.  The  *)
(* CA basic service and the radio are external: a disseminating UE may     *)
(* emit a CAM at any time, and a CAM once on the air may be delivered to   *)
(* any other running UE any number of times.                               *)
(***************************************************************************)
EXTENDS UePool, Integers, FiniteSetsExt, SequencesExt

CONSTANTS
  KpiWindow,     \* m_kpiWindowS in ticks
  SampleTime,    \* m_sampleTimeS in ticks
  EvalStart,     \* m_evalStartS
  EvalEnd,       \* m_evalEndS
  MaxTime,       \* bound: the clock stops here
  MaxCams        \* bound: CAMs tagged in total

ASSUME KpiAssumption == /\ KpiWindow \in Nat \ {0}
                        /\ SampleTime \in Nat \ {0}
                        /\ EvalStart \in Nat
                        /\ EvalEnd \in Nat
                        /\ MaxTime \in Nat
                        /\ MaxCams \in Nat

VARIABLES
  now,                 \* Simulator::Now()
  nextSample,          \* the pending SampleAndWrite event
  nextKpiSequence,     \* CamApplication::m_nextKpiSequence of each node
  air,                 \* CAMs sent so far: any of them may still arrive
  txEvents,            \* m_txEvents
  rxEvents,            \* m_rxEvents
  loggedRxTriples,     \* m_loggedRxTriples
  lastRxTimePerPair,   \* m_lastRxTimePerPair, -1 where the pair is absent
  latestSample         \* m_latestSample, as the counts it is computed from

VARIABLES              \* history, read by the properties only
  allTx,               \* every transmission ever logged
  allRx,               \* every reception ever logged, with the nodes involved
  served               \* vehicles that have been on the pool

logVars  == <<txEvents, rxEvents, loggedRxTriples, lastRxTimePerPair>>
histVars == <<allTx, allRx>>
kpiVars  == <<now, nextSample, nextKpiSequence, air, logVars, latestSample,
              histVars, served>>

NoPir == -1    \* quiet_NaN

-----------------------------------------------------------------------------
(* Sliding window *)

TxKey(e)  == <<e.tx, e.seq>>
Triple(e) == <<e.tx, e.rx, e.seq>>

MaxOf(S) == IF S = {} THEN {} ELSE {Max(S)}

(* while (!d.empty() && d.front().timeS < cutoff) d.pop_front(); *)
DropOld(d, cutoff) ==
  LET keep == {i \in DOMAIN d : d[i].time >= cutoff}
  IN  IF keep = {} THEN <<>> ELSE SubSeq(d, Min(keep), Len(d))

(* What erase(remove_if(...)) leaves: the entries with an index in K *)
Kept(d, K) ==
  [j \in 1..Cardinality(K) |->
     d[CHOOSE i \in K : Cardinality({k \in K : k <= i}) = j]]

(* Mutant: the duplicate filter forgets a triple as soon as it is pruned.  *)
Pruned_ForgetsTriples(tx, rx, triples) ==
  LET cutoff == now - KpiWindow
      tx1    == DropOld(tx, cutoff)
      keys   == {TxKey(tx1[i]) : i \in DOMAIN tx1}
      rx1    == DropOld(rx, cutoff)
  IN  [tx |-> tx1,
       rx |-> Kept(rx1, {i \in DOMAIN rx1 : TxKey(rx1[i]) \in keys}),
       triples |-> {}]

(* Mutant: the window is one tick short. *)
Pruned_ShortWindow(tx, rx, triples) ==
  LET cutoff == now - KpiWindow + 1
      tx1    == DropOld(tx, cutoff)
      keys   == {TxKey(tx1[i]) : i \in DOMAIN tx1}
      rx1    == DropOld(rx, cutoff)
      rx2    == Kept(rx1, {i \in DOMAIN rx1 : TxKey(rx1[i]) \in keys})
  IN  [tx |-> tx1,
       rx |-> rx2,
       triples |-> triples \cap {Triple(rx2[i]) : i \in DOMAIN rx2}]

(* PruneOldEvents: first by age, then the receptions whose transmission    *)
(* has left; the duplicate filter forgets the removed receptions.          *)
Pruned(tx, rx, triples) ==
  LET cutoff   == now - KpiWindow
      tx1      == DropOld(tx, cutoff)
      keys     == {TxKey(tx1[i]) : i \in DOMAIN tx1}
      rx1      == DropOld(rx, cutoff)
      orphans  == {i \in DOMAIN rx1 : TxKey(rx1[i]) \notin keys}
      dropped  == 1..(Len(rx) - Len(rx1))
  IN  [tx |-> tx1,
       rx |-> Kept(rx1, DOMAIN rx1 \ orphans),
       triples |-> triples \ ({Triple(rx[i]) : i \in dropped}
                              \cup {Triple(rx1[i]) : i \in orphans})]

PruneOldEvents(tx, rx, triples) ==
  LET p == Pruned(tx, rx, triples)
  IN  /\ txEvents' = p.tx
      /\ rxEvents' = p.rx
      /\ loggedRxTriples' = p.triples

IsInsideEvaluationWindow(t) == t >= EvalStart /\ t <= EvalEnd

-----------------------------------------------------------------------------
KpiInit ==
  /\ Init
  /\ now = 0
  /\ nextSample = SampleTime
  /\ nextKpiSequence = [n \in Nodes |-> 0]
  /\ air = {}
  /\ txEvents = <<>>
  /\ rxEvents = <<>>
  /\ loggedRxTriples = {}
  /\ lastRxTimePerPair = [p \in Vehicles \X Vehicles |-> -1]
  /\ latestSample = [time |-> 0, tx |-> 0, denom |-> 0, numer |-> 0]
  /\ allTx = {}
  /\ allRx = {}
  /\ served = {}

-----------------------------------------------------------------------------
(* Transmission *)

(* The vehicles that LogTx may find in awareness range: active, on another *)
(* node and not the transmitter itself.                                    *)
Candidates(txVehicle, txNode) ==
  {ResolveVehicleIdForNode(n) : n \in {m \in Nodes \ {txNode} : IsNodeActive(m)}}
    \ {txVehicle}

(* LogTx, with the eligible receivers it finds and whether the transmitter *)
(* is inside the core.                                                     *)
LogTx(txVehicle, txNode, seq, eligible, inCore) ==
  IF /\ IsNodeActive(txNode)
     /\ IsNodeAssignedToVehicle(txNode, txVehicle)
     /\ IsInsideEvaluationWindow(now)
     /\ inCore
  THEN LET ev == [time |-> now, tx |-> txVehicle, seq |-> seq,
                  eligible |-> eligible]
       IN  /\ PruneOldEvents(Append(txEvents, ev), rxEvents, loggedRxTriples)
           /\ allTx' = allTx \cup {[ev |-> ev, where |-> vehicleIdToNodeId]}
  ELSE UNCHANGED <<txEvents, rxEvents, loggedRxTriples, allTx>>

(* CamApplication::TagAndLogTx, called back by the CA basic service while  *)
(* it disseminates; the CAM header carries the service's station id.       *)
TagAndLogTx(n) ==
  /\ status = "ok"
  /\ disseminating[n]
  /\ appState[n] = "running"
  /\ assignedVehicleId[n] # NoVehicle
  /\ Cardinality(air) < MaxCams
  /\ LET v   == assignedVehicleId[n]
         seq == nextKpiSequence[n]
     IN  /\ nextKpiSequence' = [nextKpiSequence EXCEPT ![n] = seq + 1]
         /\ air' = air \cup {[node |-> n, station |-> stationId[n],
                              tx |-> v, seq |-> seq, sent |-> now]}
         /\ \E eligible \in SUBSET Candidates(v, n), inCore \in BOOLEAN :
              LogTx(v, n, seq, eligible, inCore)
  /\ UNCHANGED <<vars, now, nextSample, lastRxTimePerPair, latestSample,
                 allRx, served>>

-----------------------------------------------------------------------------
(* Reception *)

(* FindTxEvent: the newest logged transmission with this key *)
FindTxEvent(txVehicle, seq) ==
  {txEvents[i] : i \in MaxOf({i \in DOMAIN txEvents :
                                TxKey(txEvents[i]) = <<txVehicle, seq>>})}

(* Mutant: any copy of a known transmission counts. *)
RxCounts_Duplicates(txVehicle, rxVehicle, seq, inCore) ==
  /\ IsInsideEvaluationWindow(now)
  /\ inCore
  /\ \E e \in FindTxEvent(txVehicle, seq) : rxVehicle \in e.eligible

(* Mutant: the receiver need not have been eligible at transmission. *)
RxCounts_AnyReceiver(txVehicle, rxVehicle, seq, inCore) ==
  /\ IsInsideEvaluationWindow(now)
  /\ inCore
  /\ FindTxEvent(txVehicle, seq) # {}
  /\ <<txVehicle, rxVehicle, seq>> \notin loggedRxTriples

(* The early returns of LogRx: both vehicles are still on the pool, the    *)
(* transmission is in the window, the receiver was eligible when it was    *)
(* sent, and this is the first copy.                                       *)
RxCounts(txVehicle, rxVehicle, seq, inCore) ==
  /\ IsInsideEvaluationWindow(now)
  /\ \A v \in {txVehicle, rxVehicle} :
       /\ ResolveNodeIdForVehicle(v) # NoNode
       /\ IsNodeAssignedToVehicle(ResolveNodeIdForVehicle(v), v)
  /\ inCore
  /\ \E e \in FindTxEvent(txVehicle, seq) : rxVehicle \in e.eligible
  /\ <<txVehicle, rxVehicle, seq>> \notin loggedRxTriples

(* Mutant: one clock per transmitter instead of one per pair. *)
RecordRx_PerTransmitter(txVehicle, rxVehicle, seq, rxNode) ==
  LET pair == <<txVehicle, txVehicle>>
      last == lastRxTimePerPair[pair]
      ev   == [time |-> now, tx |-> txVehicle, rx |-> rxVehicle, seq |-> seq,
               pir |-> IF last = -1 THEN NoPir ELSE now - last]
  IN  /\ PruneOldEvents(txEvents, Append(rxEvents, ev),
                        loggedRxTriples \cup {Triple(ev)})
      /\ lastRxTimePerPair' = [lastRxTimePerPair EXCEPT ![pair] = now]
      /\ allRx' = allRx \cup {[ev |-> ev, node |-> rxNode]}

(* What LogRx records; m_lastRxTimePerPair is never pruned. *)
RecordRx(txVehicle, rxVehicle, seq, rxNode) ==
  LET pair == <<txVehicle, rxVehicle>>
      last == lastRxTimePerPair[pair]
      ev   == [time |-> now, tx |-> txVehicle, rx |-> rxVehicle, seq |-> seq,
               pir |-> IF last = -1 THEN NoPir ELSE now - last]
  IN  /\ PruneOldEvents(txEvents, Append(rxEvents, ev),
                        loggedRxTriples \cup {Triple(ev)})
      /\ lastRxTimePerPair' = [lastRxTimePerPair EXCEPT ![pair] = now]
      /\ allRx' = allRx \cup {[ev |-> ev, node |-> rxNode]}

LogRx(txVehicle, rxVehicle, seq, rxNode, inCore) ==
  IF RxCounts(txVehicle, rxVehicle, seq, inCore)
  THEN RecordRx(txVehicle, rxVehicle, seq, rxNode)
  ELSE UNCHANGED <<logVars, allRx>>

(* CamApplication::ReceiveCam on node n for CAM p; the source address is   *)
(* that of the sending node, the tag and the header travel with the CAM.   *)
ReceiveCam(n, p) ==
  /\ status = "ok"
  /\ appState[n] = "running"
  /\ n # p.node
  /\ assignedVehicleId[n] # NoVehicle
  /\ p.station = p.tx
  /\ IsNodeAssignedToVehicle(p.node, p.tx)
  /\ \E inCore \in BOOLEAN :
       LogRx(p.tx, assignedVehicleId[n], p.seq, n, inCore)
  /\ UNCHANGED <<vars, now, nextSample, nextKpiSequence, air, latestSample,
                 allTx, served>>

-----------------------------------------------------------------------------
(* Sampling and the clock *)

SampleAndWrite ==
  /\ status = "ok"
  /\ now = nextSample
  /\ LET p     == Pruned(txEvents, rxEvents, loggedRxTriples)
         keys  == {TxKey(p.tx[i]) : i \in DOMAIN p.tx}
         heard == {Triple(p.rx[i]) :
                     i \in {j \in DOMAIN p.rx : TxKey(p.rx[j]) \in keys}}
     IN  latestSample' =
           [time  |-> now,
            tx    |-> Len(p.tx),
            denom |-> MapThenSumSet(LAMBDA i : Cardinality(p.tx[i].eligible),
                                    DOMAIN p.tx),
            numer |-> Cardinality(heard)]
  /\ PruneOldEvents(txEvents, rxEvents, loggedRxTriples)
  /\ nextSample' = now + SampleTime
  /\ UNCHANGED <<vars, now, nextKpiSequence, air, lastRxTimePerPair, histVars,
                 served>>

(* Time passes; the simulator never skips a pending sample. *)
Tick ==
  /\ status = "ok"
  /\ now < nextSample
  /\ now < MaxTime
  /\ now' = now + 1
  /\ UNCHANGED <<vars, nextSample, nextKpiSequence, air, logVars, latestSample,
                 histVars, served>>

(* Mutant: a vehicle may return to the pool, on another node. *)
PoolStep_Reassigns ==
  /\ \/ \E v \in Vehicles : AssignVehicleToPool(v)
     \/ \E v \in Vehicles : appsCreated /\ ReleaseVehicleFromPool(v)
     \/ CreateApplications
     \/ \E n \in Nodes : StartApplication(n)
  /\ UNCHANGED kpiVars

(* The pool changes hands.  Each vehicle has one track, so it is assigned  *)
(* at most once (PoolSchedule).                                            *)
PoolStep ==
  /\ \/ \E v \in Vehicles \ served :
          /\ AssignVehicleToPool(v)
          /\ served' = served \cup {v}
     \/ /\ \/ \E v \in Vehicles : appsCreated /\ ReleaseVehicleFromPool(v)
           \/ CreateApplications
           \/ \E n \in Nodes : StartApplication(n)
        /\ UNCHANGED served
  /\ UNCHANGED <<now, nextSample, nextKpiSequence, air, logVars, latestSample,
                 histVars>>

KpiNext ==
  \/ PoolStep
  \/ Tick
  \/ SampleAndWrite
  \/ \E n \in Nodes : TagAndLogTx(n) \/ \E p \in air : ReceiveCam(n, p)

KpiSpec == KpiInit /\ [][KpiNext]_<<vars, kpiVars>>

-----------------------------------------------------------------------------
(* Properties *)

(* (vehicle, sequence) identifies a transmission although the sequence     *)
(* counter belongs to the node and survives a change of vehicle.           *)
TxKeysUnique ==
  \A i, j \in DOMAIN txEvents : TxKey(txEvents[i]) = TxKey(txEvents[j]) => i = j

(* The duplicate filter holds exactly the receptions in the window: it     *)
(* neither grows without bound nor forgets one that still counts.          *)
FilterExact ==
  /\ loggedRxTriples = {Triple(rxEvents[i]) : i \in DOMAIN rxEvents}
  /\ Cardinality(loggedRxTriples) = Len(rxEvents)

(* No reception is ever counted twice, not even when its triple has left   *)
(* the filter and another copy of the CAM arrives afterwards.              *)
CountedOnce ==
  \A r, s \in allRx : Triple(r.ev) = Triple(s.ev) => r = s

(* A reception is credited to a vehicle that the transmission counted as   *)
(* an opportunity and that still sits on the node it sat on then, although *)
(* ReceiveCam reads the vehicle of the node at reception time.             *)
CreditedToListener ==
  \A r \in allRx : \E t \in allTx :
    /\ TxKey(t.ev) = TxKey(r.ev)
    /\ t.ev.time <= r.ev.time
    /\ r.ev.rx \in t.ev.eligible
    /\ t.where[r.ev.rx] = r.node

(* A PIR value is the distance to the previous counted reception of the    *)
(* same pair, whatever the order in which the CAMs arrive.                 *)
PirExact ==
  \A r \in allRx :
    LET others == {s.ev.time : s \in {q \in allRx \ {r} : /\ q.ev.tx = r.ev.tx
                                                        /\ q.ev.rx = r.ev.rx}}
        t == r.ev.time
    IN  IF r.ev.pir = NoPir
        THEN \A u \in others : u >= t
        ELSE /\ t - r.ev.pir \in others
             /\ \A u \in others : ~(t - r.ev.pir < u /\ u < t)

(* A sample counts exactly the logged transmissions of the last KpiWindow  *)
(* ticks and their receptions: nothing is lost or kept by the incremental  *)
(* pruning.                                                                *)
SampleExact ==
  [][nextSample' # nextSample =>
       LET window == {t \in allTx : t.ev.time >= now - KpiWindow}
           keys   == {TxKey(t.ev) : t \in window}
       IN  /\ latestSample'.tx = Cardinality(window)
           /\ latestSample'.denom =
                MapThenSumSet(LAMBDA t : Cardinality(t.ev.eligible), window)
           /\ latestSample'.numer =
                Cardinality({r \in allRx : TxKey(r.ev) \in keys})
    ]_<<vars, kpiVars>>
=============================================================================
