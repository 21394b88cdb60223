------------------------- MODULE PoolScheduleProofs -------------------------
(***************************************************************************)
(* Proofs about PoolSchedule for every number of vehicles and nodes, every *)
(* simulated time and every mobility file without gaps: the check of the   *)
(* pool size at start-up is enough, the pool follows the tracks, and every *)
(* vehicle on the pool is on the air.                                      *)
(*                                                                         *)
(* The inductive invariant says exactly which vehicles are on the pool:    *)
(* those whose assignment has run and whose release has not.  With the     *)
(* order of the event queue it follows that all of them, and the vehicle   *)
(* that arrives, have a row at the instant of an arrival, so that they are *)
(* among the vehicles the peak was computed from.                          *)
(***************************************************************************)
EXTENDS PoolSchedule, UePoolProofs

(* Mobility files as preprocess_ngsim.py writes them *)
CleanData == ~AllowGaps /\ MinRows >= 2

(* The assignment of the vehicle has run, or it was there at time 0. *)
Started(v) == \/ FirstRow(v) <= Eps
              \/ FirstRow(v) <= SimTime /\ AssignEvent(v) \notin pending

(* A release was scheduled for the vehicle and has run. *)
Ended(v) == /\ LastRow(v) + Eps > Eps
            /\ LastRow(v) + Eps <= SimTime
            /\ ReleaseEvent(v) \notin pending

Scheduled == AssignEvents \cup ReleaseEvents \cup StartEvents

SetupInv ==
  /\ rows \in [Vehicles -> Tracks]
  /\ phase \in {"check", "rejected", "initial", "running", "finished"}
  /\ toAssign \subseteq Vehicles
  /\ now \in 0..SimTime
  /\ phase \in {"check", "rejected"} =>
       toAssign = Vehicles /\ activeVehicleIds = {}
  /\ phase \in {"check", "rejected", "initial"} =>
       ~appsCreated /\ pending = {} /\ now = 0
  /\ phase \notin {"check", "rejected"} => PeakActive <= Cardinality(Nodes)
  /\ phase = "initial" =>
       activeVehicleIds = {v \in Vehicles \ toAssign : FirstRow(v) <= Eps}

QueueInv ==
  phase \in {"running", "finished"} =>
    /\ appsCreated
    /\ pending \subseteq Scheduled
    /\ \A e \in pending : now <= e.time
    /\ \A e \in Scheduled \ pending : e.time <= now
    /\ activeVehicleIds = {v \in Vehicles : Started(v) /\ ~Ended(v)}
    /\ \A n \in Nodes : \/ appState[n] = "running"
                        \/ \E e \in pending : e.op = "start" /\ e.arg = n

SchedInv == PoolInv /\ NoRuntimeAbort /\ SetupInv /\ QueueInv

-----------------------------------------------------------------------------
(* Arithmetic *)

LEMMA MinOfNats ==
  ASSUME NEW S \in SUBSET Nat, S # {}
  PROVE  Min(S) \in S /\ \A x \in S : Min(S) <= x
<1>1. PICK m \in S : \A y \in S : ~(<<y, m>> \in OpToRel(<, Nat))
  BY NatLessThanWellFounded, WFMin
<1>2. ASSUME NEW y \in S PROVE m <= y
  <2>1. <<y, m>> \in Nat \X Nat /\ <<y, m>>[1] = y /\ <<y, m>>[2] = m
    OBVIOUS
  <2>2. ~(y < m)
    BY <1>1, <2>1, Zenon DEF OpToRel
  <2>. QED
    BY <2>2
<1>. QED
  BY <1>2 DEF Min

LEMMA MaxOfNats ==
  ASSUME NEW S \in SUBSET Nat, S # {}, NEW b \in Nat, \A x \in S : x <= b
  PROVE  Max(S) \in S /\ \A x \in S : x <= Max(S)
<1> DEFINE D == {b - x : x \in S}
<1>1. D \in SUBSET Nat /\ D # {}
  <2>1. ASSUME NEW x \in S PROVE b - x \in Nat
    <3>1. x \in Nat /\ x <= b
      OBVIOUS
    <3>. QED
      BY <3>1
  <2>2. D \subseteq Nat
    BY <2>1
  <2>3. PICK x \in S : TRUE
    OBVIOUS
  <2>4. b - x \in D
    BY <2>3
  <2>. QED
    BY <2>2, <2>4
<1>2. Min(D) \in D /\ \A d \in D : Min(D) <= d
  BY <1>1, MinOfNats
<1>3. PICK m \in S : Min(D) = b - m
  BY <1>2
<1>4. ASSUME NEW x \in S PROVE x <= m
  <2>1. b - x \in D
    OBVIOUS
  <2>2. b - m <= b - x
    BY <1>2, <1>3, <2>1
  <2>. QED
    BY <2>2
<1>. QED
  BY <1>4 DEF Max

(* Rows lie on even ticks, so releases never coincide with rows. *)
LEMMA RowTimesEven ==
  ASSUME NEW t \in RowTimes
  PROVE  t \in Nat /\ t <= 2 * SimTime /\ \E k \in Nat : t = 2 * k
  BY ScheduleAssumption

(* First and last row of a track *)
LEMMA TrackFacts ==
  ASSUME rows \in [Vehicles -> Tracks], NEW v \in Vehicles
  PROVE  /\ FirstRow(v) \in rows[v] /\ LastRow(v) \in rows[v]
         /\ rows[v] \subseteq RowTimes
         /\ FirstRow(v) \in Nat /\ LastRow(v) \in Nat
         /\ FirstRow(v) <= LastRow(v)
         /\ \E k \in Nat : FirstRow(v) = 2 * k
         /\ \E k \in Nat : LastRow(v) = 2 * k
<1>1. rows[v] \subseteq RowTimes /\ Cardinality(rows[v]) >= MinRows
  BY DEF Tracks
<1>2. rows[v] # {}
  BY <1>1, FS_EmptySet, ScheduleAssumption
<1>3. rows[v] \in SUBSET Nat /\ \A t \in rows[v] : t <= 2 * SimTime
  BY <1>1, RowTimesEven
<1>4. 2 * SimTime \in Nat
  BY ScheduleAssumption
<1>5. FirstRow(v) \in rows[v] /\ \A x \in rows[v] : FirstRow(v) <= x
  BY <1>2, <1>3, MinOfNats DEF FirstRow
<1>6. LastRow(v) \in rows[v] /\ \A x \in rows[v] : x <= LastRow(v)
  BY <1>2, <1>3, <1>4, MaxOfNats DEF LastRow
<1>. QED
  BY <1>1, <1>3, <1>5, <1>6, RowTimesEven

(* A contiguous track has a row at each row time that it spans. *)
LEMMA TrackCovers ==
  ASSUME rows \in [Vehicles -> Tracks], ~AllowGaps, NEW v \in Vehicles,
         NEW t \in RowTimes, FirstRow(v) <= t, t <= LastRow(v)
  PROVE  t \in rows[v]
<1>1. Contiguous(rows[v])
  BY DEF Tracks
<1>. QED
  BY <1>1 DEF Contiguous, FirstRow, LastRow

(* A track of at least two rows does not end at time 0. *)
LEMMA TrackEndsLate ==
  ASSUME rows \in [Vehicles -> Tracks], MinRows >= 2, NEW v \in Vehicles
  PROVE  LastRow(v) > 0
<1> SUFFICES ASSUME LastRow(v) <= 0 PROVE FALSE
  BY TrackFacts
<1>1. rows[v] \subseteq RowTimes /\ Cardinality(rows[v]) >= MinRows
  BY DEF Tracks
<1>2. rows[v] \in SUBSET Nat /\ rows[v] # {} /\ \A t \in rows[v] : t <= 2 * SimTime
  BY <1>1, RowTimesEven, TrackFacts
<1>3. \A x \in rows[v] : x <= LastRow(v)
  <2>1. 2 * SimTime \in Nat
    BY ScheduleAssumption
  <2>. QED
    BY <1>2, <2>1, MaxOfNats DEF LastRow
<1>4. rows[v] = {0}
  BY <1>2, <1>3, TrackFacts
<1>5. Cardinality(rows[v]) = 1
  BY <1>4, FS_Singleton
<1>. QED
  BY <1>1, <1>5, ScheduleAssumption

(* The peak bounds the number of vehicles with a row at any one time. *)
LEMMA PeakBounds ==
  /\ PeakActive \in Nat
  /\ \A t \in RowTimes : Cardinality({v \in Vehicles : t \in rows[v]}) <= PeakActive
<1> DEFINE at(u) == {v \in Vehicles : u \in rows[v]}
           C == {0} \cup {Cardinality(at(u)) : u \in RowTimes}
<1>1. \A u \in RowTimes : Cardinality(at(u)) \in Nat
                          /\ Cardinality(at(u)) <= Cardinality(Vehicles)
  BY ScheduleAssumption, FS_Subset, FS_CardinalityType
<1>2. Cardinality(Vehicles) \in Nat
  BY ScheduleAssumption, FS_CardinalityType
<1>3. C \in SUBSET Nat /\ C # {} /\ \A x \in C : x <= Cardinality(Vehicles)
  <2> HIDE DEF at
  <2>1. ASSUME NEW x \in C PROVE x \in Nat /\ x <= Cardinality(Vehicles)
    BY <1>1, <1>2
  <2>. QED
    BY <2>1
<1>4. Max(C) \in C /\ \A x \in C : x <= Max(C)
  BY <1>2, <1>3, MaxOfNats
<1>. QED
  BY <1>3, <1>4 DEF PeakActive

-----------------------------------------------------------------------------
(* Capacity: if the vehicles on the pool and the one that arrives all have *)
(* a row at the same time, a pool that holds the peak has a free node.     *)
LEMMA FreeNodeForArrival ==
  ASSUME PoolInv, PeakActive <= Cardinality(Nodes),
         NEW v \in Vehicles, v \notin activeVehicleIds,
         NEW t \in RowTimes, \A w \in activeVehicleIds \cup {v} : t \in rows[w]
  PROVE  freePoolNodeIds # <<>>
<1> SUFFICES ASSUME freePoolNodeIds = <<>> PROVE FALSE
  OBVIOUS
<1> USE PoolAssumption, ScheduleAssumption
<1> DEFINE at == {w \in Vehicles : t \in rows[w]}
<1>1. IsFiniteSet(activeVehicleIds)
  BY FS_Subset DEF PoolInv, TypeOK
<1>2. \A n \in Nodes : nodeIdToVehicleId[n] \in activeVehicleIds
  <2>1. \A n \in Nodes : nodeIdToVehicleId[n] # NoVehicle
    BY DEF PoolInv, FreeListExact
  <2>2. ASSUME NEW n \in Nodes PROVE nodeIdToVehicleId[n] \in activeVehicleIds
    <3>1. nodeIdToVehicleId[n] \in Vehicles
      BY <2>1 DEF PoolInv, TypeOK
    <3>2. vehicleIdToNodeId[nodeIdToVehicleId[n]] = n
      BY <3>1 DEF PoolInv, MappingsInverse
    <3>. QED
      BY <3>1, <3>2 DEF PoolInv, MappingsInverse
  <2>. QED
    BY <2>2
<1>3. nodeIdToVehicleId \in Injection(Nodes, activeVehicleIds)
  <2>1. nodeIdToVehicleId \in [Nodes -> activeVehicleIds]
    BY <1>2 DEF PoolInv, TypeOK
  <2>2. \A n \in Nodes : vehicleIdToNodeId[nodeIdToVehicleId[n]] = n
    BY <1>2 DEF PoolInv, TypeOK, MappingsInverse
  <2>3. \A m, n \in Nodes : nodeIdToVehicleId[m] = nodeIdToVehicleId[n] => m = n
    BY <2>2
  <2>. QED
    BY <2>1, <2>3 DEF Injection, IsInjective
<1>4. Cardinality(Nodes) <= Cardinality(activeVehicleIds)
  BY <1>1, <1>3, FS_Injection
<1>5. Cardinality(activeVehicleIds \cup {v}) = Cardinality(activeVehicleIds) + 1
  BY <1>1, FS_AddElement
<1>6. activeVehicleIds \cup {v} \in SUBSET at
  BY DEF PoolInv, TypeOK
<1>7. IsFiniteSet(at)
  BY FS_Subset
<1>8. Cardinality(activeVehicleIds \cup {v}) <= Cardinality(at)
  BY <1>6, <1>7, FS_Subset
<1>9. Cardinality(at) <= PeakActive
  BY PeakBounds
<1>10. /\ Cardinality(at) \in Nat /\ Cardinality(activeVehicleIds) \in Nat
       /\ Cardinality(Nodes) \in Nat
  BY <1>1, <1>7, FS_CardinalityType
<1>11. PeakActive \in Nat
  BY PeakBounds
<1>. QED
  BY <1>4, <1>5, <1>8, <1>9, <1>10, <1>11

(* An assignment that finds a free node and an unassigned vehicle does not *)
(* abort, and puts exactly that vehicle on the pool.                       *)
LEMMA AssignAddsVehicle ==
  ASSUME PoolInv, status = "ok", NEW v \in Vehicles, v \notin activeVehicleIds,
         freePoolNodeIds # <<>>, AssignVehicleToPool(v)
  PROVE  /\ activeVehicleIds' = activeVehicleIds \cup {v}
         /\ status' = "ok"
         /\ UNCHANGED <<appsCreated, appState>>
<1>1. vehicleIdToNodeId[v] = NoNode
  BY DEF PoolInv, MappingsInverse
<1>2. AssignToFrontNode(v)
  BY <1>1 DEF AssignVehicleToPool
<1>. QED
  BY <1>2 DEF AssignToFrontNode

(* A release takes exactly its vehicle off the pool. *)
LEMMA ReleaseRemovesVehicle ==
  ASSUME PoolInv, status = "ok", NEW v \in Vehicles, ReleaseVehicleFromPool(v)
  PROVE  /\ activeVehicleIds' = activeVehicleIds \ {v}
         /\ status' = "ok"
         /\ UNCHANGED <<appsCreated, appState>>
<1>1. CASE vehicleIdToNodeId[v] = NoNode
  <2>1. v \notin activeVehicleIds
    BY <1>1 DEF PoolInv, MappingsInverse
  <2>2. UNCHANGED vars
    BY <1>1 DEF ReleaseVehicleFromPool
  <2>. QED
    BY <2>1, <2>2 DEF vars, poolVars, appVars
<1>2. CASE vehicleIdToNodeId[v] # NoNode
  <2>1. ReturnNode(v)
    BY <1>2 DEF ReleaseVehicleFromPool
  <2>. QED
    BY <2>1 DEF ReturnNode
<1>. QED
  BY <1>1, <1>2

-----------------------------------------------------------------------------
(* Events *)

LEMMA PoolEventShape ==
  ASSUME NEW v \in Vehicles
  PROVE  /\ AssignEvent(v).time = FirstRow(v) /\ AssignEvent(v).op = "assign"
         /\ AssignEvent(v).arg = v
         /\ ReleaseEvent(v).time = LastRow(v) + Eps
         /\ ReleaseEvent(v).op = "release" /\ ReleaseEvent(v).arg = v
  BY DEF AssignEvent, ReleaseEvent, Event

(* Every node has its start event, and nothing else is started. *)
LEMMA StartEventShape ==
  /\ \A e \in StartEvents : e.op = "start" /\ e.arg \in Nodes /\ e.time = AppStart
  /\ \A n \in Nodes : \E e \in StartEvents : e.op = "start" /\ e.arg = n
<1> DEFINE order == SetToSeq(Nodes)
           k == Cardinality(Nodes)
<1>1. k \in Nat /\ ExistsBijection(1..k, Nodes)
  BY PoolAssumption, FS_CardinalityType
<1>2. \E f \in [1..k -> Nodes] : IsInjective(f)
  BY <1>1 DEF ExistsBijection, Bijection, Injection
<1>3. order \in [1..k -> Nodes] /\ IsInjective(order)
  BY <1>2 DEF SetToSeq
<1>4. order \in Surjection(1..k, Nodes)
  <2>1. Cardinality(1..k) = k
    BY <1>1, FS_Interval
  <2>2. order \in Injection(1..k, Nodes)
    BY <1>3 DEF Injection
  <2>. QED
    BY <2>1, <2>2, PoolAssumption, FS_Injection
<1>5. Len(order) = k
  BY <1>1, <1>3
<1>6. \A n \in Nodes : \E i \in 1..k : order[i] = n
  BY <1>4 DEF Surjection
<1>7. StartEvents = {Event(AppStart, LastUid + 1 + i, "start", order[i]) : i \in 1..k}
  BY <1>5 DEF StartEvents
<1> HIDE DEF order, k
<1>8. \A i \in 1..k : order[i] \in Nodes
  BY <1>3
<1>9. ASSUME NEW e \in StartEvents
      PROVE  e.op = "start" /\ e.arg \in Nodes /\ e.time = AppStart
  <2>1. PICK i \in 1..k : e = Event(AppStart, LastUid + 1 + i, "start", order[i])
    BY <1>7
  <2>. QED
    BY <1>8, <2>1 DEF Event
<1>10. ASSUME NEW n \in Nodes
       PROVE  \E e \in StartEvents : e.op = "start" /\ e.arg = n
  <2>1. PICK i \in 1..k : order[i] = n
    BY <1>6
  <2>2. Event(AppStart, LastUid + 1 + i, "start", order[i]) \in StartEvents
    BY <1>7
  <2>. QED
    BY <2>1, <2>2 DEF Event
<1>. QED
  BY <1>9, <1>10

(* What was scheduled depends on the mobility file only. *)
LEMMA ScheduleFixed ==
  ASSUME rows' = rows
  PROVE  /\ PeakActive' = PeakActive
         /\ Scheduled' = Scheduled
         /\ \A v \in Vehicles : /\ FirstRow(v)' = FirstRow(v)
                                /\ LastRow(v)' = LastRow(v)
                                /\ AssignEvent(v)' = AssignEvent(v)
                                /\ ReleaseEvent(v)' = ReleaseEvent(v)
  BY DEF PeakActive, Scheduled, AssignEvents, ReleaseEvents, StartEvents,
         FirstRow, LastRow, AssignEvent, ReleaseEvent

(* An event of the queue is an assignment, a release or a start, and the   *)
(* time of its vehicle's track.                                            *)
LEMMA QueueElement ==
  ASSUME NEW e \in Scheduled
  PROVE  \/ \E v \in Vehicles : /\ e = AssignEvent(v) /\ e.op = "assign" /\ e.arg = v
                                /\ FirstRow(v) > Eps /\ FirstRow(v) <= SimTime
         \/ \E v \in Vehicles : /\ e = ReleaseEvent(v) /\ e.op = "release" /\ e.arg = v
                                /\ LastRow(v) + Eps > Eps /\ LastRow(v) + Eps <= SimTime
         \/ e \in StartEvents /\ e.op = "start" /\ e.arg \in Nodes
<1>1. CASE e \in AssignEvents
  BY <1>1, PoolEventShape DEF AssignEvents
<1>2. CASE e \in ReleaseEvents
  BY <1>2, PoolEventShape DEF ReleaseEvents
<1>3. CASE e \in StartEvents
  BY <1>3, StartEventShape
<1>. QED
  BY <1>1, <1>2, <1>3 DEF Scheduled

-----------------------------------------------------------------------------
(* Every step of the scheduled pool is a step of the pool. *)
LEMMA SchedStepIsPoolStep == SchedInv /\ [SchedNext]_allVars => [Next]_vars
<1> SUFFICES ASSUME SchedInv, [SchedNext]_allVars PROVE [Next]_vars
  OBVIOUS
<1>1. CASE UNCHANGED allVars
  BY <1>1 DEF allVars
<1>2. CASE CheckPoolSize
  BY <1>2 DEF CheckPoolSize
<1>3. CASE AssignInitial
  BY <1>3 DEF AssignInitial, SchedInv, SetupInv, Next
<1>4. CASE BuildAndRun
  BY <1>4 DEF BuildAndRun, Next
<1>5. CASE RunEvent
  <2>1. PICK e \in pending :
          \/ e.op = "assign" /\ AssignVehicleToPool(e.arg)
          \/ e.op = "release" /\ ReleaseVehicleFromPool(e.arg)
          \/ e.op = "start" /\ StartApplication(e.arg)
    BY <1>5 DEF RunEvent
  <2>2. appsCreated /\ e \in Scheduled
    BY <1>5 DEF RunEvent, SchedInv, QueueInv
  <2>. QED
    BY <2>1, <2>2, QueueElement DEF Next
<1>6. CASE StopSimulation
  BY <1>6 DEF StopSimulation
<1>. QED
  BY <1>1, <1>2, <1>3, <1>4, <1>5, <1>6 DEF SchedNext

LEMMA InitSchedInv == SchedInit => SchedInv
<1> SUFFICES ASSUME SchedInit PROVE SchedInv
  OBVIOUS
<1>1. PoolInv
  BY InitPoolInv DEF SchedInit
<1>2. NoRuntimeAbort
  BY DEF SchedInit, Init, NoRuntimeAbort
<1>3. SetupInv
  BY ScheduleAssumption DEF SchedInit, Init, SetupInv
<1>4. QueueInv
  BY DEF SchedInit, QueueInv
<1>. QED
  BY <1>1, <1>2, <1>3, <1>4 DEF SchedInv

(* One turn of the initial assignment: everyone on the pool, and the       *)
(* vehicle that may join it, has a row at time 0.                          *)
LEMMA AssignInitialPreserves ==
  ASSUME SchedInv, AssignInitial, CleanData
  PROVE  NoRuntimeAbort' /\ SetupInv' /\ QueueInv'
<1>1. PICK v \in toAssign :
        /\ IF FirstRow(v) <= Eps /\ LastRow(v) + Eps >= 0
           THEN AssignVehicleToPool(v)
           ELSE UNCHANGED vars
        /\ toAssign' = toAssign \ {v}
  BY DEF AssignInitial
<1>2. /\ v \in Vehicles /\ rows \in [Vehicles -> Tracks]
      /\ phase = "initial" /\ status = "ok" /\ PoolInv
      /\ activeVehicleIds = {w \in Vehicles \ toAssign : FirstRow(w) <= Eps}
      /\ PeakActive <= Cardinality(Nodes)
      /\ ~appsCreated /\ pending = {} /\ now = 0
  BY DEF AssignInitial, SchedInv, SetupInv
<1>3. rows' = rows /\ phase' = phase /\ pending' = pending /\ now' = now
  BY DEF AssignInitial
<1>4. /\ PeakActive' = PeakActive
      /\ \A w \in Vehicles : FirstRow(w)' = FirstRow(w)
  BY <1>3, ScheduleFixed
<1>5. LastRow(v) + Eps >= 0 /\ FirstRow(v) \in Nat
  BY <1>2, TrackFacts DEF Eps
<1>6. /\ activeVehicleIds' = {w \in Vehicles \ toAssign' : FirstRow(w) <= Eps}
      /\ status' = "ok" /\ appsCreated' = appsCreated
  <2>1. CASE FirstRow(v) <= Eps
    <3>1. ASSUME NEW w \in Vehicles, FirstRow(w) <= Eps
          PROVE  FirstRow(w) = 0 /\ 0 \in rows[w] /\ 0 \in RowTimes
      BY <1>2, <3>1, TrackFacts DEF Eps
    <3>2. v \notin activeVehicleIds
      BY <1>2
    <3>3. \A w \in activeVehicleIds \cup {v} : 0 \in rows[w]
      BY <1>2, <2>1, <3>1
    <3>4. freePoolNodeIds # <<>>
      BY <1>2, <2>1, <3>1, <3>2, <3>3, FreeNodeForArrival
    <3>5. AssignVehicleToPool(v)
      BY <1>1, <1>5, <2>1
    <3>6. activeVehicleIds' = activeVehicleIds \cup {v}
          /\ status' = "ok" /\ appsCreated' = appsCreated
      BY <1>2, <3>2, <3>4, <3>5, AssignAddsVehicle
    <3>. QED
      BY <1>1, <1>2, <2>1, <3>6
  <2>2. CASE ~(FirstRow(v) <= Eps)
    <3>1. UNCHANGED vars
      BY <1>1, <2>2
    <3>. QED
      BY <1>1, <1>2, <2>2, <3>1 DEF vars, poolVars, appVars
  <2>. QED
    BY <2>1, <2>2
<1>7. NoRuntimeAbort' /\ QueueInv'
  BY <1>2, <1>3, <1>6 DEF NoRuntimeAbort, QueueInv
<1>8. toAssign' \subseteq Vehicles /\ now \in 0..SimTime
  BY <1>1 DEF SchedInv, SetupInv
<1>9. SetupInv'
  BY <1>2, <1>3, <1>4, <1>6, <1>8 DEF SetupInv
<1>. QED
  BY <1>7, <1>9

(* When the queue is filled, the vehicles on the pool are those that were  *)
(* there at time 0.                                                        *)
LEMMA BuildAndRunPreserves ==
  ASSUME SchedInv, BuildAndRun
  PROVE  NoRuntimeAbort' /\ SetupInv' /\ QueueInv'
<1>1. /\ phase = "initial" /\ toAssign = {} /\ phase' = "running"
      /\ pending' = Scheduled /\ rows' = rows /\ toAssign' = toAssign
      /\ now' = now
  BY DEF BuildAndRun, Scheduled
<1>2. /\ status' = "ok" /\ appsCreated' /\ activeVehicleIds' = activeVehicleIds
  BY DEF BuildAndRun, CreateApplications, poolVars
<1>3. /\ rows \in [Vehicles -> Tracks] /\ now \in 0..SimTime
      /\ PeakActive <= Cardinality(Nodes)
      /\ activeVehicleIds = {v \in Vehicles : FirstRow(v) <= Eps}
  BY <1>1 DEF SchedInv, SetupInv
<1>4. /\ PeakActive' = PeakActive
      /\ Scheduled' = Scheduled
      /\ \A v \in Vehicles : /\ FirstRow(v)' = FirstRow(v)
                             /\ LastRow(v)' = LastRow(v)
                             /\ AssignEvent(v)' = AssignEvent(v)
                             /\ ReleaseEvent(v)' = ReleaseEvent(v)
  BY <1>1, ScheduleFixed
<1>5. SetupInv'
  BY <1>1, <1>2, <1>3, <1>4 DEF SetupInv
<1>6. now = 0
  BY <1>1 DEF SchedInv, SetupInv
<1>7. \A e \in Scheduled : now <= e.time
  <2>1. ASSUME NEW v \in Vehicles
        PROVE  AssignEvent(v).time \in Nat /\ ReleaseEvent(v).time \in Nat
    BY <1>3, TrackFacts, PoolEventShape DEF Eps
  <2>2. \A e \in StartEvents : e.time \in Nat
    BY StartEventShape, ScheduleAssumption
  <2>. QED
    BY <1>6, <2>1, <2>2, QueueElement
<1>8. ASSUME NEW v \in Vehicles
      PROVE  (Started(v) /\ ~Ended(v))' <=> FirstRow(v) <= Eps
  <2>1. FirstRow(v) \in Nat /\ LastRow(v) \in Nat
    BY <1>3, TrackFacts
  <2>2. Started(v)' <=> FirstRow(v) <= Eps
    <3>1. FirstRow(v) > Eps /\ FirstRow(v) <= SimTime => AssignEvent(v) \in Scheduled
      BY DEF Scheduled, AssignEvents
    <3>2. FirstRow(v) > Eps <=> ~(FirstRow(v) <= Eps)
      BY <2>1 DEF Eps
    <3>. QED
      BY <1>1, <1>4, <3>1, <3>2 DEF Started
  <2>3. ~Ended(v)'
    <3>1. LastRow(v) + Eps > Eps /\ LastRow(v) + Eps <= SimTime
          => ReleaseEvent(v) \in Scheduled
      BY DEF Scheduled, ReleaseEvents
    <3>. QED
      BY <1>1, <1>4, <3>1 DEF Ended
  <2>. QED
    BY <2>2, <2>3
<1>9. activeVehicleIds' = {v \in Vehicles : Started(v) /\ ~Ended(v)}'
  BY <1>2, <1>3, <1>8
<1>10. \A n \in Nodes : \E e \in pending' : e.op = "start" /\ e.arg = n
  BY <1>1, StartEventShape DEF Scheduled
<1>11. QueueInv'
  BY <1>1, <1>2, <1>4, <1>7, <1>9, <1>10 DEF QueueInv
<1>. QED
  BY <1>2, <1>5, <1>11 DEF NoRuntimeAbort

(* Events lie within the simulated time. *)
LEMMA EventTime ==
  ASSUME rows \in [Vehicles -> Tracks], NEW e \in Scheduled
  PROVE  e.time \in 0..SimTime
<1>1. ASSUME NEW v \in Vehicles
      PROVE  FirstRow(v) \in Nat /\ LastRow(v) + Eps \in Nat
  BY TrackFacts DEF Eps
<1>2. \A f \in StartEvents : f.time \in 0..SimTime
  BY StartEventShape, ScheduleAssumption
<1>. QED
  BY <1>1, <1>2, QueueElement, PoolEventShape, ScheduleAssumption

(* Running the earliest event keeps the queue and the clock consistent. *)
LEMMA QueueAdvances ==
  ASSUME SchedInv, phase = "running", NEW e \in pending, Due(e),
         rows' = rows, pending' = pending \ {e}, now' = e.time
  PROVE  /\ now' \in 0..SimTime
         /\ pending' \subseteq Scheduled'
         /\ \A f \in pending' : now' <= f.time
         /\ \A f \in Scheduled' \ pending' : f.time <= now'
<1>1. /\ rows \in [Vehicles -> Tracks] /\ pending \subseteq Scheduled
      /\ now \in 0..SimTime /\ now <= e.time
      /\ \A f \in Scheduled \ pending : f.time <= now
  BY DEF SchedInv, SetupInv, QueueInv
<1>2. \A f \in Scheduled : f.time \in 0..SimTime
  BY <1>1, EventTime
<1>3. \A f \in pending : e.time <= f.time
  BY <1>1, <1>2, ScheduleAssumption DEF Due, Earlier
<1>4. Scheduled' = Scheduled
  BY ScheduleFixed
<1>5. ASSUME NEW f \in Scheduled \ pending PROVE f.time <= e.time
  BY <1>1, <1>2, <1>5, ScheduleAssumption
<1>. QED
  BY <1>1, <1>2, <1>3, <1>4, <1>5, ScheduleAssumption

(* An arrival: the vehicles on the pool have neither been released before  *)
(* this instant nor do they end before it, so they all have a row now.     *)
LEMMA ArrivalFindsNode ==
  ASSUME SchedInv, CleanData, phase = "running", NEW v \in Vehicles,
         AssignEvent(v) \in pending, Due(AssignEvent(v)),
         FirstRow(v) > Eps, FirstRow(v) <= SimTime
  PROVE  /\ v \notin activeVehicleIds
         /\ freePoolNodeIds # <<>>
         /\ ~Ended(v)
<1> DEFINE t == FirstRow(v)
<1>1. /\ rows \in [Vehicles -> Tracks] /\ pending \subseteq Scheduled
      /\ PoolInv /\ PeakActive <= Cardinality(Nodes)
      /\ now \in 0..SimTime /\ now <= AssignEvent(v).time
      /\ \A f \in Scheduled \ pending : f.time <= now
      /\ activeVehicleIds = {w \in Vehicles : Started(w) /\ ~Ended(w)}
  BY DEF SchedInv, SetupInv, QueueInv
<1>2. t \in RowTimes /\ t \in Nat /\ t \in rows[v] /\ AssignEvent(v).time = t
  BY <1>1, TrackFacts, PoolEventShape
<1>3. v \notin activeVehicleIds
  BY <1>1, <1>2 DEF Started, Eps
<1>4. ASSUME NEW w \in Vehicles, w \in activeVehicleIds PROVE t \in rows[w]
  <2>1. FirstRow(w) \in Nat /\ LastRow(w) \in Nat /\ Started(w) /\ ~Ended(w)
    BY <1>1, <1>4, TrackFacts
  <2>2. FirstRow(w) <= t
    <3>1. CASE FirstRow(w) <= Eps
      BY <1>2, <2>1, <3>1 DEF Eps
    <3>2. CASE FirstRow(w) > Eps /\ FirstRow(w) <= SimTime /\ AssignEvent(w) \notin pending
      <4>1. AssignEvent(w) \in Scheduled
        BY <3>2 DEF Scheduled, AssignEvents
      <4>2. FirstRow(w) <= now
        BY <1>1, <3>2, <4>1, PoolEventShape
      <4>. QED
        BY <1>1, <1>2, <2>1, <4>2, ScheduleAssumption
    <3>. QED
      BY <2>1, <3>1, <3>2 DEF Started, Eps
  <2>3. t <= LastRow(w)
    <3>1. LastRow(w) > 0
      BY <1>1, TrackEndsLate DEF CleanData
    <3>2. CASE LastRow(w) + Eps > SimTime
      BY <1>2, <2>1, <3>2, ScheduleAssumption DEF Eps
    <3>3. CASE ReleaseEvent(w) \in pending
      <4>1. ReleaseEvent(w).time = LastRow(w) + Eps
        BY PoolEventShape
      <4>2. ReleaseEvent(w) # AssignEvent(v)
        BY PoolEventShape
      <4>3. t <= LastRow(w) + 1
        BY <1>2, <2>1, <3>3, <4>1, <4>2 DEF Due, Earlier, Eps
      <4>4. PICK a \in Nat, b \in Nat : t = 2 * a /\ LastRow(w) = 2 * b
        BY <1>1, TrackFacts
      <4>. QED
        BY <4>3, <4>4
    <3>. QED
      BY <2>1, <3>1, <3>2, <3>3, ScheduleAssumption DEF Ended, Eps
  <2>. QED
    BY <1>1, <1>2, <2>2, <2>3, TrackCovers DEF CleanData
<1>5. freePoolNodeIds # <<>>
  <2>1. \A w \in activeVehicleIds \cup {v} : t \in rows[w]
    BY <1>1, <1>2, <1>4
  <2>. QED
    BY <1>1, <1>2, <1>3, <2>1, FreeNodeForArrival
<1>6. ~Ended(v)
  <2> SUFFICES ASSUME Ended(v) PROVE FALSE
    OBVIOUS
  <2>1. ReleaseEvent(v) \in Scheduled \ pending
    BY DEF Ended, Scheduled, ReleaseEvents
  <2>2. LastRow(v) + Eps <= now
    BY <1>1, <2>1, PoolEventShape
  <2>3. FirstRow(v) <= LastRow(v) /\ LastRow(v) \in Nat
    BY <1>1, TrackFacts
  <2>. QED
    BY <1>1, <1>2, <2>2, <2>3, ScheduleAssumption DEF Eps
<1>. QED
  BY <1>3, <1>5, <1>6

LEMMA RunEventPreserves ==
  ASSUME SchedInv, RunEvent, CleanData
  PROVE  NoRuntimeAbort' /\ SetupInv' /\ QueueInv'
<1>1. PICK e \in pending :
        /\ Due(e)
        /\ \/ e.op = "assign" /\ AssignVehicleToPool(e.arg)
           \/ e.op = "release" /\ ReleaseVehicleFromPool(e.arg)
           \/ e.op = "start" /\ StartApplication(e.arg)
        /\ pending' = pending \ {e}
        /\ now' = e.time
  BY DEF RunEvent
<1>2. /\ phase = "running" /\ status = "ok"
      /\ rows' = rows /\ phase' = phase /\ toAssign' = toAssign
  BY DEF RunEvent
<1>3. /\ PoolInv /\ rows \in [Vehicles -> Tracks] /\ toAssign \subseteq Vehicles
      /\ PeakActive <= Cardinality(Nodes) /\ pending \subseteq Scheduled
      /\ appsCreated
      /\ activeVehicleIds = {v \in Vehicles : Started(v) /\ ~Ended(v)}
      /\ \A n \in Nodes : \/ appState[n] = "running"
                          \/ \E f \in pending : f.op = "start" /\ f.arg = n
  BY <1>2 DEF SchedInv, SetupInv, QueueInv
<1>4. /\ now' \in 0..SimTime /\ pending' \subseteq Scheduled'
      /\ \A f \in pending' : now' <= f.time
      /\ \A f \in Scheduled' \ pending' : f.time <= now'
  BY <1>1, <1>2, QueueAdvances
<1>5. /\ PeakActive' = PeakActive
      /\ \A v \in Vehicles : /\ FirstRow(v)' = FirstRow(v)
                             /\ LastRow(v)' = LastRow(v)
                             /\ AssignEvent(v)' = AssignEvent(v)
                             /\ ReleaseEvent(v)' = ReleaseEvent(v)
  BY <1>2, ScheduleFixed
<1> DEFINE Effect ==
      /\ status' = "ok" /\ appsCreated'
      /\ activeVehicleIds' = {v \in Vehicles : Started(v) /\ ~Ended(v)}'
      /\ \A n \in Nodes : \/ appState'[n] = "running"
                          \/ \E f \in pending' : f.op = "start" /\ f.arg = n
<1>6. ASSUME NEW v \in Vehicles, e = AssignEvent(v), e.op = "assign", e.arg = v,
             FirstRow(v) > Eps, FirstRow(v) <= SimTime
      PROVE  Effect
  <2>1. v \notin activeVehicleIds /\ freePoolNodeIds # <<>> /\ ~Ended(v)
    BY <1>1, <1>2, <1>6, ArrivalFindsNode
  <2>2. AssignVehicleToPool(v)
    BY <1>1, <1>6
  <2>3. /\ activeVehicleIds' = activeVehicleIds \cup {v}
        /\ status' = "ok" /\ UNCHANGED <<appsCreated, appState>>
    BY <1>2, <1>3, <2>1, <2>2, AssignAddsVehicle
  <2>4. ASSUME NEW w \in Vehicles
        PROVE  (Started(w) /\ ~Ended(w))' <=> (Started(w) /\ ~Ended(w)) \/ w = v
    <3>1. Ended(w)' <=> Ended(w)
      BY <1>1, <1>5, <1>6, PoolEventShape DEF Ended
    <3>2. w # v => (Started(w)' <=> Started(w))
      BY <1>1, <1>5, <1>6, PoolEventShape DEF Started
    <3>3. Started(v)'
      BY <1>1, <1>5, <1>6 DEF Started
    <3>. QED
      BY <2>1, <3>1, <3>2, <3>3
  <2>. QED
    BY <1>1, <1>3, <1>6, <2>3, <2>4
<1>7. ASSUME NEW v \in Vehicles, e = ReleaseEvent(v), e.op = "release", e.arg = v,
             LastRow(v) + Eps > Eps, LastRow(v) + Eps <= SimTime
      PROVE  Effect
  <2>1. ReleaseVehicleFromPool(v)
    BY <1>1, <1>7
  <2>2. /\ activeVehicleIds' = activeVehicleIds \ {v}
        /\ status' = "ok" /\ UNCHANGED <<appsCreated, appState>>
    BY <1>2, <1>3, <2>1, ReleaseRemovesVehicle
  <2>3. ASSUME NEW w \in Vehicles
        PROVE  (Started(w) /\ ~Ended(w))' <=> (Started(w) /\ ~Ended(w)) /\ w # v
    <3>1. Started(w)' <=> Started(w)
      BY <1>1, <1>5, <1>7, PoolEventShape DEF Started
    <3>2. w # v => (Ended(w)' <=> Ended(w))
      BY <1>1, <1>5, <1>7, PoolEventShape DEF Ended
    <3>3. Ended(v)'
      BY <1>1, <1>5, <1>7 DEF Ended
    <3>. QED
      BY <3>1, <3>2, <3>3
  <2>. QED
    BY <1>1, <1>3, <1>7, <2>2, <2>3
<1>8. ASSUME e \in StartEvents, e.op = "start", e.arg \in Nodes
      PROVE  Effect
  <2>1. StartApplication(e.arg)
    BY <1>1, <1>8
  <2>2. /\ activeVehicleIds' = activeVehicleIds /\ status' = "ok" /\ appsCreated'
        /\ appState' = [appState EXCEPT ![e.arg] = "running"]
    BY <1>2, <1>3, <2>1 DEF StartApplication, poolVars
  <2>3. ASSUME NEW w \in Vehicles
        PROVE  (Started(w) /\ ~Ended(w))' <=> Started(w) /\ ~Ended(w)
    BY <1>1, <1>5, <1>8, PoolEventShape DEF Started, Ended
  <2>4. appState \in [Nodes -> AppStates]
    BY <1>3 DEF PoolInv, TypeOK
  <2>. QED
    BY <1>1, <1>3, <2>2, <2>3, <2>4
<1>9. Effect
  BY <1>1, <1>3, <1>6, <1>7, <1>8, QueueElement
<1>10. SetupInv'
  BY <1>2, <1>3, <1>4, <1>5 DEF SetupInv
<1>11. QueueInv'
  BY <1>2, <1>4, <1>9 DEF QueueInv
<1>. QED
  BY <1>9, <1>10, <1>11 DEF NoRuntimeAbort

LEMMA NextPreservesSchedInv ==
  ASSUME CleanData
  PROVE  SchedInv /\ [SchedNext]_allVars => SchedInv'
<1> SUFFICES ASSUME SchedInv, [SchedNext]_allVars PROVE SchedInv'
  OBVIOUS
<1>1. PoolInv'
  BY SchedStepIsPoolStep, NextPreservesPoolInv DEF SchedInv
<1> SUFFICES NoRuntimeAbort' /\ SetupInv' /\ QueueInv'
  BY <1>1 DEF SchedInv
<1>2. ASSUME rows' = rows, UNCHANGED vars PROVE
        /\ PeakActive' = PeakActive /\ Scheduled' = Scheduled
        /\ \A v \in Vehicles : /\ FirstRow(v)' = FirstRow(v)
                               /\ LastRow(v)' = LastRow(v)
                               /\ AssignEvent(v)' = AssignEvent(v)
                               /\ ReleaseEvent(v)' = ReleaseEvent(v)
        /\ UNCHANGED <<activeVehicleIds, appsCreated, appState, status>>
  BY <1>2, ScheduleFixed DEF vars, poolVars, appVars
<1>3. CASE UNCHANGED allVars
  BY <1>2, <1>3 DEF allVars, schedVars, SchedInv, SetupInv, QueueInv,
                    NoRuntimeAbort, Started, Ended
<1>4. CASE CheckPoolSize
  <2>1. PeakActive \in Nat /\ Cardinality(Nodes) \in Nat
    BY PeakBounds, PoolAssumption, FS_CardinalityType
  <2>. QED
    BY <1>2, <1>4, <2>1 DEF CheckPoolSize, SchedInv, SetupInv, QueueInv,
                            NoRuntimeAbort
<1>5. CASE AssignInitial
  BY <1>5, AssignInitialPreserves
<1>6. CASE BuildAndRun
  BY <1>6, BuildAndRunPreserves
<1>7. CASE RunEvent
  BY <1>7, RunEventPreserves
<1>8. CASE StopSimulation
  <2>1. /\ phase = "running" /\ phase' = "finished" /\ pending = {}
        /\ pending' = pending /\ rows' = rows /\ toAssign' = toAssign
        /\ now' = SimTime /\ UNCHANGED vars
    BY <1>8 DEF StopSimulation
  <2>2. /\ rows \in [Vehicles -> Tracks] /\ Scheduled' = Scheduled
        /\ UNCHANGED <<activeVehicleIds, appsCreated, appState, status>>
    BY <1>2, <2>1 DEF SchedInv, SetupInv
  <2>3. \A f \in Scheduled : f.time <= SimTime
    BY <2>2, EventTime, ScheduleAssumption
  <2>4. {v \in Vehicles : Started(v) /\ ~Ended(v)}' =
        {v \in Vehicles : Started(v) /\ ~Ended(v)}
    BY <1>2, <2>1 DEF Started, Ended
  <2>5. QueueInv'
    BY <2>1, <2>2, <2>3, <2>4 DEF SchedInv, QueueInv
  <2>6. SetupInv' /\ NoRuntimeAbort'
    BY <1>2, <2>1, ScheduleAssumption DEF SchedInv, SetupInv, NoRuntimeAbort
  <2>. QED
    BY <2>5, <2>6
<1>. QED
  BY <1>3, <1>4, <1>5, <1>6, <1>7, <1>8 DEF SchedNext

-----------------------------------------------------------------------------
(* The inductive invariant holds throughout every run on clean data. *)
THEOREM ScheduleInvariant ==
  ASSUME CleanData
  PROVE  SchedSpec => []SchedInv
<1>. QED
  BY InitSchedInv, NextPreservesSchedInv, PTL DEF SchedSpec

(* Type correctness: the clock, the queue and the mobility data *)
THEOREM ScheduleTypeOK ==
  ASSUME CleanData
  PROVE  SchedSpec => []SchedTypeOK
<1>1. SchedInv => SchedTypeOK
  <2> SUFFICES ASSUME SchedInv PROVE SchedTypeOK
    OBVIOUS
  <2>1. ASSUME NEW e \in pending PROVE now <= e.time /\ e.time <= SimTime
    <3>1. phase \in {"running", "finished"}
      BY DEF SchedInv, SetupInv
    <3>2. e \in Scheduled /\ now <= e.time /\ rows \in [Vehicles -> Tracks]
      BY <3>1 DEF SchedInv, SetupInv, QueueInv
    <3>. QED
      BY <3>2, EventTime, ScheduleAssumption
  <2>. QED
    BY <2>1 DEF SchedInv, SetupInv, SchedTypeOK
<1>. QED
  BY <1>1, ScheduleInvariant, PTL

(* If the mobility file has no gaps, the peak that main() compares with    *)
(* the pool size before the simulation rules out both aborts of            *)
(* AssignVehicleToPool during it, for every number of vehicles and UEs.    *)
THEOREM ScheduleNoRuntimeAbort ==
  ASSUME CleanData
  PROVE  SchedSpec => []NoRuntimeAbort
<1>1. SchedInv => NoRuntimeAbort
  BY DEF SchedInv
<1>. QED
  BY <1>1, ScheduleInvariant, PTL

(* Between two instants with events, the vehicles on the pool are those    *)
(* whose track covers the instant.                                         *)
THEOREM ScheduleFollowsTracks ==
  ASSUME CleanData
  PROVE  SchedSpec => []ActiveFollowsTracks
<1>1. SchedInv => ActiveFollowsTracks
  <2> SUFFICES ASSUME SchedInv, phase = "running", \A e \in pending : e.time > now,
                      NEW t \in now .. Min({SimTime} \cup {e.time - 1 : e \in pending})
               PROVE  activeVehicleIds =
                        {v \in Vehicles : FirstRow(v) <= t /\ t <= LastRow(v)}
    BY DEF ActiveFollowsTracks
  <2>1. /\ rows \in [Vehicles -> Tracks] /\ now \in 0..SimTime
        /\ pending \subseteq Scheduled
        /\ \A e \in Scheduled \ pending : e.time <= now
        /\ activeVehicleIds = {v \in Vehicles : Started(v) /\ ~Ended(v)}
    BY DEF SchedInv, SetupInv, QueueInv
  <2>2. \A e \in Scheduled : e.time \in 0..SimTime
    BY <2>1, EventTime
  <2>3. /\ t \in Int /\ now <= t /\ t <= SimTime
        /\ \A e \in pending : t <= e.time - 1
    <3> DEFINE D == {SimTime} \cup {e.time - 1 : e \in pending}
    <3>1. \A e \in pending : e.time - 1 \in Nat
      BY <2>1, <2>2, ScheduleAssumption
    <3>2. D \in SUBSET Nat /\ D # {}
      BY <3>1, ScheduleAssumption
    <3>3. Min(D) \in Nat /\ \A d \in D : Min(D) <= d
      BY <3>2, MinOfNats
    <3>4. t \in Int /\ now <= t /\ t <= Min(D)
      BY <2>1, <3>3, ScheduleAssumption
    <3>5. ASSUME NEW e \in pending PROVE Min(D) <= e.time - 1
      BY <3>3
    <3>. QED
      BY <3>1, <3>3, <3>4, <3>5, ScheduleAssumption
  <2>4. ASSUME NEW v \in Vehicles
        PROVE  /\ Started(v) <=> FirstRow(v) <= t
               /\ Ended(v) <=> ~(t <= LastRow(v))
    <3>1. FirstRow(v) \in Nat /\ LastRow(v) \in Nat
      BY <2>1, TrackFacts
    <3>2. LastRow(v) > 0
      BY <2>1, TrackEndsLate DEF CleanData
    <3>3. AssignEvent(v) \in pending => t < FirstRow(v)
      BY <2>3, <3>1, PoolEventShape
    <3>4. FirstRow(v) > Eps /\ FirstRow(v) <= SimTime /\ AssignEvent(v) \notin pending
          => FirstRow(v) <= now
      BY <2>1, PoolEventShape DEF Scheduled, AssignEvents
    <3>5. ReleaseEvent(v) \in pending => t <= LastRow(v)
      BY <2>3, <3>1, PoolEventShape DEF Eps
    <3>6. LastRow(v) + Eps <= SimTime /\ ReleaseEvent(v) \notin pending
          => LastRow(v) + Eps <= now
      <4>1. LastRow(v) + Eps > Eps
        BY <3>1, <3>2 DEF Eps
      <4>. QED
        BY <2>1, <4>1, PoolEventShape DEF Scheduled, ReleaseEvents
    <3>7. Started(v) <=> FirstRow(v) <= t
      <4>1. FirstRow(v) <= Eps => FirstRow(v) = 0
        BY <2>1, TrackFacts DEF Eps
      <4>. QED
        BY <2>1, <2>3, <3>1, <3>3, <3>4, <4>1, ScheduleAssumption DEF Started, Eps
    <3>8. Ended(v) <=> ~(t <= LastRow(v))
      BY <2>1, <2>3, <3>1, <3>2, <3>5, <3>6, ScheduleAssumption DEF Ended, Eps
    <3>. QED
      BY <3>7, <3>8
  <2>. QED
    BY <2>1, <2>4
<1>. QED
  BY <1>1, ScheduleInvariant, PTL

(* Once the applications have started, every vehicle on the pool is on the *)
(* air under its own id, whether it arrived before or after the start.     *)
THEOREM ScheduleVehiclesHeard ==
  ASSUME CleanData
  PROVE  SchedSpec => []EveryActiveVehicleHeard
<1>1. SchedInv => EveryActiveVehicleHeard
  <2> SUFFICES ASSUME SchedInv, phase \in {"running", "finished"},
                      \A e \in pending : e.op # "start",
                      NEW v \in activeVehicleIds
               PROVE  /\ disseminating[vehicleIdToNodeId[v]]
                      /\ stationId[vehicleIdToNodeId[v]] = v
    BY DEF EveryActiveVehicleHeard
  <2> DEFINE n == vehicleIdToNodeId[v]
  <2>1. v \in Vehicles /\ n \in Nodes /\ nodeIdToVehicleId[n] = v
    BY DEF SchedInv, PoolInv, TypeOK, MappingsInverse
  <2>2. appState[n] = "running" /\ appsCreated
    BY <2>1 DEF SchedInv, QueueInv
  <2>3. assignedVehicleId[n] = v /\ v # NoVehicle
    BY <2>1, <2>2, PoolAssumption DEF SchedInv, PoolInv, LayersAgree
  <2>. QED
    BY <2>1, <2>2, <2>3 DEF SchedInv, PoolInv, OnAirExactly
<1>. QED
  BY <1>1, ScheduleInvariant, PTL

(* The scheduled pool is a pool: what UePoolProofs proves of every order   *)
(* of operations, the CamAir service included, holds of the order main()   *)
(* chooses.                                                                *)
THEOREM ScheduleImplementsPool ==
  ASSUME CleanData
  PROVE  SchedSpec => Spec
<1>1. SchedInit => Init
  BY DEF SchedInit
<1>. QED
  BY <1>1, SchedStepIsPoolStep, ScheduleInvariant, PTL DEF SchedSpec, Spec
=============================================================================
