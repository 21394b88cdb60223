---------------------------- MODULE UePoolProofs ----------------------------
(***************************************************************************)
(* Proofs about UePool for every set of vehicles and nodes: the type       *)
(* invariant, the four consistency invariants of the pool, and that the    *)
(* pool implements the abstract CamAir service.                            *)
(*                                                                         *)
(* MappingsInverse, FreeListExact, LayersAgree and OnAirExactly are not    *)
(* inductive one by one: a release is only harmless because the vehicle's  *)
(* node is not in the free list (FreeListExact) and carries that vehicle   *)
(* (MappingsInverse).  Their conjunction with TypeOK is inductive, once it *)
(* is known that no application leaves "idle" before g_apps is filled.     *)
(***************************************************************************)
EXTENDS UePool, FiniteSetTheorems, TLAPS

(* Before main() has created the applications none of them has a vehicle   *)
(* or has been started by ns-3.                                            *)
AppsIdleBeforeCreation ==
  ~appsCreated => /\ appState = [n \in Nodes |-> "idle"]
                  /\ assignedVehicleId = [n \in Nodes |-> NoVehicle]

PoolInv ==
  /\ TypeOK
  /\ MappingsInverse
  /\ FreeListExact
  /\ LayersAgree
  /\ OnAirExactly
  /\ AppsIdleBeforeCreation

(* Removing the head of a duplicate-free sequence removes exactly that     *)
(* element: what pop_front does to the set of free nodes.                  *)
LEMMA TailOfInjective ==
  ASSUME NEW S, NEW s \in Seq(S), s # <<>>,
         \A i, j \in DOMAIN s : s[i] = s[j] => i = j
  PROVE  /\ Head(s) \in S
         /\ Tail(s) \in Seq(S)
         /\ \A i, j \in DOMAIN Tail(s) : Tail(s)[i] = Tail(s)[j] => i = j
         /\ \A x \in S : (\E i \in DOMAIN Tail(s) : Tail(s)[i] = x)
                         <=> (\E i \in DOMAIN s : s[i] = x) /\ x # Head(s)
<1>1. /\ Len(s) \in Nat \ {0}
      /\ DOMAIN s = 1..Len(s)
      /\ Tail(s) \in Seq(S)
      /\ Head(s) = s[1]
      /\ DOMAIN Tail(s) = 1..(Len(s) - 1)
      /\ \A i \in 1..(Len(s) - 1) : Tail(s)[i] = s[i+1]
  OBVIOUS
<1>2. Head(s) \in S
  BY <1>1
<1>3. \A i, j \in DOMAIN Tail(s) : Tail(s)[i] = Tail(s)[j] => i = j
  BY <1>1
<1>4. ASSUME NEW x \in S
      PROVE  (\E i \in DOMAIN Tail(s) : Tail(s)[i] = x)
             <=> (\E i \in DOMAIN s : s[i] = x) /\ x # Head(s)
  <2>1. ASSUME NEW i \in DOMAIN Tail(s), Tail(s)[i] = x
        PROVE  (\E k \in DOMAIN s : s[k] = x) /\ x # Head(s)
    BY <1>1, <2>1
  <2>2. ASSUME NEW k \in DOMAIN s, s[k] = x, x # Head(s)
        PROVE  \E i \in DOMAIN Tail(s) : Tail(s)[i] = x
    <3>1. k - 1 \in 1..(Len(s) - 1)
      BY <1>1, <2>2
    <3>2. Tail(s)[k-1] = x
      BY <1>1, <2>2, <3>1
    <3>. QED
      BY <1>1, <3>1, <3>2
  <2>. QED
    BY <2>1, <2>2
<1>. QED
  BY <1>1, <1>2, <1>3, <1>4

(* Appending a fresh element keeps a sequence duplicate-free and adds      *)
(* exactly that element: what push_back does to the set of free nodes.     *)
LEMMA AppendOfFresh ==
  ASSUME NEW S, NEW s \in Seq(S), NEW e \in S,
         \A i, j \in DOMAIN s : s[i] = s[j] => i = j,
         \A i \in DOMAIN s : s[i] # e
  PROVE  /\ Append(s, e) \in Seq(S)
         /\ \A i, j \in DOMAIN Append(s, e) :
               Append(s, e)[i] = Append(s, e)[j] => i = j
         /\ \A x \in S : (\E i \in DOMAIN Append(s, e) : Append(s, e)[i] = x)
                         <=> (\E i \in DOMAIN s : s[i] = x) \/ x = e
<1>1. /\ Len(s) \in Nat
      /\ DOMAIN s = 1..Len(s)
      /\ Append(s, e) \in Seq(S)
      /\ DOMAIN Append(s, e) = 1..(Len(s) + 1)
      /\ \A i \in 1..Len(s) : Append(s, e)[i] = s[i]
      /\ Append(s, e)[Len(s) + 1] = e
  OBVIOUS
<1>2. \A i, j \in DOMAIN Append(s, e) :
         Append(s, e)[i] = Append(s, e)[j] => i = j
  BY <1>1
<1>3. ASSUME NEW x \in S
      PROVE  (\E i \in DOMAIN Append(s, e) : Append(s, e)[i] = x)
             <=> (\E i \in DOMAIN s : s[i] = x) \/ x = e
  BY <1>1
<1>. QED
  BY <1>1, <1>2, <1>3

-----------------------------------------------------------------------------
(* A deque filled from an array of n nodes is a sequence of nodes. *)
LEMMA FunctionIsSequence ==
  ASSUME NEW T, NEW n \in Nat, NEW s \in [1..n -> T]
  PROVE  s \in Seq(T)
OBVIOUS

(* main()'s initial state: every node parked and free *)
LEMMA InitPoolInv == Init => PoolInv
<1> SUFFICES ASSUME Init PROVE PoolInv
  OBVIOUS
<1> USE PoolAssumption
<1>1. freePoolNodeIds \in Seq(Nodes)
  <2>1. Cardinality(Nodes) \in Nat
    BY FS_CardinalityType
  <2>2. freePoolNodeIds \in [1..Cardinality(Nodes) -> Nodes]
    BY DEF Init
  <2>. QED
    BY <2>1, <2>2, FunctionIsSequence
<1>2. TypeOK
  BY <1>1 DEF Init, TypeOK, AppStates
<1>3. MappingsInverse
  BY DEF Init, MappingsInverse
<1>4. FreeListExact
  BY DEF Init, FreeListExact
<1>5. LayersAgree
  BY DEF Init, LayersAgree
<1>6. OnAirExactly
  BY DEF Init, OnAirExactly
<1>7. AppsIdleBeforeCreation
  BY DEF Init, AppsIdleBeforeCreation
<1>. QED
  BY <1>2, <1>3, <1>4, <1>5, <1>6, <1>7 DEF PoolInv

(* AssignVehicleToPool takes the front node: it is free, so no map, no     *)
(* mobility model and no application speaks for it yet.                    *)
LEMMA AssignPreservesPoolInv ==
  ASSUME PoolInv, NEW v \in Vehicles, vehicleIdToNodeId[v] = NoNode,
         freePoolNodeIds # <<>>, AssignToFrontNode(v)
  PROVE  PoolInv'
<1> DEFINE n == Head(freePoolNodeIds)
<1> USE PoolAssumption
<1>1. /\ n \in Nodes
      /\ Tail(freePoolNodeIds) \in Seq(Nodes)
      /\ \A i, j \in DOMAIN Tail(freePoolNodeIds) :
            Tail(freePoolNodeIds)[i] = Tail(freePoolNodeIds)[j] => i = j
      /\ \A x \in Nodes :
            (\E i \in DOMAIN Tail(freePoolNodeIds) :
                Tail(freePoolNodeIds)[i] = x)
            <=> (\E i \in DOMAIN freePoolNodeIds : freePoolNodeIds[i] = x)
                /\ x # n
  BY TailOfInjective DEF PoolInv, TypeOK, FreeListExact
<1>2. nodeIdToVehicleId[n] = NoVehicle
  <2>1. 1 \in DOMAIN freePoolNodeIds /\ freePoolNodeIds[1] = n
    BY DEF PoolInv, TypeOK
  <2>. QED
    BY <1>1, <2>1 DEF PoolInv, FreeListExact
<1> HIDE DEF n
<1>3. /\ freePoolNodeIds' = Tail(freePoolNodeIds)
      /\ vehicleIdToNodeId' = [vehicleIdToNodeId EXCEPT ![v] = n]
      /\ nodeIdToVehicleId' = [nodeIdToVehicleId EXCEPT ![n] = v]
      /\ activeVehicleIds' = activeVehicleIds \cup {v}
      /\ mobility' = [mobility EXCEPT ![n] = v]
      /\ IF appsCreated THEN AppAssignVehicle(n, v)
         ELSE UNCHANGED <<assignedVehicleId, stationId, disseminating>>
      /\ UNCHANGED <<appsCreated, appState, status>>
  BY DEF AssignToFrontNode, n
<1>4. TypeOK'
  <2>1. CASE appsCreated /\ appState[n] = "running"
    <3>1. /\ assignedVehicleId' = [assignedVehicleId EXCEPT ![n] = v]
          /\ stationId' = [stationId EXCEPT ![n] = v]
          /\ disseminating' = [disseminating EXCEPT ![n] = TRUE]
      BY <1>3, <2>1, Zenon DEF AppAssignVehicle
    <3>2. disseminating \in [Nodes -> BOOLEAN]
      BY DEF PoolInv, TypeOK
    <3>3. disseminating' \in [Nodes -> BOOLEAN]
      BY <3>1, <3>2, Zenon
    <3>4. /\ assignedVehicleId \in [Nodes -> Vehicles \cup {NoVehicle}]
          /\ stationId \in [Nodes -> Vehicles \cup {NoVehicle}]
      BY DEF PoolInv, TypeOK
    <3>5. /\ assignedVehicleId' \in [Nodes -> Vehicles \cup {NoVehicle}]
          /\ stationId' \in [Nodes -> Vehicles \cup {NoVehicle}]
      BY <1>1, <3>1, <3>4
    <3>6. /\ vehicleIdToNodeId' \in [Vehicles -> Nodes \cup {NoNode}]
          /\ nodeIdToVehicleId' \in [Nodes -> Vehicles \cup {NoVehicle}]
          /\ activeVehicleIds' \in SUBSET Vehicles
          /\ freePoolNodeIds' \in Seq(Nodes)
          /\ mobility' \in [Nodes -> Vehicles \cup {NoVehicle}]
      BY <1>1, <1>3 DEF PoolInv, TypeOK
    <3>7. /\ appsCreated' \in BOOLEAN
          /\ appState' \in [Nodes -> AppStates]
          /\ status' \in {"ok"} \cup Aborts
      BY <1>3 DEF PoolInv, TypeOK
    <3>. QED
      BY <3>3, <3>5, <3>6, <3>7, Zenon DEF TypeOK
  <2>2. CASE appsCreated /\ appState[n] # "running"
    BY <1>1, <1>3, <2>2 DEF PoolInv, TypeOK, AppAssignVehicle
  <2>3. CASE ~appsCreated
    BY <1>1, <1>3, <2>3 DEF PoolInv, TypeOK
  <2>. QED
    BY <2>1, <2>2, <2>3
<1>5. MappingsInverse'
  BY <1>1, <1>2, <1>3 DEF PoolInv, TypeOK, MappingsInverse
<1>6. FreeListExact'
  BY <1>1, <1>3 DEF PoolInv, TypeOK, FreeListExact
<1>7. LayersAgree'
  BY <1>1, <1>3 DEF PoolInv, TypeOK, LayersAgree, AppAssignVehicle
<1>8. OnAirExactly'
  BY <1>1, <1>2, <1>3
     DEF PoolInv, TypeOK, LayersAgree, OnAirExactly, AppAssignVehicle
<1>9. AppsIdleBeforeCreation'
  BY <1>3 DEF PoolInv, AppsIdleBeforeCreation
<1>. QED
  BY <1>4, <1>5, <1>6, <1>7, <1>8, <1>9 DEF PoolInv

(* ReleaseVehicleFromPool returns the vehicle's node: by MappingsInverse   *)
(* it carries that vehicle, so by FreeListExact it is not in the list yet. *)
LEMMA ReleasePreservesPoolInv ==
  ASSUME PoolInv, NEW v \in Vehicles, vehicleIdToNodeId[v] # NoNode,
         appsCreated, ReturnNode(v)
  PROVE  PoolInv'
<1> DEFINE n == vehicleIdToNodeId[v]
<1> USE PoolAssumption
<1>1. n \in Nodes /\ nodeIdToVehicleId[n] = v
  BY DEF PoolInv, TypeOK, MappingsInverse
<1>2. \A i \in DOMAIN freePoolNodeIds : freePoolNodeIds[i] # n
  BY <1>1 DEF PoolInv, FreeListExact
<1>3. /\ freePoolNodeIds' = Append(freePoolNodeIds, n)
      /\ vehicleIdToNodeId' = [vehicleIdToNodeId EXCEPT ![v] = NoNode]
      /\ nodeIdToVehicleId' = [nodeIdToVehicleId EXCEPT ![n] = NoVehicle]
      /\ activeVehicleIds' = activeVehicleIds \ {v}
      /\ mobility' = [mobility EXCEPT ![n] = NoVehicle]
      /\ AppReleaseVehicle(n)
      /\ UNCHANGED <<appsCreated, appState, status>>
  BY DEF ReturnNode
<1> HIDE DEF n
<1>4. /\ Append(freePoolNodeIds, n) \in Seq(Nodes)
      /\ \A i, j \in DOMAIN Append(freePoolNodeIds, n) :
            Append(freePoolNodeIds, n)[i] = Append(freePoolNodeIds, n)[j]
            => i = j
      /\ \A x \in Nodes :
            (\E i \in DOMAIN Append(freePoolNodeIds, n) :
                Append(freePoolNodeIds, n)[i] = x)
            <=> (\E i \in DOMAIN freePoolNodeIds : freePoolNodeIds[i] = x)
                \/ x = n
  BY <1>1, <1>2, AppendOfFresh DEF PoolInv, TypeOK, FreeListExact
<1>5. TypeOK'
  BY <1>1, <1>3, <1>4 DEF PoolInv, TypeOK, AppReleaseVehicle
<1>6. MappingsInverse'
  <2>1. \A w \in Vehicles : vehicleIdToNodeId[w] = n => w = v
    BY <1>1 DEF PoolInv, MappingsInverse
  <2>. QED
    BY <1>1, <1>3, <2>1 DEF PoolInv, TypeOK, MappingsInverse
<1>7. FreeListExact'
  BY <1>1, <1>3, <1>4 DEF PoolInv, TypeOK, FreeListExact
<1>8. LayersAgree'
  BY <1>1, <1>3 DEF PoolInv, TypeOK, LayersAgree, AppReleaseVehicle
<1>9. OnAirExactly'
  BY <1>1, <1>3 DEF PoolInv, TypeOK, OnAirExactly, AppReleaseVehicle
<1>10. AppsIdleBeforeCreation'
  BY <1>3 DEF AppsIdleBeforeCreation
<1>. QED
  BY <1>5, <1>6, <1>7, <1>8, <1>9, <1>10 DEF PoolInv

LEMMA NextPreservesPoolInv == PoolInv /\ [Next]_vars => PoolInv'
<1> SUFFICES ASSUME PoolInv, [Next]_vars PROVE PoolInv'
  OBVIOUS
<1> USE PoolAssumption
<1>1. ASSUME UNCHANGED vars PROVE PoolInv'
  BY <1>1 DEF PoolInv, vars, poolVars, appVars, TypeOK, MappingsInverse,
     FreeListExact, LayersAgree, OnAirExactly, AppsIdleBeforeCreation
<1>2. ASSUME NEW v \in Vehicles, AssignVehicleToPool(v) PROVE PoolInv'
  <2>1. ASSUME NEW r \in Aborts, Abort(r) PROVE PoolInv'
    BY <2>1 DEF PoolInv, Abort, poolVars, appVars, TypeOK, MappingsInverse,
       FreeListExact, LayersAgree, OnAirExactly, AppsIdleBeforeCreation
  <2>. QED
    BY <1>2, <2>1, AssignPreservesPoolInv DEF AssignVehicleToPool, Aborts
<1>3. ASSUME NEW v \in Vehicles, appsCreated, ReleaseVehicleFromPool(v)
      PROVE  PoolInv'
  BY <1>1, <1>3, ReleasePreservesPoolInv DEF ReleaseVehicleFromPool
<1>4. ASSUME CreateApplications PROVE PoolInv'
  <2>1. TypeOK' /\ MappingsInverse' /\ FreeListExact'
    BY <1>4 DEF PoolInv, CreateApplications, poolVars, TypeOK,
       MappingsInverse, FreeListExact, ResolveVehicleIdForNode
  <2>2. LayersAgree'
    <3>1. nodeIdToVehicleId = [n \in Nodes |-> nodeIdToVehicleId[n]]
      BY DEF PoolInv, TypeOK
    <3>. QED
      BY <1>4, <3>1 DEF PoolInv, CreateApplications, poolVars, LayersAgree,
         ResolveVehicleIdForNode
  <2>3. OnAirExactly' /\ AppsIdleBeforeCreation'
    BY <1>4 DEF PoolInv, CreateApplications, OnAirExactly,
       AppsIdleBeforeCreation, TypeOK
  <2>. QED
    BY <2>1, <2>2, <2>3 DEF PoolInv
<1>5. ASSUME NEW n \in Nodes, StartApplication(n) PROVE PoolInv'
  <2>1. TypeOK' /\ MappingsInverse' /\ FreeListExact' /\ LayersAgree'
    BY <1>5 DEF PoolInv, StartApplication, poolVars, TypeOK, AppStates,
       MappingsInverse, FreeListExact, LayersAgree
  <2>2. OnAirExactly' /\ AppsIdleBeforeCreation'
    BY <1>5 DEF PoolInv, StartApplication, OnAirExactly,
       AppsIdleBeforeCreation, TypeOK, AppStates
  <2>. QED
    BY <2>1, <2>2 DEF PoolInv
<1>6. ASSUME NEW n \in Nodes, StopApplication(n) PROVE PoolInv'
  <2>1. TypeOK' /\ MappingsInverse' /\ FreeListExact' /\ LayersAgree'
    BY <1>6 DEF PoolInv, StopApplication, poolVars, TypeOK, AppStates,
       MappingsInverse, FreeListExact, LayersAgree
  <2>2. OnAirExactly' /\ AppsIdleBeforeCreation'
    BY <1>6 DEF PoolInv, StopApplication, OnAirExactly,
       AppsIdleBeforeCreation, TypeOK, AppStates
  <2>. QED
    BY <2>1, <2>2 DEF PoolInv
<1>. QED
  BY <1>1, <1>2, <1>3, <1>4, <1>5, <1>6 DEF Next

-----------------------------------------------------------------------------
(* The conjunction of the pool's invariants holds in every reachable state *)
(* for every fleet and every pool size: it is inductive.                   *)
THEOREM PoolInvariant == Spec => []PoolInv
<1>. QED
  BY InitPoolInv, NextPreservesPoolInv, PTL DEF Spec

(* Type correctness of the pool and of its CAM applications. *)
THEOREM PoolTypeOK == Spec => []TypeOK
<1>1. PoolInv => TypeOK
  BY DEF PoolInv
<1>. QED
  BY <1>1, PoolInvariant, PTL

(* g_vehicleIdToNodeId and g_nodeIdToVehicleId stay inverse to each other  *)
(* through every sequence of assignments and releases.                     *)
THEOREM PoolMappingsInverse == Spec => []MappingsInverse
<1>1. PoolInv => MappingsInverse
  BY DEF PoolInv
<1>. QED
  BY <1>1, PoolInvariant, PTL

(* g_freePoolNodeIds holds each unassigned node exactly once: no node is   *)
(* ever lent twice and none is lost.                                       *)
THEOREM PoolFreeListExact == Spec => []FreeListExact
<1>1. PoolInv => FreeListExact
  BY DEF PoolInv
<1>. QED
  BY <1>1, PoolInvariant, PTL

(* The node's mobility model and its CAM application follow the vehicle of *)
(* the global map, also the vehicles assigned before g_apps was filled.    *)
THEOREM PoolLayersAgree == Spec => []LayersAgree
<1>1. PoolInv => LayersAgree
  BY DEF PoolInv
<1>. QED
  BY <1>1, PoolInvariant, PTL

(* A CAM application disseminates exactly while it runs with a vehicle,    *)
(* and under that vehicle's station id.                                    *)
THEOREM PoolOnAirExactly == Spec => []OnAirExactly
<1>1. PoolInv => OnAirExactly
  BY DEF PoolInv
<1>. QED
  BY <1>1, PoolInvariant, PTL

-----------------------------------------------------------------------------
(* Refinement: what is on the air, in terms of the maps *)
Voice == [n \in Nodes |-> IF disseminating[n] THEN stationId[n] ELSE NoVehicle]

(* In a state that satisfies the invariant, a UE speaks for a vehicle only *)
(* if the vehicle sits on it; so two UEs never speak for the same one.     *)
LEMMA VoiceIsOccupant ==
  ASSUME PoolInv, NEW n \in Nodes, Voice[n] # NoVehicle
  PROVE  /\ disseminating[n]
         /\ Voice[n] \in Vehicles
         /\ nodeIdToVehicleId[n] = Voice[n]
         /\ vehicleIdToNodeId[Voice[n]] = n
<1> USE PoolAssumption
<1>1. disseminating[n] /\ Voice[n] = stationId[n]
  BY DEF Voice
<1>2. appsCreated
  BY <1>1 DEF PoolInv, OnAirExactly, AppsIdleBeforeCreation
<1>3. nodeIdToVehicleId[n] = Voice[n] /\ Voice[n] \in Vehicles
  BY <1>1, <1>2 DEF PoolInv, TypeOK, OnAirExactly, LayersAgree
<1>. QED
  BY <1>1, <1>3 DEF PoolInv, MappingsInverse

(* Taking a node off the air is a stutter or a StopCam step of CamAir. *)
LEMMA SilenceIsAirStep ==
  ASSUME PoolInv, NEW n \in Nodes,
         Voice' = [Voice EXCEPT ![n] = NoVehicle]
  PROVE  [Air!Next]_(Voice)
<1>1. CASE Voice[n] = NoVehicle
  <2>1. Voice' = Voice
    BY <1>1 DEF Voice
  <2>. QED
    BY <2>1
<1>2. CASE Voice[n] # NoVehicle
  BY <1>2 DEF Air!Next, Air!StopCam, Voice
<1>. QED
  BY <1>1, <1>2

(* Putting a vehicle on the air at its own node is a StartCam step. *)
LEMMA SpeakIsAirStep ==
  ASSUME PoolInv, NEW n \in Nodes, NEW v \in Vehicles,
         Voice[n] = NoVehicle,
         \A m \in Nodes : Voice[m] # v,
         Voice' = [Voice EXCEPT ![n] = v]
  PROVE  [Air!Next]_(Voice)
  BY DEF Air!Next, Air!StartCam, Voice

LEMMA NextImplementsAir == PoolInv /\ PoolInv' /\ [Next]_vars => [Air!Next]_(Voice)
<1> SUFFICES ASSUME PoolInv, PoolInv', [Next]_vars PROVE [Air!Next]_(Voice)
  OBVIOUS
<1> USE PoolAssumption
<1>0. ASSUME UNCHANGED <<disseminating, stationId>> PROVE [Air!Next]_(Voice)
  BY <1>0 DEF Voice
<1>1. CASE UNCHANGED vars
  BY <1>0, <1>1 DEF vars, appVars
<1>2. ASSUME NEW v \in Vehicles, AssignVehicleToPool(v)
      PROVE  [Air!Next]_(Voice)
  <2>1. CASE Abort("already assigned") \/ Abort("pool exhausted")
    BY <1>0, <2>1 DEF Abort, appVars
  <2>2. CASE vehicleIdToNodeId[v] = NoNode /\ freePoolNodeIds # <<>>
             /\ AssignToFrontNode(v)
    <3> DEFINE n == Head(freePoolNodeIds)
    <3>1. n \in Nodes /\ nodeIdToVehicleId[n] = NoVehicle
      <4>1. 1 \in DOMAIN freePoolNodeIds /\ freePoolNodeIds[1] = n /\ n \in Nodes
        BY <2>2 DEF PoolInv, TypeOK
      <4>. QED
        BY <4>1 DEF PoolInv, FreeListExact
    <3>2. Voice[n] = NoVehicle /\ \A m \in Nodes : Voice[m] # v
      BY <2>2, <3>1, VoiceIsOccupant
    <3>3. CASE appsCreated /\ appState[n] = "running"
      <4>1. Voice' = [Voice EXCEPT ![n] = v]
        <5>1. /\ stationId' = [stationId EXCEPT ![n] = v]
              /\ disseminating' = [disseminating EXCEPT ![n] = TRUE]
          BY <2>2, <3>3, Zenon DEF AssignToFrontNode, AppAssignVehicle
        <5>2. /\ stationId \in [Nodes -> Vehicles \cup {NoVehicle}]
              /\ disseminating \in [Nodes -> BOOLEAN]
          BY DEF PoolInv, TypeOK
        <5> HIDE DEF n
        <5>3. /\ stationId'[n] = v
              /\ disseminating'[n] = TRUE
              /\ \A m \in Nodes \ {n} : /\ stationId'[m] = stationId[m]
                                       /\ disseminating'[m] = disseminating[m]
          BY <3>1, <5>1, <5>2, Zenon
        <5>. QED
          BY <3>1, <5>3 DEF Voice
      <4>. QED
        BY <3>1, <3>2, <4>1, SpeakIsAirStep
    <3>4. CASE ~(appsCreated /\ appState[n] = "running")
      BY <1>0, <2>2, <3>4 DEF AssignToFrontNode, AppAssignVehicle
    <3>. QED
      BY <3>3, <3>4
  <2>. QED
    BY <1>2, <2>1, <2>2 DEF AssignVehicleToPool
<1>3. ASSUME NEW v \in Vehicles, ReleaseVehicleFromPool(v)
      PROVE  [Air!Next]_(Voice)
  <2>1. CASE UNCHANGED vars
    BY <1>0, <2>1 DEF vars, appVars
  <2>2. CASE vehicleIdToNodeId[v] # NoNode /\ ReturnNode(v)
    <3> DEFINE n == vehicleIdToNodeId[v]
    <3>1. n \in Nodes
      BY <2>2 DEF PoolInv, TypeOK
    <3>2. Voice' = [Voice EXCEPT ![n] = NoVehicle]
      BY <2>2, <3>1
         DEF ReturnNode, AppReleaseVehicle, Voice, PoolInv, TypeOK
    <3>. QED
      BY <3>1, <3>2, SilenceIsAirStep
  <2>. QED
    BY <1>3, <2>1, <2>2 DEF ReleaseVehicleFromPool
<1>4. CASE CreateApplications
  BY <1>0, <1>4 DEF CreateApplications
<1>5. ASSUME NEW n \in Nodes, StartApplication(n) PROVE [Air!Next]_(Voice)
  <2>1. Voice[n] = NoVehicle
    BY <1>5 DEF StartApplication, Voice, PoolInv, OnAirExactly
  <2>2. CASE assignedVehicleId[n] = NoVehicle
    <3>1. Voice' = [Voice EXCEPT ![n] = NoVehicle]
      BY <1>5, <2>2 DEF StartApplication, Voice, PoolInv, TypeOK
    <3>. QED
      BY <3>1, SilenceIsAirStep
  <2>3. CASE assignedVehicleId[n] # NoVehicle
    <3> DEFINE v == assignedVehicleId[n]
    <3>1. v \in Vehicles /\ nodeIdToVehicleId[n] = v
      BY <1>5, <2>3 DEF StartApplication, PoolInv, TypeOK, LayersAgree
    <3>2. \A m \in Nodes : Voice[m] # v
      <4>1. vehicleIdToNodeId[v] = n
        BY <3>1 DEF PoolInv, MappingsInverse
      <4>. QED
        BY <2>1, <3>1, <4>1, VoiceIsOccupant
    <3>3. Voice' = [Voice EXCEPT ![n] = v]
      BY <1>5, <2>3 DEF StartApplication, Voice, PoolInv, TypeOK
    <3>. QED
      BY <2>1, <3>1, <3>2, <3>3, SpeakIsAirStep
  <2>. QED
    BY <2>2, <2>3
<1>6. ASSUME NEW n \in Nodes, StopApplication(n) PROVE [Air!Next]_(Voice)
  <2>1. Voice' = [Voice EXCEPT ![n] = NoVehicle]
    BY <1>6 DEF StopApplication, Voice, PoolInv, TypeOK
  <2>. QED
    BY <2>1, SilenceIsAirStep
<1>. QED
  BY <1>1, <1>2, <1>3, <1>4, <1>5, <1>6 DEF Next

(* The pool implements CamAir: a station speaks for one vehicle from the   *)
(* moment it goes on the air until it goes off, and no vehicle speaks      *)
(* through two stations.                                                   *)
THEOREM PoolImplementsCamAir == Spec => AirSpec
<1>1. Init => Air!Init
  BY DEF Init, Air!Init
<1>2. PoolInv /\ PoolInv' /\ [Next]_vars
      => [Air!Next]_([n \in Nodes |-> IF disseminating[n] THEN stationId[n]
                                      ELSE NoVehicle])
  BY NextImplementsAir DEF Voice
<1>. QED
  BY <1>1, <1>2, PoolInvariant, PTL DEF Spec, AirSpec, Air!Spec
=============================================================================
