------------------------------- MODULE UePool -------------------------------
(***************************************************************************)
(* The dynamic pool of physical UEs and the life cycle of the CAM          *)
(* application that runs on each of them.                                  *)
(*                                                                         *)
(* The closed-loop program creates a fixed set of ns-3 nodes and lends     *)
(* each of them to one logical NGSIM vehicle at a time.  One loan is       *)
(* recorded five times: in the two global maps, in the set of active       *)
(* vehicles, in the mobility model of the node and in its CAM application. *)
(* AssignVehicleToPool and ReleaseVehicleFromPool update all five; ns-3    *)
(* starts and stops the applications independently of them.                *)
(*                                                                         *)
(* This module has every operation and no schedule: assignments, releases, *)
(* starts and stops come in any order.  PoolSchedule adds the times at     *)
(* which main() lets them happen.                                          *)
(***************************************************************************)
EXTENDS Naturals, Sequences, FiniteSets

CONSTANTS
  Vehicles,    \* logical NGSIM vehicle ids
  Nodes,       \* physical UE node ids
  NoVehicle,   \* kInvalidVehicleId
  NoNode       \* "not found" for a lookup of a node id

ASSUME PoolAssumption == /\ IsFiniteSet(Nodes)
                         /\ NoVehicle \notin Vehicles
                         /\ NoNode \notin Nodes

VARIABLES
  vehicleIdToNodeId,   \* g_vehicleIdToNodeId, NoNode where the key is absent
  nodeIdToVehicleId,   \* g_nodeIdToVehicleId, NoVehicle where it is absent
  activeVehicleIds,    \* g_activeVehicleIds
  freePoolNodeIds,     \* g_freePoolNodeIds, a deque
  mobility             \* track held by the node's NgsimPoolMobilityModel

VARIABLES
  appsCreated,         \* main() has filled g_apps
  appState,            \* m_running, and whether ns-3 may still start the app
  assignedVehicleId,   \* CamApplication::m_assignedVehicleId
  disseminating,       \* CamApplication::m_disseminating
  stationId            \* station id of the CABasicService; NoVehicle stands
                       \* for the node's own id (or none set yet)

VARIABLE status        \* "ok", or the NS_ABORT that ended the process

poolVars == <<vehicleIdToNodeId, nodeIdToVehicleId, activeVehicleIds,
              freePoolNodeIds, mobility>>
appVars  == <<appsCreated, appState, assignedVehicleId, disseminating,
              stationId>>
vars     == <<poolVars, appVars, status>>

AppStates == {"idle", "running", "stopped"}
Aborts    == {"already assigned", "pool exhausted"}

TypeOK ==
  /\ vehicleIdToNodeId \in [Vehicles -> Nodes \cup {NoNode}]
  /\ nodeIdToVehicleId \in [Nodes -> Vehicles \cup {NoVehicle}]
  /\ activeVehicleIds \in SUBSET Vehicles
  /\ freePoolNodeIds \in Seq(Nodes)
  /\ mobility \in [Nodes -> Vehicles \cup {NoVehicle}]
  /\ appsCreated \in BOOLEAN
  /\ appState \in [Nodes -> AppStates]
  /\ assignedVehicleId \in [Nodes -> Vehicles \cup {NoVehicle}]
  /\ disseminating \in [Nodes -> BOOLEAN]
  /\ stationId \in [Nodes -> Vehicles \cup {NoVehicle}]
  /\ status \in {"ok"} \cup Aborts

-----------------------------------------------------------------------------
(* Lookups *)

ResolveVehicleIdForNode(n) == nodeIdToVehicleId[n]
ResolveNodeIdForVehicle(v) == vehicleIdToNodeId[v]
IsNodeAssignedToVehicle(n, v) == ResolveVehicleIdForNode(n) = v
IsNodeActive(n) == ResolveVehicleIdForNode(n) # NoVehicle

-----------------------------------------------------------------------------
(* main(): every node is parked and enters the free list in creation order *)
Init ==
  /\ vehicleIdToNodeId = [v \in Vehicles |-> NoNode]
  /\ nodeIdToVehicleId = [n \in Nodes |-> NoVehicle]
  /\ activeVehicleIds = {}
  /\ freePoolNodeIds \in [1..Cardinality(Nodes) -> Nodes]
  /\ \A n \in Nodes : \E i \in DOMAIN freePoolNodeIds : freePoolNodeIds[i] = n
  /\ \A i, j \in DOMAIN freePoolNodeIds :
        freePoolNodeIds[i] = freePoolNodeIds[j] => i = j
  /\ mobility = [n \in Nodes |-> NoVehicle]
  /\ appsCreated = FALSE
  /\ appState = [n \in Nodes |-> "idle"]
  /\ assignedVehicleId = [n \in Nodes |-> NoVehicle]
  /\ disseminating = [n \in Nodes |-> FALSE]
  /\ stationId = [n \in Nodes |-> NoVehicle]
  /\ status = "ok"

Abort(reason) ==
  /\ status' = reason
  /\ UNCHANGED <<poolVars, appVars>>

(* CamApplication::AssignVehicle: a running application takes over the     *)
(* station id and starts dissemination unless it is already disseminating. *)
AppAssignVehicle(n, v) ==
  /\ assignedVehicleId' = [assignedVehicleId EXCEPT ![n] = v]
  /\ IF appState[n] = "running"
     THEN /\ stationId' = [stationId EXCEPT ![n] = v]
          /\ disseminating' = [disseminating EXCEPT ![n] = TRUE]
     ELSE UNCHANGED <<stationId, disseminating>>

(* Mutant: the application only forgets the id. *)
AppReleaseVehicle_KeepsTalking(n) ==
  /\ assignedVehicleId' = [assignedVehicleId EXCEPT ![n] = NoVehicle]
  /\ UNCHANGED <<disseminating, stationId>>

(* CamApplication::ReleaseVehicle: dissemination stops before the id goes. *)
AppReleaseVehicle(n) ==
  /\ disseminating' = [disseminating EXCEPT ![n] = FALSE]
  /\ assignedVehicleId' = [assignedVehicleId EXCEPT ![n] = NoVehicle]
  /\ stationId' = IF appState[n] = "running"
                  THEN [stationId EXCEPT ![n] = NoVehicle]
                  ELSE stationId

(* Mutant: front() without pop_front(). *)
AssignToFrontNode_NoPop(v) ==
  LET n == Head(freePoolNodeIds)
  IN  /\ vehicleIdToNodeId' = [vehicleIdToNodeId EXCEPT ![v] = n]
      /\ nodeIdToVehicleId' = [nodeIdToVehicleId EXCEPT ![n] = v]
      /\ activeVehicleIds' = activeVehicleIds \cup {v}
      /\ mobility' = [mobility EXCEPT ![n] = v]
      /\ IF appsCreated
         THEN AppAssignVehicle(n, v)
         ELSE UNCHANGED <<assignedVehicleId, stationId, disseminating>>
      /\ UNCHANGED <<freePoolNodeIds, appsCreated, appState, status>>

AssignToFrontNode(v) ==
  LET n == Head(freePoolNodeIds)
  IN  /\ freePoolNodeIds' = Tail(freePoolNodeIds)
      /\ vehicleIdToNodeId' = [vehicleIdToNodeId EXCEPT ![v] = n]
      /\ nodeIdToVehicleId' = [nodeIdToVehicleId EXCEPT ![n] = v]
      /\ activeVehicleIds' = activeVehicleIds \cup {v}
      /\ mobility' = [mobility EXCEPT ![n] = v]
      /\ IF appsCreated
         THEN AppAssignVehicle(n, v)
         ELSE UNCHANGED <<assignedVehicleId, stationId, disseminating>>
      /\ UNCHANGED <<appsCreated, appState, status>>

AssignVehicleToPool(v) ==
  /\ status = "ok"
  /\ \/ /\ vehicleIdToNodeId[v] # NoNode
        /\ Abort("already assigned")
     \/ /\ vehicleIdToNodeId[v] = NoNode
        /\ freePoolNodeIds = <<>>
        /\ Abort("pool exhausted")
     \/ /\ vehicleIdToNodeId[v] = NoNode
        /\ freePoolNodeIds # <<>>
        /\ AssignToFrontNode(v)

(* Mutant: one of the two maps keeps the vehicle. *)
ReturnNode_KeepsReverseMap(v) ==
  LET n == vehicleIdToNodeId[v]
  IN  /\ AppReleaseVehicle(n)
      /\ mobility' = [mobility EXCEPT ![n] = NoVehicle]
      /\ vehicleIdToNodeId' = [vehicleIdToNodeId EXCEPT ![v] = NoNode]
      /\ activeVehicleIds' = activeVehicleIds \ {v}
      /\ freePoolNodeIds' = Append(freePoolNodeIds, n)
      /\ UNCHANGED <<nodeIdToVehicleId, appsCreated, appState, status>>

(* Mutant: the vehicle, not its node, is pushed on the free list. *)
ReturnNode_PushesVehicle(v) ==
  LET n == vehicleIdToNodeId[v]
  IN  /\ AppReleaseVehicle(n)
      /\ mobility' = [mobility EXCEPT ![n] = NoVehicle]
      /\ vehicleIdToNodeId' = [vehicleIdToNodeId EXCEPT ![v] = NoNode]
      /\ nodeIdToVehicleId' = [nodeIdToVehicleId EXCEPT ![n] = NoVehicle]
      /\ activeVehicleIds' = activeVehicleIds \ {v}
      /\ freePoolNodeIds' = Append(freePoolNodeIds, v)
      /\ UNCHANGED <<appsCreated, appState, status>>

(* Releases are only scheduled once g_apps holds every node (see Next). *)
ReturnNode(v) ==
  LET n == vehicleIdToNodeId[v]
  IN  /\ AppReleaseVehicle(n)
      /\ mobility' = [mobility EXCEPT ![n] = NoVehicle]
      /\ vehicleIdToNodeId' = [vehicleIdToNodeId EXCEPT ![v] = NoNode]
      /\ nodeIdToVehicleId' = [nodeIdToVehicleId EXCEPT ![n] = NoVehicle]
      /\ activeVehicleIds' = activeVehicleIds \ {v}
      /\ freePoolNodeIds' = Append(freePoolNodeIds, n)
      /\ UNCHANGED <<appsCreated, appState, status>>

ReleaseVehicleFromPool(v) ==
  /\ status = "ok"
  /\ \/ /\ vehicleIdToNodeId[v] = NoNode
        /\ UNCHANGED vars
     \/ /\ vehicleIdToNodeId[v] # NoNode
        /\ ReturnNode(v)

(* Mutant: the applications are not told about the initial vehicles. *)
CreateApplications_Forgets ==
  /\ status = "ok"
  /\ ~appsCreated
  /\ appsCreated' = TRUE
  /\ UNCHANGED <<poolVars, appState, assignedVehicleId, disseminating,
                 stationId, status>>

(* main(): one CAM application per node; it learns the vehicle that the    *)
(* node was given before the applications existed.                         *)
CreateApplications ==
  /\ status = "ok"
  /\ ~appsCreated
  /\ appsCreated' = TRUE
  /\ assignedVehicleId' = [n \in Nodes |-> ResolveVehicleIdForNode(n)]
  /\ UNCHANGED <<poolVars, appState, disseminating, stationId, status>>

(* Mutant: StartApplication without its final StartCamIfReady(). *)
StartApplication_Silent(n) ==
  /\ status = "ok"
  /\ appsCreated
  /\ appState[n] = "idle"
  /\ appState' = [appState EXCEPT ![n] = "running"]
  /\ stationId' = [stationId EXCEPT ![n] = assignedVehicleId[n]]
  /\ UNCHANGED <<poolVars, appsCreated, assignedVehicleId, disseminating,
                 status>>

(* CamApplication::StartApplication, run by ns-3 once per application *)
StartApplication(n) ==
  /\ status = "ok"
  /\ appsCreated
  /\ appState[n] = "idle"
  /\ appState' = [appState EXCEPT ![n] = "running"]
  /\ stationId' = [stationId EXCEPT ![n] = assignedVehicleId[n]]
  /\ disseminating' = [disseminating EXCEPT
                         ![n] = assignedVehicleId[n] # NoVehicle]
  /\ UNCHANGED <<poolVars, appsCreated, assignedVehicleId, status>>

(* CamApplication::StopApplication *)
StopApplication(n) ==
  /\ status = "ok"
  /\ appState[n] = "running"
  /\ appState' = [appState EXCEPT ![n] = "stopped"]
  /\ disseminating' = [disseminating EXCEPT ![n] = FALSE]
  /\ UNCHANGED <<poolVars, appsCreated, assignedVehicleId, stationId, status>>

Next ==
  \/ \E v \in Vehicles : AssignVehicleToPool(v)
  \/ \E v \in Vehicles : appsCreated /\ ReleaseVehicleFromPool(v)
  \/ CreateApplications
  \/ \E n \in Nodes : StartApplication(n) \/ StopApplication(n)

Spec == Init /\ [][Next]_vars

-----------------------------------------------------------------------------
(* Properties *)

(* The two global maps are inverse to each other: no node serves two       *)
(* vehicles and no vehicle sits on two nodes, whatever the order in which  *)
(* nodes are released and reused.                                          *)
MappingsInverse ==
  /\ \A v \in Vehicles, n \in Nodes :
        vehicleIdToNodeId[v] = n <=> nodeIdToVehicleId[n] = v
  /\ activeVehicleIds = {v \in Vehicles : vehicleIdToNodeId[v] # NoNode}

(* The free list holds each unassigned node exactly once, so a release     *)
(* never frees a node twice and no node is lost to the pool.               *)
FreeListExact ==
  /\ \A i, j \in DOMAIN freePoolNodeIds :
        freePoolNodeIds[i] = freePoolNodeIds[j] => i = j
  /\ \A n \in Nodes : (\E i \in DOMAIN freePoolNodeIds : freePoolNodeIds[i] = n)
                      <=> nodeIdToVehicleId[n] = NoVehicle

(* Mobility and application of a node always speak for the vehicle the     *)
(* global map names, also for the vehicles assigned before g_apps existed. *)
LayersAgree ==
  /\ mobility = nodeIdToVehicleId
  /\ appsCreated => assignedVehicleId = nodeIdToVehicleId

(* An application disseminates CAMs exactly while it is running with a     *)
(* vehicle, and signs them with that vehicle: no vehicle is silently off   *)
(* the air after a node changed hands, and no CAM leaves a parked node.    *)
OnAirExactly ==
  \A n \in Nodes :
    /\ disseminating[n] <=> /\ appState[n] = "running"
                            /\ assignedVehicleId[n] # NoVehicle
    /\ disseminating[n] => stationId[n] = assignedVehicleId[n]

(* What the pool promises to the radio side: UePool implements the         *)
(* abstract CamAir service in which a station is one vehicle's voice from  *)
(* the moment it goes on the air until it goes off again.                  *)
Air == INSTANCE CamAir WITH
         onAir <- [n \in Nodes |-> IF disseminating[n] THEN stationId[n]
                                   ELSE NoVehicle]
AirSpec == Air!Spec
=============================================================================
