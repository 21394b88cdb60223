---------------------------- MODULE PoolSchedule ----------------------------
(***************************************************************************)
(* The schedule that main() puts on the pool of UePool: the start-up check *)
(* of the pool size, the vehicles that are assigned before the simulation  *)
(* starts, and the ns-3 event queue with one assignment and one release    *)
(* per later vehicle and one start per CAM application.                    *)
(*                                                                         *)
(* Time is counted in ticks of kAssignmentEpsS.  Rows of the mobility file *)
(* lie on even ticks, so a release, one tick after the last row of its     *)
(* vehicle, lies strictly between two rows; nothing else of the real       *)
(* distances matters to the order of events.                               *)
(***************************************************************************)
EXTENDS UePool, Integers, FiniteSetsExt, SequencesExt

CONSTANTS
  RowTimes,    \* the ticks at which the mobility file may have rows
  AppStart,    \* start of the CAM applications, 2.2 s in the program
  SimTime,     \* --simTime
  AllowGaps,   \* tracks may have holes (preprocess_ngsim.py writes none)
  MinRows      \* shortest track; preprocess_ngsim.py rejects short ones

Eps == 1       \* kAssignmentEpsS

ASSUME ScheduleAssumption ==
  /\ Vehicles \subseteq Nat
  /\ IsFiniteSet(Vehicles)
  /\ SimTime \in Nat
  /\ RowTimes \subseteq {2 * k : k \in 0..SimTime}
  /\ AllowGaps \in BOOLEAN
  /\ AppStart \in 1..SimTime
  /\ MinRows \in Nat \ {0}

VARIABLES
  rows,      \* g_mobilityByVehicle: the row times of every vehicle
  phase,     \* where main() is
  toAssign,  \* vehicles AssignInitialDynamicPoolVehicles has not looked at
  pending,   \* the simulator's event queue
  now        \* Simulator::Now()

schedVars == <<rows, phase, toAssign, pending, now>>
allVars   == <<vars, schedVars>>

-----------------------------------------------------------------------------
(* Mobility data *)

FirstRow(v) == Min(rows[v])
LastRow(v)  == Max(rows[v])

Contiguous(r) == \A t \in RowTimes : Min(r) <= t /\ t <= Max(r) => t \in r

(* The tracks that the mobility file may hold for one vehicle *)
Tracks == {r \in SUBSET RowTimes : /\ Cardinality(r) >= MinRows
                                   /\ AllowGaps \/ Contiguous(r)}

(* Mutant: the peak is looked up at the start of the file only. *)
PeakActive_AtStart == Cardinality({v \in Vehicles : 0 \in rows[v]})

(* The peak of ComputePeakActiveCountsForVehicles counts, for every row    *)
(* time, the vehicles with a row at exactly that time.                     *)
PeakActive ==
  Max({0} \cup {Cardinality({v \in Vehicles : t \in rows[v]}) : t \in RowTimes})

-----------------------------------------------------------------------------
(* The event queue: ns-3 runs events in the order of (time, uid).  main()  *)
(* schedules the pool events vehicle by vehicle; the applications schedule *)
(* their own starts when the nodes are initialised at time 0, later.       *)

Event(t, u, op, x) == [time |-> t, uid |-> u, op |-> op, arg |-> x]

AssignEvent(v)  == Event(FirstRow(v), 2 * v, "assign", v)
ReleaseEvent(v) == Event(LastRow(v) + Eps, 2 * v + 1, "release", v)

(* Mutant: the vehicle that appears with the last instant is left out. *)
AssignEvents_BeforeEnd ==
  {AssignEvent(v) :
     v \in {w \in Vehicles : FirstRow(w) > Eps /\ FirstRow(w) < SimTime}}

AssignEvents ==
  {AssignEvent(v) :
     v \in {w \in Vehicles : FirstRow(w) > Eps /\ FirstRow(w) <= SimTime}}

(* Mutant: the release comes at the last row itself. *)
ReleaseEvents_NoEps ==
  {Event(LastRow(v), 2 * v + 1, "release", v) :
     v \in {w \in Vehicles : LastRow(w) > 0 /\ LastRow(w) <= SimTime}}

(* Mutant: releases after simTime are scheduled too. *)
ReleaseEvents_PastEnd ==
  {ReleaseEvent(v) : v \in {w \in Vehicles : LastRow(w) + Eps > Eps}}

ReleaseEvents ==
  {ReleaseEvent(v) :
     v \in {w \in Vehicles : LastRow(w) + Eps > Eps /\ LastRow(w) + Eps <= SimTime}}

LastUid == 2 * Max(Vehicles) + 1

(* One start per application; the uids follow the order of the nodes. *)
StartEvents ==
  LET order == SetToSeq(Nodes)
  IN  {Event(AppStart, LastUid + 1 + i, "start", order[i]) :
         i \in 1..Len(order)}

Earlier(e, f) == \/ e.time < f.time
                 \/ e.time = f.time /\ e.uid < f.uid

Due(e) == \A f \in pending : f = e \/ Earlier(e, f)

-----------------------------------------------------------------------------
SchedInit ==
  /\ Init
  /\ rows \in [Vehicles -> Tracks]
  /\ phase = "check"
  /\ toAssign = Vehicles
  /\ pending = {}
  /\ now = 0

(* main(): the pool must be able to hold the peak of the data. *)
CheckPoolSize ==
  /\ phase = "check"
  /\ phase' = IF PeakActive > Cardinality(Nodes) THEN "rejected" ELSE "initial"
  /\ UNCHANGED <<vars, rows, toAssign, pending, now>>

(* One turn of the loop of AssignInitialDynamicPoolVehicles, which visits  *)
(* the vehicles in ascending order                                         *)
AssignInitial ==
  /\ phase = "initial"
  /\ status = "ok"
  /\ \E v \in toAssign :
       /\ \A w \in toAssign : v <= w
       /\ IF FirstRow(v) <= Eps /\ LastRow(v) + Eps >= 0
          THEN AssignVehicleToPool(v)
          ELSE UNCHANGED vars
       /\ toAssign' = toAssign \ {v}
  /\ UNCHANGED <<rows, phase, pending, now>>

(* The applications are created and ScheduleDynamicPoolAssignments runs;   *)
(* Simulator::Run() then initialises the nodes.                            *)
BuildAndRun ==
  /\ phase = "initial"
  /\ toAssign = {}
  /\ CreateApplications
  /\ pending' = AssignEvents \cup ReleaseEvents \cup StartEvents
  /\ phase' = "running"
  /\ UNCHANGED <<rows, toAssign, now>>

(* The simulator runs the next event of the queue. *)
RunEvent ==
  /\ phase = "running"
  /\ status = "ok"
  /\ \E e \in pending :
       /\ Due(e)
       /\ \/ e.op = "assign" /\ AssignVehicleToPool(e.arg)
          \/ e.op = "release" /\ ReleaseVehicleFromPool(e.arg)
          \/ e.op = "start" /\ StartApplication(e.arg)
       /\ pending' = pending \ {e}
       /\ now' = e.time
  /\ UNCHANGED <<rows, phase, toAssign>>

(* Simulator::Stop(simTime) was scheduled after the last pool event of     *)
(* simTime and before the stop events of the applications, which therefore *)
(* never run.                                                              *)
StopSimulation ==
  /\ phase = "running"
  /\ status = "ok"
  /\ pending = {}
  /\ phase' = "finished"
  /\ now' = SimTime
  /\ UNCHANGED <<vars, rows, toAssign, pending>>

SchedNext ==
  CheckPoolSize \/ AssignInitial \/ BuildAndRun \/ RunEvent \/ StopSimulation

SchedSpec == SchedInit /\ [][SchedNext]_allVars /\ WF_allVars(SchedNext)

-----------------------------------------------------------------------------
(* Properties *)

SchedTypeOK ==
  /\ rows \in [Vehicles -> Tracks]
  /\ phase \in {"check", "rejected", "initial", "running", "finished"}
  /\ toAssign \subseteq Vehicles
  /\ now \in 0..SimTime
  /\ \A e \in pending : now <= e.time /\ e.time <= SimTime

(* The start-up check is enough: a data set it accepts never exhausts the  *)
(* pool and never assigns a vehicle twice while the simulation runs, not   *)
(* even when one vehicle leaves at the very row at which another arrives.  *)
NoRuntimeAbort == status = "ok"

(* Whenever the simulator has run all events of an instant, the vehicles   *)
(* on the pool are those whose track covers that instant, and this stays   *)
(* true until the next event is due.                                       *)
ActiveFollowsTracks ==
  phase = "running" /\ (\A e \in pending : e.time > now) =>
    \A t \in now .. Min({SimTime} \cup {e.time - 1 : e \in pending}) :
      activeVehicleIds = {v \in Vehicles : FirstRow(v) <= t /\ t <= LastRow(v)}

(* Once the applications have started, each vehicle on the pool is on the  *)
(* air, whether its application started before or after it arrived.        *)
EveryActiveVehicleHeard ==
  phase \in {"running", "finished"} /\ (\A e \in pending : e.op # "start") =>
    \A v \in activeVehicleIds :
      /\ disseminating[vehicleIdToNodeId[v]]
      /\ stationId[vehicleIdToNodeId[v]] = v

(* Every vehicle of an accepted data set that appears before simTime is    *)
(* eventually put on the pool, and the simulation reaches its end.         *)
EveryVehicleServed ==
  /\ \A v \in Vehicles : phase = "initial" /\ FirstRow(v) <= SimTime
                         ~> v \in activeVehicleIds
  /\ <>(phase \in {"rejected", "finished"})
=============================================================================
