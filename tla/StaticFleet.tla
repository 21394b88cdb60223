---------------------------- MODULE StaticFleet -----------------------------
(***************************************************************************)
(* The two ways in which a UE moves.  With dynamicActivePool the UE is     *)
(* the one of VehicleData.  Without it the UE belongs to one vehicle for   *)
(* good: main turns the track into the waypoints of an ns-3                *)
(* WaypointMobilityModel, parks the UE before and after it, and gives the  *)
(* CAM application the window in which the vehicle is there.               *)
(*                                                                         *)
(* The waypoint model computes lazily: it keeps the position as of the     *)
(* last question, and DoGetVelocity returns what the last Update left      *)
(* without calling Update.  The column val of a row is its position here,  *)
(* and the epsilon of a microsecond next to a track is a tick.  The pool's *)
(* mobility model does not exist in the static mode: its cursor stays.     *)
(***************************************************************************)
EXTENDS VehicleData

CONSTANTS
  Parking,         \* GetInactiveParkingPosition of the UE
  SimTimes         \* values of the option simTimeSeconds

(* Where the code has doubles the model has integers, on a grid that the   *)
(* slopes of tracks stay on.                                               *)
ASSUME FleetAssumption ==
  /\ Parking \in {4 * k : k \in -10..10}
  /\ SimTimes \subseteq 0..MaxTime
  /\ \A s, t \in RowTimes, x, y \in Speeds : s < t => (y - x) % (t - s) = 0

VARIABLES
  dynamic,         \* dynamicActivePool
  simTime,         \* simTimeSeconds
  mob,             \* m_current, m_next, m_waypoints and m_velocity
  app,             \* the CAM application: "created", "running", "stopped"
  aborted          \* NS_ABORT or NS_ASSERT ended the program

staticVars == <<dynamic, simTime, mob, app, aborted>>
fleetVars == <<vars, staticVars>>

First == Track[1].time
Last == Track[Len(Track)].time
Waypoint(t, x) == [time |-> t, x |-> x]

-----------------------------------------------------------------------------
(* Start-up *)

(* Mutant: one waypoint keeps the UE parked, at time 0 only. *)
InstallWaypointMobility_OnePark(track) ==
  (IF track[1].time > 0 THEN <<Waypoint(0, Parking)>> ELSE <<>>)
  \o [i \in DOMAIN track |-> Waypoint(track[i].time, track[i].val)]
  \o <<Waypoint(track[Len(track)].time + 1, Parking)>>

(* Mutant: the UE is parked up to the first row itself. *)
InstallWaypointMobility_NoEps(track) ==
  (IF track[1].time > 0
   THEN <<Waypoint(0, Parking), Waypoint(track[1].time, Parking)>> ELSE <<>>)
  \o [i \in DOMAIN track |-> Waypoint(track[i].time, track[i].val)]
  \o <<Waypoint(track[Len(track)].time + 1, Parking)>>

(* The waypoints of InstallWaypointMobility, in the order of its calls *)
InstallWaypointMobility(track) ==
  (IF track[1].time > 0 THEN <<Waypoint(0, Parking)>> ELSE <<>>)
  \o (IF track[1].time > 1 THEN <<Waypoint(track[1].time - 1, Parking)>>
      ELSE <<>>)
  \o [i \in DOMAIN track |-> Waypoint(track[i].time, track[i].val)]
  \o <<Waypoint(track[Len(track)].time + 1, Parking)>>

(* AddWaypoint does not compare the second waypoint with the first, which  *)
(* it keeps outside of the queue.                                          *)
AddWaypointAborts(ws) == \E i \in 3..Len(ws) : ws[i - 1].time >= ws[i].time

(* The model after AddWaypoint of each *)
AddWaypoints(ws) ==
  [cur |-> ws[1], next |-> ws[1], queue |-> Tail(ws), vel |-> 0]

(* The window in which the application of the vehicle runs *)
WindowStart == Max({AppStart, First})
WindowStop == Min({simTime, Last})
HasWindow == WindowStop > WindowStart

(* Without a window neither time is set, and an ns-3 application with      *)
(* default times starts at 0 and is never stopped.                         *)
StartTime == IF HasWindow THEN WindowStart ELSE 0

(* Mutant: the application runs until the vehicle is parked again. *)
StopDue_AfterParking ==
  app = "running" /\ HasWindow /\ now = Min({simTime, Last + 1})

StartDue == app = "created" /\ now = StartTime
StopDue == app = "running" /\ HasWindow /\ now = WindowStop

FleetInit ==
  /\ Init
  /\ dynamic = TRUE
  /\ simTime = MaxTime
  /\ mob = AddWaypoints(<<Waypoint(0, Parking)>>)
  /\ app = "created"
  /\ aborted = FALSE

(* One UE per vehicle.  Every vehicle has the track of this UE's. *)
StaticInit ==
  /\ \E t \in Tracks : rows = [v \in Vehicles |-> t]
  /\ now = 0 /\ lastIndex = 1 /\ vdp = NoVdp
  /\ vehicle \in Vehicles
  /\ dynamic = FALSE
  /\ simTime \in SimTimes
  /\ LET ws == InstallWaypointMobility(Track)
     IN  mob = AddWaypoints(ws) /\ aborted = AddWaypointAborts(ws)
  /\ app = "created"

-----------------------------------------------------------------------------
(* WaypointMobilityModel::Update *)

Pending(m) == <<m.next>> \o m.queue
Due(m) == {i \in DOMAIN Pending(m) : Pending(m)[i].time <= now}

(* NS_ASSERT(t_span > 0), for every waypoint that Update passes *)
SpanPositive(m) ==
  \A i \in Due(m) : i < Len(Pending(m)) =>
    Pending(m)[i + 1].time > Pending(m)[i].time

Slope(a, b) == (b.x - a.x) \div (b.time - a.time)

Move(m) ==
  [m EXCEPT !.cur = Waypoint(now, m.cur.x + m.vel * (now - m.cur.time))]

(* m_next becomes the last waypoint due, then the one after it. *)
PassWaypoints(m) ==
  LET p == Pending(m)
      n == Max(Due(m))
  IN  [cur |-> p[n], next |-> p[n + 1], queue |-> SubSeq(p, n + 2, Len(p)),
       vel |-> Slope(p[n], p[n + 1])]

(* After the last waypoint: m_next.time = -1 so that this happens once *)
Arrive(m) ==
  LET x == Pending(m)[Len(Pending(m))].x
  IN  [cur |-> Waypoint(now, x), next |-> Waypoint(-1, x), queue |-> <<>>,
       vel |-> 0]

Updated(m) ==
  CASE now < m.cur.time             -> m
    [] Due(m) = {}                  -> Move(m)
    [] Due(m) = DOMAIN Pending(m)   -> Arrive(m)
    [] OTHER                        -> Move(PassWaypoints(m))

Update ==
  IF SpanPositive(mob)
  THEN mob' = Updated(mob) /\ UNCHANGED aborted
  ELSE aborted' = TRUE /\ UNCHANGED mob

(* AddWaypoint schedules an Update for each waypoint, before any other     *)
(* event of that instant exists.                                           *)
UpdateDue == mob.next.time = now

-----------------------------------------------------------------------------
(* Events of the static fleet *)

ScheduledUpdate ==
  /\ UpdateDue
  /\ Update
  /\ UNCHANGED <<vars, dynamic, simTime, app>>

(* DoGetPosition, for the channel model of any UE, between two events *)
DoGetPosition ==
  /\ ~UpdateDue
  /\ Update
  /\ UNCHANGED <<vars, dynamic, simTime, app>>

Abs(v) == IF v < 0 THEN -v ELSE v     \* getSpeedValue of a velocity

(* StartApplication creates the data provider, which asks for the          *)
(* position, then for the velocity.                                        *)
StartStaticApplication ==
  /\ ~UpdateDue /\ StartDue
  /\ app' = "running"
  /\ Update
  /\ vdp' = [started |-> TRUE, lastSpeed |-> Abs(mob'.vel), lastTime |-> now,
             lastOf |-> vehicle]
  /\ UNCHANGED <<rows, now, vehicle, lastIndex, dynamic, simTime>>

(* StopApplication, scheduled before any CAM of the instant *)
StopStaticApplication ==
  /\ ~UpdateDue /\ StopDue
  /\ app' = "stopped"
  /\ UNCHANGED <<vars, dynamic, simTime, mob, aborted>>

(* A CAM may be generated: the application is on air and no event that     *)
(* precedes its check is due.                                              *)
OnAir == app = "running" /\ ~UpdateDue /\ ~StopDue

(* getCAMMandatoryData asks for the position, then for the velocity. *)
SendCam ==
  /\ OnAir
  /\ Update
  /\ vdp' = [vdp EXCEPT !.lastSpeed = Abs(mob'.vel), !.lastTime = now]
  /\ UNCHANGED <<rows, now, vehicle, lastIndex, dynamic, simTime, app>>

StaticTick ==
  /\ ~UpdateDue /\ ~StartDue /\ ~StopDue
  /\ now < simTime
  /\ now' = now + 1
  /\ UNCHANGED <<rows, vehicle, lastIndex, vdp, staticVars>>

StaticNext ==
  \/ ScheduledUpdate
  \/ DoGetPosition
  \/ StartStaticApplication
  \/ StopStaticApplication
  \/ SendCam
  \/ StaticTick

FleetNext ==
  \/ dynamic /\ Next /\ UNCHANGED staticVars
  \/ ~dynamic /\ ~aborted /\ StaticNext

FleetSpec == (FleetInit \/ StaticInit) /\ [][FleetNext]_fleetVars

-----------------------------------------------------------------------------
(* Properties of the static fleet *)

Static == ~dynamic /\ ~aborted

(* The pool's cursor stays on its track (TypeOK of VehicleData), and the   *)
(* waypoint model keeps its parts in order: the position is not of         *)
(* the future, and a waypoint still to come is not of the past once the    *)
(* Update of this instant has run.                                         *)
FleetTypeOK ==
  /\ TypeOK
  /\ app \in {"created", "running", "stopped"}
  /\ Static =>
       /\ mob.cur.time \in 0..now
       /\ ~UpdateDue => \A i \in DOMAIN mob.queue : mob.queue[i].time > now

(* IsNodeActiveAtTime without the pool *)
IsNodeActive == First <= now /\ now <= Last

(* The place where the vehicle is, from its rows alone *)
PlaceOfTrack == IF IsNodeActive THEN ValueOfTrack(vehicle, now) ELSE Parking

(* Whoever asks for the position, and whoever asked before, gets the place *)
(* on the track while the vehicle is counted as active, and the parking    *)
(* place otherwise: a UE that counts as a receiver is never the parked one.*)
PlacedOnTrack == Static => Updated(mob).cur.x = PlaceOfTrack

(* The velocity is read without an Update when only speed or heading are   *)
(* asked for, and it is never stale: within the window of the application  *)
(* it is the slope of the track after this instant, not the one before     *)
(* and not that of the jump to the parking place.  In particular such an   *)
(* application sends only while its vehicle is on its track.               *)
CamVelocityOfTrack ==
  Static /\ OnAir /\ HasWindow =>
    \E i \in 1..(Len(Track) - 1) :
      /\ Track[i].time <= now /\ now < Track[i + 1].time
      /\ mob.vel * (Track[i + 1].time - Track[i].time)
           = Track[i + 1].val - Track[i].val

(* Start-up accepts every track whose row times ascend, and no such track  *)
(* ever trips the assertion in Update.                                     *)
AscendingTracksRun ==
  ~dynamic /\ (\A i \in 2..Len(Track) : Track[i - 1].time < Track[i].time)
    => ~aborted
=============================================================================
