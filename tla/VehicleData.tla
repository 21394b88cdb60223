---------------------------- MODULE VehicleData -----------------------------
(***************************************************************************)
(* What one UE says about the motion of its vehicle: the mobility model    *)
(* that interpolates the track of the vehicle lent to the UE, with the     *)
(* cursor it keeps between queries, and the vehicle data provider that     *)
(* fills in the CAMs, with the speed and the time it remembers.            *)
(*                                                                         *)
(* The UE serves several vehicles one after the other, assigned and        *)
(* released when ScheduleDynamicPoolAssignments does it.  A tick is half   *)
(* an interval between rows of the mobility file; the microsecond after    *)
(* the last row at which a vehicle is released is stretched to a tick.     *)
(* Positions are interpolated by the same code as velocities, with the     *)
(* same cursor, so a row has one column val, here the speed; the road is   *)
(* straight and headings are left out.                                     *)
(***************************************************************************)
EXTENDS Integers, Sequences, FiniteSets, FiniteSetsExt

CONSTANTS
  Vehicles,        \* vehicles that this UE may serve
  NoVehicle,       \* kInvalidVehicleId
  RowTimes,        \* the ticks at which the mobility file may have rows
  Speeds,          \* speeds of rows, m/s
  MaxRows,         \* bound: rows of a track
  MaxTime,         \* bound: the clock stops here
  AppStart,        \* start time of the CAM application
  TicksPerSecond

ASSUME DataAssumption ==
  /\ NoVehicle \notin Vehicles
  /\ RowTimes \subseteq {2 * k : k \in 0..MaxTime}
  /\ Speeds \subseteq {4 * k : k \in 0..10}
  /\ MaxRows \in Nat \ {0} /\ MaxTime \in Nat /\ AppStart \in 0..MaxTime
  /\ TicksPerSecond \in Nat \ {0}

VARIABLES
  rows,            \* g_mobilityByVehicle, sorted by time
  now,             \* Simulator::Now()
  vehicle,         \* m_vehicleId of the mobility model; m_rows is its track
  lastIndex,       \* m_lastIndex, counted from 1
  vdp              \* the vehicle data provider, once the application started

vars == <<rows, now, vehicle, lastIndex, vdp>>

Track == rows[vehicle]
NoVdp == [started |-> FALSE]
Unavailable == 161   \* AccelerationValue_unavailable

(* Tracks that LoadMobilityCsv can produce: sorted, times may repeat *)
Tracks ==
  {t \in UNION {[1..k -> [time : RowTimes, val : Speeds]] : k \in 1..MaxRows} :
     \A i, j \in DOMAIN t : i <= j => t[i].time <= t[j].time}

-----------------------------------------------------------------------------
(* Interpolation with the cursor *)

(* Mutant: the cursor only moves back. *)
Seek_BackOnly(i, t) == Max({j \in 1..i : j = 1 \/ Track[j].time <= t})

(* The two loops that move m_lastIndex: forward over rows that are not     *)
(* later than t, then back over rows that are.                             *)
Seek(i, t) ==
  LET forward == Min({j \in i..Len(Track) :
                        j = Len(Track) \/ Track[j + 1].time > t})
  IN  Max({j \in 1..forward : j = 1 \/ Track[j].time <= t})

(* Interpolation between two rows, clamped to them *)
Between(a, b, t) ==
  IF b.time <= a.time THEN a.val
  ELSE a.val + ((Max({a.time, Min({b.time, t})}) - a.time)
                    * (b.val - a.val)) \div (b.time - a.time)

(* The ends of a track are answered without the cursor, which stays. *)
NextIndex ==
  IF \/ vehicle = NoVehicle
     \/ now <= Track[1].time
     \/ now >= Track[Len(Track)].time
  THEN lastIndex ELSE Seek(lastIndex, now)

(* InterpolateVelocity *)
Speed ==
  IF vehicle = NoVehicle THEN 0
  ELSE IF now <= Track[1].time THEN Track[1].val
  ELSE IF now >= Track[Len(Track)].time THEN Track[Len(Track)].val
  ELSE LET i == NextIndex
       IN  Between(Track[i], Track[Min({i + 1, Len(Track)})], now)

-----------------------------------------------------------------------------
Init ==
  /\ rows \in [Vehicles -> Tracks]
  /\ now = 0
  /\ vehicle = NoVehicle
  /\ lastIndex = 1
  /\ vdp = NoVdp

(* A data provider that exists is kept, whoever the UE now serves. *)
ConfigureVehicleServiceState == vdp' = vdp

(* AssignVehicle of the mobility model and of the application, at the      *)
(* first row of a vehicle                                                  *)
AssignVehicle(v) ==
  /\ vehicle = NoVehicle
  /\ now = rows[v][1].time
  /\ vehicle' = v
  /\ lastIndex' = 1
  /\ ConfigureVehicleServiceState
  /\ UNCHANGED <<rows, now>>

ReleaseDue == vehicle # NoVehicle /\ now > Track[Len(Track)].time

(* Mutant: the cursor survives the release. *)
ReleaseVehicle_KeepsCursor ==
  /\ ReleaseDue
  /\ vehicle' = NoVehicle
  /\ UNCHANGED <<rows, now, lastIndex, vdp>>

(* ReleaseVehicle of both, one tick after the last row *)
ReleaseVehicle ==
  /\ ReleaseDue
  /\ vehicle' = NoVehicle
  /\ lastIndex' = 1
  /\ ConfigureVehicleServiceState
  /\ UNCHANGED <<rows, now>>

(* DoGetVelocity for any user of the mobility model, at any time *)
DoGetVelocity ==
  /\ lastIndex' = NextIndex
  /\ UNCHANGED <<rows, now, vehicle, vdp>>

(* CamApplication::StartApplication creates the data provider.  The        *)
(* vehicle behind the remembered speed, lastOf, is a history component.    *)
StartApplication ==
  /\ vdp = NoVdp
  /\ now = AppStart
  /\ vdp' = [started |-> TRUE, lastSpeed |-> Speed, lastTime |-> now,
             lastOf |-> vehicle]
  /\ lastIndex' = NextIndex
  /\ UNCHANGED <<rows, now, vehicle>>

ClampToLong(x, low, high) == Max({low, Min({high, x})})

(* GetLongitudinalAccelerationValue *)
Acceleration ==
  IF now > vdp.lastTime
  THEN ClampToLong((Speed - vdp.lastSpeed) * 10, -160, 161) ELSE Unavailable

(* The CA basic service asks only while it disseminates for a vehicle. *)
Disseminating == vdp # NoVdp /\ vehicle # NoVehicle

(* getCAMMandatoryData, which returns Speed and Acceleration *)
GetCamMandatoryData ==
  /\ Disseminating
  /\ vdp' = [vdp EXCEPT !.lastSpeed = Speed, !.lastTime = now,
                        !.lastOf = vehicle]
  /\ lastIndex' = NextIndex
  /\ UNCHANGED <<rows, now, vehicle>>

Tick ==
  /\ now < MaxTime
  /\ ~ReleaseDue
  /\ ~(vdp = NoVdp /\ now = AppStart)
  /\ now' = now + 1
  /\ UNCHANGED <<rows, vehicle, lastIndex, vdp>>

Next ==
  \/ \E v \in Vehicles : AssignVehicle(v)
  \/ ReleaseVehicle
  \/ DoGetVelocity
  \/ StartApplication
  \/ GetCamMandatoryData
  \/ Tick

Spec == Init /\ [][Next]_vars

-----------------------------------------------------------------------------
(* Properties *)

(* The cursor never leaves the track it is used with, not even when a UE   *)
(* goes from a long track to a short one, and a UE without a vehicle has   *)
(* it at the start.                                                        *)
TypeOK ==
  /\ now \in 0..MaxTime
  /\ vehicle \in Vehicles \cup {NoVehicle}
  /\ lastIndex \in 1..(IF vehicle = NoVehicle THEN 1 ELSE Len(Track))
  /\ Disseminating => Acceleration \in -160..161

(* The value a track prescribes, without a cursor *)
ValueOfTrack(v, t) ==
  LET r  == rows[v]
      at == {i \in DOMAIN r : r[i].time <= t}
  IN  IF Max(at) = Len(r) THEN r[Len(r)].val
      ELSE Between(r[Max(at)], r[Max(at) + 1], t)

(* The cursor cannot be observed: whatever was asked before, of this       *)
(* vehicle or of an earlier one, and however long ago, the model answers   *)
(* with the speed that the track prescribes.                               *)
CursorInvisible ==
  vehicle # NoVehicle /\ now > Track[1].time =>
    Speed = ValueOfTrack(vehicle, now)

(* The acceleration of a CAM, in 0.1 m/s^2, is the difference between two  *)
(* speeds of the vehicle over the time between them, to within rounding,   *)
(* unless it is clamped or unavailable.                                    *)
AccelerationIsRate ==
  Disseminating /\ vdp.lastOf = vehicle /\ now > vdp.lastTime
    /\ Acceleration \in -159..160 =>
      LET dt    == now - vdp.lastTime
          error == Acceleration * dt
                     - 10 * (Speed - vdp.lastSpeed) * TicksPerSecond
      IN  error \in -dt..dt
=============================================================================
