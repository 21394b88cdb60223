------------------------- MODULE StaticFleetProofs --------------------------
(***************************************************************************)
(* Proofs about StaticFleet and the VehicleData below it.                  *)
(*                                                                         *)
(* A UE of the pool: the two loops that move the cursor end at the last    *)
(* row that is not later than now, wherever they start, as long as the     *)
(* cursor is on the track (DataInv).                                       *)
(*                                                                         *)
(* A UE of the static fleet: the state of the waypoint model is one of     *)
(* three (RouteInv).  It has not yet run its first Update; or it moves on  *)
(* a leg of the route, at a place of that leg as of an earlier time, and   *)
(* the leg has not ended before now; or it has arrived at the parking      *)
(* place.  All else about the lazy computation follows from that.          *)
(***************************************************************************)
EXTENDS StaticFleet, SequenceTheorems, FiniteSetTheorems, WellFoundedInduction, TLAPS

-----------------------------------------------------------------------------
(* The inductive invariant *)

(* The cursor is on the track of the vehicle. *)
DataInv ==
  /\ rows \in [Vehicles -> Tracks]
  /\ now \in Nat /\ now <= MaxTime
  /\ vehicle \in Vehicles \cup {NoVehicle}
  /\ lastIndex \in Nat /\ 1 <= lastIndex
  /\ lastIndex <= IF vehicle = NoVehicle THEN 1 ELSE Len(Track)

(* What the data provider remembers *)
VdpInv ==
  vdp = NoVdp \/ vdp \in [started : {TRUE}, lastSpeed : Int, lastTime : Nat,
                          lastOf : Vehicles \cup {NoVehicle}]

(* The application of a static UE and its window *)
AppInv ==
  /\ dynamic \in BOOLEAN /\ aborted \in BOOLEAN
  /\ app \in {"created", "running", "stopped"}
  /\ ~dynamic => /\ vehicle \in Vehicles
                 /\ simTime \in Nat /\ simTime <= MaxTime
                 /\ now <= simTime
                 /\ app = "running" => vdp # NoVdp
                 /\ app = "running" /\ HasWindow =>
                      WindowStart <= now /\ now <= WindowStop

(* The waypoint model m on route w at time t, before its first Update *)
AtStart(m, w, t) == m = AddWaypoints(w) /\ t = 0

(* The model on the leg that ends at the k-th waypoint, as of time c *)
OnLeg(w, k, c) ==
  [cur   |-> Waypoint(c, w[k - 1].x + Slope(w[k - 1], w[k]) * (c - w[k - 1].time)),
   next  |-> w[k],
   queue |-> SubSeq(w, k + 1, Len(w)),
   vel   |-> Slope(w[k - 1], w[k])]

(* ... between two waypoints *)
Underway(m, w, t, k) ==
  /\ w[k - 1].time < w[k].time
  /\ \E c \in Nat : /\ w[k - 1].time <= c /\ c <= t /\ t <= w[k].time
                   /\ m = OnLeg(w, k, c)

(* The model after the last waypoint, as of time c *)
Parked(c) ==
  [cur |-> Waypoint(c, Parking), next |-> Waypoint(-1, Parking),
   queue |-> <<>>, vel |-> 0]

(* ... after its last waypoint *)
Arrived(m, w, t) ==
  \E c \in Nat : w[Len(w)].time <= c /\ c <= t /\ m = Parked(c)

OnRoute(m, w, t) ==
  \/ AtStart(m, w, t)
  \/ \E k \in 2..Len(w) : Underway(m, w, t, k)
  \/ Arrived(m, w, t)

Route == InstallWaypointMobility(Track)

RouteInv ==
  Static =>
    /\ ~AddWaypointAborts(Route)
    /\ OnRoute(mob, Route, now)

FleetInv == DataInv /\ VdpInv /\ AppInv /\ RouteInv /\ AscendingTracksRun

-----------------------------------------------------------------------------
(* Least and greatest elements *)

LEMMA MinIsLeast ==
  ASSUME NEW S, S \subseteq Nat, S # {}
  PROVE  Min(S) \in S /\ \A y \in S : Min(S) <= y
<1>1. PICK m \in S : \A y \in S : ~(<<y, m>> \in OpToRel(<, Nat))
  BY NatLessThanWellFounded, WFMin, Zenon
<1>2. ASSUME NEW y \in S PROVE m <= y
  <2>1. <<y, m>> \in Nat \X Nat /\ <<y, m>>[1] = y /\ <<y, m>>[2] = m
    OBVIOUS
  <2>2. ~(y < m)
    BY <1>1, <2>1, Zenon DEF OpToRel
  <2>. QED
    BY <2>2
<1>3. \E x \in S : \A y \in S : x <= y
  BY <1>2
<1>. QED
  BY <1>3, Zenon DEF Min

LEMMA MaxIsGreatest ==
  ASSUME NEW N \in Nat, NEW S, S \subseteq 0..N, S # {}
  PROVE  Max(S) \in S /\ \A y \in S : Max(S) >= y
<1> DEFINE below == {k \in 0..N : N - k \in S}
<1>1. \A y \in S : y \in 0..N /\ N - y \in below
  OBVIOUS
<1>2. below \subseteq Nat /\ below # {}
  <2>1. PICK y \in S : TRUE
    OBVIOUS
  <2>2. N - y \in below
    BY <1>1
  <2>. QED
    BY <2>2
<1>3. PICK m : m \in below /\ \A k \in below : m <= k
  <2> HIDE DEF below
  <2>. QED
    BY <1>2, MinIsLeast
<1>4. N - m \in S /\ \A y \in S : N - m >= y
  <2>1. m \in 0..N /\ N - m \in S
    BY <1>3
  <2>2. ASSUME NEW y \in S PROVE N - m >= y
    <3>1. y \in 0..N /\ m <= N - y
      BY <1>1, <1>3
    <3>. QED
      BY <2>1, <3>1
  <2>. QED
    BY <2>1, <2>2
<1>5. \E x \in S : \A y \in S : x >= y
  BY <1>4
<1>. QED
  BY <1>5, Zenon DEF Max
LEMMA MaxOfTwo ==
  ASSUME NEW x \in Int, NEW y \in Int
  PROVE  Max({x, y}) \in Int /\ Max({x, y}) = IF x >= y THEN x ELSE y
<1>1. \E z \in {x, y} : \A w \in {x, y} : z >= w
  OBVIOUS
<1>2. Max({x, y}) \in {x, y} /\ \A w \in {x, y} : Max({x, y}) >= w
  BY <1>1, Zenon DEF Max
<1>. QED
  BY <1>2

LEMMA MinOfTwo ==
  ASSUME NEW x \in Int, NEW y \in Int
  PROVE  Min({x, y}) \in Int /\ Min({x, y}) = IF x <= y THEN x ELSE y
<1>1. \E z \in {x, y} : \A w \in {x, y} : z <= w
  OBVIOUS
<1>2. Min({x, y}) \in {x, y} /\ \A w \in {x, y} : Min({x, y}) <= w
  BY <1>1, Zenon DEF Min
<1>. QED
  BY <1>2

(* An element that no other exceeds is the greatest. *)
LEMMA MaxIs ==
  ASSUME NEW S, S \subseteq Int, NEW m \in S, \A y \in S : m >= y
  PROVE  Max(S) = m
<1>1. Max(S) \in S /\ \A y \in S : Max(S) >= y
  BY Zenon DEF Max
<1>2. Max(S) \in Int /\ m \in Int /\ Max(S) >= m /\ m >= Max(S)
  BY <1>1
<1>. QED
  BY <1>2

-----------------------------------------------------------------------------
(* Division on the grid *)

LEMMA DivisionExact ==
  ASSUME NEW n \in Int, NEW d \in Int, d > 0, n % d = 0
  PROVE  (n \div d) * d = n
OBVIOUS

LEMMA DivisionOfMultiple ==
  ASSUME NEW q \in Int, NEW d \in Int, d > 0, NEW k \in Int
  PROVE  (k * (q * d)) \div d = k * q
<1>1. k * (q * d) = (k * q) * d
  OBVIOUS
<1>2. \A z \in Int : (z * d) \div d = z
  OBVIOUS
<1>. QED
  BY <1>1, <1>2

-----------------------------------------------------------------------------
(* Tracks and the cursor *)

Row == [time : RowTimes, val : Speeds]

LEMMA GridFacts ==
  /\ RowTimes \subseteq Nat /\ Speeds \subseteq Nat /\ Parking \in Int
  /\ MaxTime \in Nat /\ AppStart \in Nat /\ SimTimes \subseteq 0..MaxTime
  /\ NoVehicle \notin Vehicles
<1>1. MaxTime \in Nat
  BY DataAssumption
<1>2. \A k \in 0..MaxTime : 2 * k \in Nat
  BY <1>1
<1>3. \A k \in 0..10 : 4 * k \in Nat
  OBVIOUS
<1>4. \A k \in -10..10 : 4 * k \in Int
  OBVIOUS
<1>. QED
  BY <1>1, <1>2, <1>3, <1>4, DataAssumption, FleetAssumption

LEMMA TrackFacts ==
  ASSUME NEW r \in Tracks
  PROVE  /\ r \in Seq(Row) /\ Len(r) \in Nat /\ Len(r) >= 1
         /\ DOMAIN r = 1..Len(r)
         /\ \A i \in 1..Len(r) : r[i] \in Row /\ r[i].time \in Nat /\ r[i].val \in Nat
         /\ \A i, j \in 1..Len(r) : i <= j => r[i].time <= r[j].time
<1>1. PICK k \in 1..MaxRows : r \in [1..k -> Row]
  BY DEF Tracks, Row
<1>2. MaxRows \in Nat /\ k \in Nat /\ k >= 1
  BY DataAssumption
<1>3. r \in Seq(Row) /\ Len(r) = k /\ DOMAIN r = 1..k
  BY <1>1, <1>2
<1>4. \A i \in 1..k : r[i] \in Row
  BY <1>1
<1>5. \A z \in Row : z.time \in Nat /\ z.val \in Nat
  BY GridFacts DEF Row
<1>6. \A i, j \in DOMAIN r : i <= j => r[i].time <= r[j].time
  BY DEF Tracks
<1>. QED
  BY <1>2, <1>3, <1>4, <1>5, <1>6

LEMMA BetweenIsInt ==
  ASSUME NEW a \in Row, NEW b \in Row, NEW t \in Int
  PROVE  Between(a, b, t) \in Int
<1>1. a.time \in Int /\ b.time \in Int /\ a.val \in Int /\ b.val \in Int
  <2>1. \A z \in Row : z.time \in Nat /\ z.val \in Nat
    BY GridFacts DEF Row
  <2>. QED
    BY <2>1
<1>2. Min({b.time, t}) \in Int
  BY <1>1, MinOfTwo
<1>3. Max({a.time, Min({b.time, t})}) \in Int
  BY <1>1, <1>2, MaxOfTwo
<1>4. ASSUME NEW u \in Int, NEW v \in Int, NEW w \in Int, NEW x \in Int, NEW d \in Int, d > 0
      PROVE  x + ((u - v) * w) \div d \in Int
  <2>1. (u - v) * w \in Int
    OBVIOUS
  <2>2. \A z \in Int : z \div d \in Int
    BY <1>4
  <2>. QED
    BY <2>1, <2>2
<1>5. ~(b.time <= a.time) => b.time - a.time > 0
  BY <1>1
<1>6. b.val - a.val \in Int /\ b.time - a.time \in Int
  BY <1>1
<1>. QED
  BY <1>1, <1>3, <1>4, <1>5, <1>6 DEF Between

(* Rows of a track up to a time *)
UpTo(r, t) == {i \in DOMAIN r : r[i].time <= t}

(* Both loops together find the last row that is not later than t, from    *)
(* wherever the cursor was.                                                *)
LEMMA SeekFindsRow ==
  ASSUME NEW i \in Nat, NEW t \in Nat, Track \in Tracks,
         1 <= i, i <= Len(Track), Track[1].time < t
  PROVE  Seek(i, t) = Max(UpTo(Track, t))
<1>1. PICK r : r = Track
  OBVIOUS
<1>2. PICK n \in Nat : n = Len(r) /\ n >= 1 /\ DOMAIN r = 1..n
  BY <1>1, TrackFacts
<1>3. /\ \A j \in 1..n : r[j].time \in Nat
      /\ \A j, k \in 1..n : j <= k => r[j].time <= r[k].time
  BY <1>1, <1>2, TrackFacts
<1>4. PICK S : S = {j \in i..n : j = n \/ r[j + 1].time > t}
  OBVIOUS
<1>5. S \subseteq Nat /\ n \in S
  BY <1>1, <1>2, <1>4
<1>6. PICK f : f = Min(S) /\ f \in S
  BY <1>5, MinIsLeast
<1>7. f \in 1..n /\ (f = n \/ r[f + 1].time > t)
  BY <1>2, <1>4, <1>6
<1>8. {j \in 1..f : j = 1 \/ r[j].time <= t} = UpTo(r, t)
  <2>1. ASSUME NEW j \in 1..f, j = 1 \/ r[j].time <= t
        PROVE  j \in 1..n /\ r[j].time <= t
    <3>1. j \in 1..n /\ r[1].time \in Nat /\ r[1].time <= t
      BY <1>1, <1>2, <1>3, <1>7
    <3>. QED
      BY <2>1, <3>1
  <2>2. ASSUME NEW j \in 1..n, r[j].time <= t PROVE j \in 1..f
    <3>1. SUFFICES ASSUME j > f PROVE FALSE
      BY <1>7
    <3>2. f # n /\ f + 1 \in 1..n /\ f + 1 <= j
      BY <1>7, <3>1
    <3>3. r[f + 1].time > t /\ r[f + 1].time <= r[j].time
      BY <1>3, <1>7, <3>2
    <3>. QED
      BY <1>3, <2>2, <3>2, <3>3
  <2>. QED
    BY <1>2, <2>1, <2>2 DEF UpTo
<1>9. Seek(i, t) = Max({j \in 1..f : j = 1 \/ r[j].time <= t})
  BY <1>1, <1>2, <1>4, <1>6 DEF Seek
<1>. QED
  BY <1>1, <1>8, <1>9

(* The last row that is not later than t *)
LEMMA LastRowUpTo ==
  ASSUME NEW r \in Tracks, NEW t \in Nat, r[1].time <= t
  PROVE  /\ Max(UpTo(r, t)) \in 1..Len(r)
         /\ r[Max(UpTo(r, t))].time <= t
         /\ \A j \in 1..Len(r) : j > Max(UpTo(r, t)) => t < r[j].time
<1>1. PICK n \in Nat : n = Len(r) /\ n >= 1 /\ DOMAIN r = 1..n
  BY TrackFacts
<1>2. PICK S : S = UpTo(r, t)
  OBVIOUS
<1>3. S \subseteq 0..n /\ 1 \in S /\ \A j : j \in S <=> j \in 1..n /\ r[j].time <= t
  BY <1>1, <1>2 DEF UpTo
<1>4. Max(S) \in S /\ \A y \in S : Max(S) >= y
  BY <1>3, MaxIsGreatest
<1>5. ASSUME NEW j \in 1..n, j > Max(S) PROVE t < r[j].time
  <2>1. r[j].time \in Nat
    BY <1>1, TrackFacts
  <2>2. j \notin S
    <3>1. Max(S) \in Nat
      BY <1>3, <1>4
    <3>. QED
      BY <1>4, <1>5, <3>1
  <2>. QED
    BY <1>3, <2>1, <2>2
<1>. QED
  BY <1>1, <1>2, <1>3, <1>4, <1>5

(* The cursor that a query leaves is on the track. *)
LEMMA NextIndexOnTrack ==
  ASSUME DataInv, vehicle # NoVehicle
  PROVE  NextIndex \in 1..Len(Track)
<1>1. Track \in Tracks /\ now \in Nat /\ lastIndex \in Nat /\ 1 <= lastIndex
      /\ lastIndex <= Len(Track)
  BY DEF DataInv, Track
<1>2. Len(Track) \in Nat /\ Len(Track) >= 1 /\ Track[1].time \in Nat
  BY <1>1, TrackFacts
<1>3. CASE now <= Track[1].time \/ now >= Track[Len(Track)].time
  BY <1>1, <1>2, <1>3 DEF NextIndex
<1>4. CASE ~(now <= Track[1].time \/ now >= Track[Len(Track)].time)
  <2>1. Track[1].time < now /\ Track[1].time <= now
    BY <1>1, <1>2, <1>4
  <2>2. NextIndex = Seek(lastIndex, now)
    BY <1>4 DEF NextIndex
  <2>3. Seek(lastIndex, now) = Max(UpTo(Track, now))
    BY <1>1, <2>1, SeekFindsRow
  <2>4. Max(UpTo(Track, now)) \in 1..Len(Track)
    BY <1>1, <2>1, LastRowUpTo
  <2>. QED
    BY <2>2, <2>3, <2>4
<1>. QED
  BY <1>3, <1>4

LEMMA SpeedIsInt == ASSUME DataInv PROVE Speed \in Int
<1>1. CASE vehicle = NoVehicle
  BY <1>1 DEF Speed
<1>2. CASE vehicle # NoVehicle
  <2>1. Track \in Tracks /\ now \in Int
    BY <1>2 DEF DataInv, Track
  <2>2. PICK n \in Nat : n = Len(Track) /\ n >= 1
    BY <2>1, TrackFacts
  <2>3. \A j \in 1..n : Track[j] \in Row /\ Track[j].val \in Int
    BY <2>1, <2>2, TrackFacts
  <2>4. PICK i \in 1..n : i = NextIndex
    BY <1>2, <2>2, NextIndexOnTrack
  <2>5. Min({i + 1, n}) \in 1..n
    <3>1. i + 1 \in Int /\ n \in Int
      OBVIOUS
    <3>2. Min({i + 1, n}) = IF i + 1 <= n THEN i + 1 ELSE n
      BY <3>1, MinOfTwo
    <3>. QED
      BY <2>2, <3>2
  <2>6. Between(Track[i], Track[Min({i + 1, n})], now) \in Int
    BY <2>1, <2>3, <2>5, BetweenIsInt
  <2>7. 1 \in 1..n /\ n \in 1..n
    BY <2>2
  <2>. QED
    BY <1>2, <2>2, <2>3, <2>4, <2>6, <2>7 DEF Speed
<1>. QED
  BY <1>1, <1>2

(* Whatever the cursor was, the track decides. *)
LEMMA CursorDoesNotMatter == ASSUME DataInv PROVE CursorInvisible
<1> SUFFICES ASSUME vehicle # NoVehicle, now > Track[1].time
             PROVE  Speed = ValueOfTrack(vehicle, now)
  BY DEF CursorInvisible
<1>1. PICK r \in Tracks : r = Track /\ r = rows[vehicle]
  BY DEF DataInv, Track
<1>2. PICK n \in Nat : n = Len(r) /\ n >= 1 /\ DOMAIN r = 1..n
  BY <1>1, TrackFacts
<1>3. now \in Nat /\ r[1].time \in Nat /\ r[n].time \in Nat /\ r[1].time < now /\ r[1].time <= now
      /\ ~(now <= r[1].time)
  <2>1. now \in Nat /\ r[1].time \in Nat /\ r[n].time \in Nat
    BY <1>2, TrackFacts DEF DataInv
  <2>. QED
    BY <1>1, <2>1
<1>4. PICK m : m = Max(UpTo(r, now))
  OBVIOUS
<1>5. m \in 1..n /\ r[m].time <= now /\ \A j \in 1..n : j > m => now < r[j].time
  BY <1>2, <1>3, <1>4, LastRowUpTo
<1>6. ValueOfTrack(vehicle, now) = IF m = n THEN r[n].val ELSE Between(r[m], r[m + 1], now)
  BY <1>1, <1>2, <1>4 DEF ValueOfTrack, UpTo
<1>7. CASE now >= r[n].time
  <2>1. m = n
    BY <1>2, <1>3, <1>5, <1>7
  <2>. QED
    BY <1>1, <1>2, <1>3, <1>6, <1>7, <2>1 DEF Speed
<1>8. CASE ~(now >= r[n].time)
  <2>1. m # n /\ m + 1 <= n
    BY <1>2, <1>3, <1>5, <1>8
  <2>2. NextIndex = m
    <3>1. NextIndex = Seek(lastIndex, now)
      BY <1>1, <1>2, <1>3, <1>8 DEF NextIndex
    <3>2. lastIndex \in Nat /\ 1 <= lastIndex /\ lastIndex <= Len(Track)
      BY DEF DataInv
    <3>3. Seek(lastIndex, now) = Max(UpTo(Track, now))
      BY <1>1, <1>3, <3>2, SeekFindsRow
    <3>. QED
      BY <1>1, <1>4, <3>1, <3>3
  <2>3. Min({m + 1, n}) = m + 1
    <3>1. m + 1 \in Int /\ n \in Int
      BY <1>5
    <3>. QED
      BY <2>1, <3>1, MinOfTwo
  <2>4. Speed = Between(r[m], r[m + 1], now)
    BY <1>1, <1>2, <1>3, <1>8, <2>2, <2>3 DEF Speed
  <2>. QED
    BY <1>6, <2>1, <2>4
<1>. QED
  BY <1>7, <1>8

-----------------------------------------------------------------------------
(* Routes *)

Stop == [time : Nat, x : Int]

(* w is the route of track r, with o waypoints at the parking place before *)
(* the rows.                                                               *)
RouteOf(w, r, o) ==
  /\ w \in Seq(Stop) /\ o \in 0..2 /\ Len(w) = o + Len(r) + 1
  /\ w[1].time = 0
  /\ o > 0 => w[1].time < w[2].time
  /\ \A i \in 1..o : w[i].x = Parking
  /\ o = 0 => r[1].time = 0
  /\ o > 0 => w[o].time = r[1].time - 1
  /\ \A i \in 1..Len(r) : w[o + i] = Waypoint(r[i].time, r[i].val)
  /\ w[Len(w)] = Waypoint(r[Len(r)].time + 1, Parking)

LEMMA StopFields ==
  ASSUME NEW t \in Nat, NEW x \in Int
  PROVE  Waypoint(t, x) \in Stop /\ Waypoint(t, x).time = t /\ Waypoint(t, x).x = x
BY DEF Waypoint, Stop

(* A prefix, a middle part and a last element *)
LEMMA ThreeParts ==
  ASSUME NEW T, NEW p \in Seq(T), NEW m \in Seq(T), NEW d \in T, NEW w,
         w = (p \o m) \o <<d>>
  PROVE  /\ w \in Seq(T) /\ Len(w) = Len(p) + Len(m) + 1
         /\ \A i \in 1..Len(p) : w[i] = p[i]
         /\ \A i \in 1..Len(m) : w[Len(p) + i] = m[i]
         /\ w[Len(w)] = d
<1>1. PICK a \in Nat, b \in Nat : a = Len(p) /\ b = Len(m)
  BY LenProperties
<1>2. PICK q : q = p \o m
  OBVIOUS
<1>3. /\ q \in Seq(T) /\ Len(q) = a + b
      /\ \A i \in 1..(a + b) : q[i] = IF i <= a THEN p[i] ELSE m[i - a]
  BY <1>1, <1>2, ConcatProperties
<1>4. /\ w \in Seq(T) /\ Len(w) = a + b + 1
      /\ \A i \in 1..(a + b + 1) : w[i] = IF i <= a + b THEN q[i] ELSE d
  <2>1. <<d>> \in Seq(T) /\ Len(<<d>>) = 1 /\ <<d>>[1] = d
    OBVIOUS
  <2>2. w = q \o <<d>>
    BY <1>2
  <2>3. /\ w \in Seq(T) /\ Len(w) = (a + b) + 1
        /\ \A i \in 1..((a + b) + 1) : w[i] = IF i <= a + b THEN q[i] ELSE <<d>>[i - (a + b)]
    <3>1. /\ q \o <<d>> \in Seq(T) /\ Len(q \o <<d>>) = Len(q) + Len(<<d>>)
          /\ \A i \in 1..(Len(q) + Len(<<d>>)) :
               (q \o <<d>>)[i] = IF i <= Len(q) THEN q[i] ELSE <<d>>[i - Len(q)]
      BY <1>3, <2>1, ConcatProperties, Zenon
    <3>. QED
      BY <1>3, <2>1, <2>2, <3>1
  <2>4. \A i \in 1..((a + b) + 1) : ~(i <= a + b) => i - (a + b) = 1
    OBVIOUS
  <2>. QED
    BY <2>1, <2>3, <2>4
<1>5. \A i \in 1..a : i \in 1..(a + b + 1) /\ i \in 1..(a + b) /\ i <= a + b
  OBVIOUS
<1>6. \A i \in 1..b : /\ a + i \in 1..(a + b + 1) /\ a + i \in 1..(a + b) /\ a + i <= a + b
                      /\ ~(a + i <= a) /\ (a + i) - a = i
  OBVIOUS
<1>7. a + b + 1 \in 1..(a + b + 1) /\ ~(a + b + 1 <= a + b)
  OBVIOUS
<1>8. \A i \in 1..b : w[a + i] = m[i]
  BY <1>3, <1>4, <1>6
<1>. QED
  BY <1>1, <1>3, <1>4, <1>5, <1>7, <1>8

(* InstallWaypointMobility makes a route. *)
LEMMA RouteExists ==
  ASSUME NEW r \in Tracks
  PROVE  \E o \in 0..2 : RouteOf(InstallWaypointMobility(r), r, o)
<1>1. PICK n \in Nat : n = Len(r) /\ n >= 1 /\ DOMAIN r = 1..n
  BY TrackFacts
<1>2. PICK f \in Nat : f = r[1].time
  BY <1>1, TrackFacts
<1>3. PICK p : p = (IF f > 0 THEN <<Waypoint(0, Parking)>> ELSE <<>>)
                     \o (IF f > 1 THEN <<Waypoint(f - 1, Parking)>> ELSE <<>>)
  OBVIOUS
<1>4. PICK m : m = [i \in DOMAIN r |-> Waypoint(r[i].time, r[i].val)]
  OBVIOUS
<1>5. PICK d : d = Waypoint(r[n].time + 1, Parking)
  OBVIOUS
<1>6. PICK w : w = InstallWaypointMobility(r)
  OBVIOUS
<1>7. w = (p \o m) \o <<d>>
  BY <1>1, <1>2, <1>3, <1>4, <1>5, <1>6 DEF InstallWaypointMobility
<1>8. Parking \in Int /\ \A i \in 1..n : r[i].time \in Nat /\ r[i].val \in Int
  BY <1>1, TrackFacts, GridFacts
<1>9. m \in Seq(Stop) /\ Len(m) = n /\ \A i \in 1..n : m[i] = Waypoint(r[i].time, r[i].val)
  <2>1. \A i \in 1..n : Waypoint(r[i].time, r[i].val) \in Stop
    BY <1>8, StopFields
  <2>2. m \in [1..n -> Stop]
    BY <1>1, <1>4, <2>1
  <2>3. m \in Seq(Stop) /\ Len(m) = n
    BY <2>2
  <2>. QED
    BY <1>1, <1>4, <2>3
<1>10. d \in Stop
  <2>1. r[n].time + 1 \in Nat
    BY <1>1, <1>8
  <2>. QED
    BY <1>5, <1>8, <2>1, StopFields
<1>11. PICK o \in 0..2 :
         /\ p \in Seq(Stop) /\ Len(p) = o /\ \A i \in 1..o : p[i].x = Parking
         /\ o = 0 => f = 0
         /\ o > 0 => p[1].time = 0 /\ p[o].time = f - 1 /\ f > 0
         /\ o = 2 => 0 < p[2].time
  <2>1. CASE f = 0
    <3>1. p = <<>>
      BY <1>3, <2>1
    <3>2. p \in Seq(Stop) /\ Len(p) = 0 /\ 0 \in 0..2
      BY <3>1
    <3>3. \A i \in 1..0 : FALSE
      OBVIOUS
    <3>. QED
      BY <2>1, <3>2, <3>3
  <2>2. CASE f = 1
    <3>1. p = <<Waypoint(0, Parking)>>
      BY <1>3, <2>2
    <3>2. /\ Waypoint(0, Parking) \in Stop /\ Waypoint(0, Parking).time = 0
          /\ Waypoint(0, Parking).x = Parking
      BY <1>8, StopFields
    <3>3. p \in Seq(Stop) /\ Len(p) = 1 /\ p[1] = Waypoint(0, Parking)
      BY <3>1, <3>2
    <3>4. 1 \in 0..2 /\ f - 1 = 0 /\ f > 0 /\ \A i \in 1..1 : i = 1
      BY <2>2
    <3>. QED
      BY <3>2, <3>3, <3>4
  <2>3. CASE f > 1
    <3>1. p = <<Waypoint(0, Parking)>> \o <<Waypoint(f - 1, Parking)>>
      <4>1. f > 0
        BY <2>3
      <4>. QED
        BY <1>3, <2>3, <4>1
    <3>2. f - 1 \in Nat /\ 0 < f - 1
      BY <2>3
    <3>3. /\ Waypoint(0, Parking) \in Stop /\ Waypoint(0, Parking).time = 0
          /\ Waypoint(0, Parking).x = Parking
          /\ Waypoint(f - 1, Parking) \in Stop /\ Waypoint(f - 1, Parking).time = f - 1
          /\ Waypoint(f - 1, Parking).x = Parking
      BY <1>8, <3>2, StopFields
    <3>4. /\ p \in Seq(Stop) /\ Len(p) = 2
          /\ p[1] = Waypoint(0, Parking) /\ p[2] = Waypoint(f - 1, Parking)
      <4>1. ASSUME NEW y \in Stop, NEW z \in Stop
            PROVE  /\ <<y>> \o <<z>> \in Seq(Stop) /\ Len(<<y>> \o <<z>>) = 2
                   /\ (<<y>> \o <<z>>)[1] = y /\ (<<y>> \o <<z>>)[2] = z
        OBVIOUS
      <4>. QED
        BY <3>1, <3>3, <4>1
    <3>5. 2 \in 0..2 /\ f > 0 /\ \A i \in 1..2 : i = 1 \/ i = 2
      BY <2>3
    <3>. QED
      BY <3>2, <3>3, <3>4, <3>5
  <2>. QED
    BY <2>1, <2>2, <2>3
<1>12. /\ w \in Seq(Stop) /\ Len(w) = o + n + 1
       /\ \A i \in 1..o : w[i] = p[i]
       /\ \A i \in 1..n : w[o + i] = m[i]
       /\ w[Len(w)] = d
  <2>1. /\ w \in Seq(Stop) /\ Len(w) = Len(p) + Len(m) + 1
        /\ \A i \in 1..Len(p) : w[i] = p[i]
        /\ \A i \in 1..Len(m) : w[Len(p) + i] = m[i]
        /\ w[Len(w)] = d
    <3>1. p \in Seq(Stop) /\ m \in Seq(Stop) /\ d \in Stop
      BY <1>9, <1>10, <1>11
    <3>. QED
      BY <1>7, <3>1, ThreeParts
  <2>2. Len(p) = o /\ Len(m) = n
    BY <1>9, <1>11
  <2>. QED
    BY <2>1, <2>2, Zenon
<1>13. w[o + 1] = Waypoint(f, r[1].val) /\ w[o + 1].time = f
  <2>1. 1 \in 1..n /\ r[1].val \in Int
    BY <1>1, <1>8
  <2>. QED
    BY <1>2, <1>9, <1>12, <2>1, StopFields
<1>14. w[1].time = 0 /\ (o > 0 => w[1].time < w[2].time /\ w[o].time = f - 1)
  <2>1. CASE o = 0
    BY <1>11, <1>13, <2>1
  <2>2. CASE o = 1
    BY <1>11, <1>12, <1>13, <2>2
  <2>3. CASE o = 2
    BY <1>11, <1>12, <2>3
  <2>. QED
    BY <2>1, <2>2, <2>3
<1>15. RouteOf(w, r, o)
  BY <1>1, <1>2, <1>5, <1>9, <1>11, <1>12, <1>14 DEF RouteOf
<1>. QED
  BY <1>6, <1>15

LEMMA RouteFacts ==
  ASSUME NEW r \in Tracks, NEW w, NEW o, RouteOf(w, r, o)
  PROVE  /\ w \in Seq(Stop) /\ Len(w) \in Nat /\ Len(w) >= 2 /\ DOMAIN w = 1..Len(w)
         /\ \A i \in 1..Len(w) : w[i] \in Stop /\ w[i].time \in Nat /\ w[i].x \in Int
         /\ \A i, j \in 1..Len(w) : i <= j => w[i].time <= w[j].time
<1>1. PICK n \in Nat : n = Len(r) /\ n >= 1
  BY TrackFacts
<1>2. /\ w \in Seq(Stop) /\ o \in 0..2 /\ Len(w) = o + n + 1
      /\ w[1].time = 0
      /\ o > 0 => w[o].time = r[1].time - 1
      /\ \A i \in 1..n : w[o + i] = Waypoint(r[i].time, r[i].val)
      /\ w[o + n + 1] = Waypoint(r[n].time + 1, Parking)
  <2>1. /\ w \in Seq(Stop) /\ o \in 0..2 /\ Len(w) = o + Len(r) + 1
        /\ w[1].time = 0
        /\ o > 0 => w[o].time = r[1].time - 1
        /\ \A i \in 1..Len(r) : w[o + i] = Waypoint(r[i].time, r[i].val)
        /\ w[Len(w)] = Waypoint(r[Len(r)].time + 1, Parking)
    BY Zenon DEF RouteOf
  <2>. QED
    BY <1>1, <2>1, Zenon
<1>3. PICK L \in Nat : L = Len(w) /\ L = o + n + 1 /\ L >= 2
  BY <1>1, <1>2
<1>4. DOMAIN w = 1..L /\ \A i \in 1..L : w[i] \in Stop
  BY <1>2, <1>3, ElementOfSeq
<1>5. \A i \in 1..L : w[i].time \in Nat /\ w[i].x \in Int
  <2>1. \A z \in Stop : z.time \in Nat /\ z.x \in Int
    BY DEF Stop
  <2>. QED
    BY <1>4, <2>1
<1>6. /\ \A i \in 1..n : r[i].time \in Nat /\ r[i].val \in Int
      /\ \A i, j \in 1..n : i <= j => r[i].time <= r[j].time
      /\ Parking \in Int
  BY <1>1, TrackFacts, GridFacts
<1>7. ASSUME NEW i \in 1..n PROVE w[o + i].time = r[i].time
  <2>1. w[o + i] = Waypoint(r[i].time, r[i].val)
    BY <1>2, Zenon
  <2>2. r[i].time \in Nat /\ r[i].val \in Int
    BY <1>6, Zenon
  <2>. QED
    BY <2>1, <2>2, StopFields
<1>8. w[L].time = r[n].time + 1
  <2>1. r[n].time + 1 \in Nat
    BY <1>1, <1>6
  <2>. QED
    BY <1>2, <1>3, <1>6, <2>1, StopFields
<1>9. ASSUME NEW i \in 1..(L - 1) PROVE w[i].time <= w[i + 1].time
  <2>1. CASE i < o
    <3>1. i = 1 /\ i + 1 \in 1..L
      BY <1>2, <2>1
    <3>. QED
      BY <1>2, <1>5, <3>1
  <2>2. CASE i = o
    <3>1. w[o].time = r[1].time - 1 /\ w[o + 1].time = r[1].time /\ r[1].time \in Nat
      BY <1>1, <1>2, <1>6, <1>7, <2>2
    <3>. QED
      BY <2>2, <3>1
  <2>3. CASE i > o /\ i < o + n
    <3>1. PICK j \in 1..n : j = i - o /\ i = o + j /\ j + 1 \in 1..n /\ i + 1 = o + (j + 1)
      BY <1>2, <2>3
    <3>2. w[i].time = r[j].time /\ w[i + 1].time = r[j + 1].time
      BY <1>7, <3>1
    <3>3. r[j].time <= r[j + 1].time
      BY <1>6, <3>1
    <3>. QED
      BY <3>2, <3>3
  <2>4. CASE i = o + n
    <3>1. n \in 1..n /\ i + 1 = L /\ r[n].time \in Nat
      BY <1>1, <1>3, <1>6, <2>4
    <3>. QED
      BY <1>7, <1>8, <2>4, <3>1
  <2>5. i < o \/ i = o \/ (i > o /\ i < o + n) \/ i = o + n
    BY <1>2, <1>3
  <2>. QED
    BY <2>1, <2>2, <2>3, <2>4, <2>5
<1>10. ASSUME NEW i \in 1..L, NEW j \in 1..L, i <= j PROVE w[i].time <= w[j].time
  <2>1. PICK S : S = {k \in 0..L : i + k \in 1..L /\ w[i + k].time < w[i].time}
    OBVIOUS
  <2>2. S = {}
    <3>1. SUFFICES ASSUME S # {} PROVE FALSE
      OBVIOUS
    <3>2. PICK k \in S : \A y \in S : k <= y
      <4>1. S \subseteq Nat
        BY <2>1
      <4>. QED
        BY <3>1, <4>1, MinIsLeast
    <3>3. k \in 0..L /\ i + k \in 1..L /\ w[i + k].time < w[i].time
      BY <2>1
    <3>4. k # 0
      <4>1. i + 0 = i /\ w[i].time \in Nat
        BY <1>5
      <4>. QED
        BY <3>3, <4>1
    <3>5. k - 1 \in 0..L /\ i + (k - 1) \in 1..(L - 1) /\ (i + (k - 1)) + 1 = i + k
          /\ i + (k - 1) \in 1..L /\ ~(k <= k - 1)
      BY <3>3, <3>4
    <3>6. ~(w[i + (k - 1)].time < w[i].time)
      BY <2>1, <3>2, <3>5
    <3>7. w[i + (k - 1)].time <= w[i + k].time
      BY <1>9, <3>5
    <3>8. w[i + (k - 1)].time \in Nat /\ w[i + k].time \in Nat /\ w[i].time \in Nat
      BY <1>5, <3>3, <3>5
    <3>. QED
      BY <3>3, <3>6, <3>7, <3>8
  <2>3. j - i \in 0..L /\ i + (j - i) = j
    BY <1>10
  <2>4. ~(w[j].time < w[i].time)
    BY <2>1, <2>2, <2>3
  <2>. QED
    BY <1>5, <2>4
<1>. QED
  BY <1>2, <1>3, <1>4, <1>5, <1>10

(* AddWaypoint leaves only the first two waypoints unordered. *)
LEMMA RouteStrict ==
  ASSUME NEW r \in Tracks, NEW w, NEW o, RouteOf(w, r, o), ~AddWaypointAborts(w),
         NEW i \in 2..Len(w), NEW j \in 2..Len(w), i < j
  PROVE  w[i].time < w[j].time
<1>1. /\ Len(w) \in Nat /\ \A k \in 1..Len(w) : w[k].time \in Nat
      /\ \A k, l \in 1..Len(w) : k <= l => w[k].time <= w[l].time
  BY RouteFacts
<1>2. i + 1 \in 3..Len(w) /\ i + 1 <= j /\ (i + 1) - 1 = i
      /\ i \in 1..Len(w) /\ j \in 1..Len(w) /\ i + 1 \in 1..Len(w)
  BY <1>1
<1>3. ~(w[i].time >= w[i + 1].time)
  BY <1>2 DEF AddWaypointAborts
<1>4. w[i + 1].time <= w[j].time
  BY <1>1, <1>2
<1>5. w[i].time \in Nat /\ w[j].time \in Nat /\ w[i + 1].time \in Nat
  BY <1>1, <1>2
<1>. QED
  BY <1>3, <1>4, <1>5

(* A track whose row times ascend has a route whose times ascend. *)
LEMMA AscendingRoute ==
  ASSUME NEW r \in Tracks, NEW w, NEW o, RouteOf(w, r, o),
         \A i \in 2..Len(r) : r[i - 1].time < r[i].time
  PROVE  ~AddWaypointAborts(w) /\ w[1].time < w[2].time
<1>1. PICK n \in Nat : n = Len(r) /\ n >= 1
  BY TrackFacts
<1>2. /\ w \in Seq(Stop) /\ o \in 0..2 /\ Len(w) = o + n + 1
      /\ w[1].time = 0
      /\ o > 0 => w[1].time < w[2].time
      /\ o > 0 => w[o].time = r[1].time - 1
      /\ \A i \in 1..n : w[o + i] = Waypoint(r[i].time, r[i].val)
      /\ w[o + n + 1] = Waypoint(r[n].time + 1, Parking)
  <2>1. /\ w \in Seq(Stop) /\ o \in 0..2 /\ Len(w) = o + Len(r) + 1
        /\ w[1].time = 0
        /\ o > 0 => w[1].time < w[2].time
        /\ o > 0 => w[o].time = r[1].time - 1
        /\ \A i \in 1..Len(r) : w[o + i] = Waypoint(r[i].time, r[i].val)
        /\ w[Len(w)] = Waypoint(r[Len(r)].time + 1, Parking)
    BY Zenon DEF RouteOf
  <2>. QED
    BY <1>1, <2>1, Zenon
<1>3. /\ \A i \in 1..n : r[i].time \in Nat /\ r[i].val \in Int
      /\ Parking \in Int
  BY <1>1, TrackFacts, GridFacts
<1>4. ASSUME NEW i \in 1..n PROVE w[o + i].time = r[i].time
  <2>1. w[o + i] = Waypoint(r[i].time, r[i].val)
    BY <1>2, Zenon
  <2>2. r[i].time \in Nat /\ r[i].val \in Int
    BY <1>3, Zenon
  <2>. QED
    BY <2>1, <2>2, StopFields
<1>5. w[o + n + 1].time = r[n].time + 1
  <2>1. r[n].time + 1 \in Nat
    BY <1>1, <1>3
  <2>. QED
    BY <1>2, <1>3, <2>1, StopFields
<1>6. ASSUME NEW i \in 1..(o + n) PROVE w[i].time < w[i + 1].time
  <2>1. CASE i < o
    <3>1. i = 1 /\ o > 0
      BY <1>2, <2>1
    <3>. QED
      BY <1>2, <3>1
  <2>2. CASE i = o
    <3>1. w[o].time = r[1].time - 1 /\ w[o + 1].time = r[1].time /\ r[1].time \in Nat
      BY <1>1, <1>2, <1>3, <1>4, <2>2
    <3>. QED
      BY <2>2, <3>1
  <2>3. CASE i > o /\ i < o + n
    <3>1. PICK j \in 1..n : j = i - o /\ i = o + j /\ j + 1 \in 1..n /\ i + 1 = o + (j + 1)
                            /\ j + 1 \in 2..n /\ (j + 1) - 1 = j
      BY <1>2, <2>3
    <3>2. w[i].time = r[j].time /\ w[i + 1].time = r[j + 1].time
      BY <1>4, <3>1
    <3>3. r[j].time < r[j + 1].time
      BY <1>1, <3>1
    <3>. QED
      BY <3>2, <3>3
  <2>4. CASE i = o + n
    <3>1. n \in 1..n /\ r[n].time \in Nat
      BY <1>1, <1>3
    <3>. QED
      BY <1>4, <1>5, <2>4, <3>1
  <2>. QED
    BY <1>2, <2>1, <2>2, <2>3, <2>4
<1>7. ASSUME NEW i \in 3..Len(w) PROVE ~(w[i - 1].time >= w[i].time)
  <2>1. i - 1 \in 1..(o + n) /\ (i - 1) + 1 = i /\ i - 1 \in 1..Len(w) /\ i \in 1..Len(w)
    BY <1>2
  <2>2. w[i - 1].time < w[i].time
    BY <1>6, <2>1
  <2>3. w[i - 1].time \in Nat /\ w[i].time \in Nat
    BY <2>1, RouteFacts
  <2>. QED
    BY <2>2, <2>3
<1>8. w[1].time < w[2].time
  <2>1. 1 \in 1..(o + n) /\ 1 + 1 = 2
    BY <1>1, <1>2
  <2>. QED
    BY <1>6, <2>1
<1>. QED
  BY <1>7, <1>8 DEF AddWaypointAborts

-----------------------------------------------------------------------------
(* Update *)

(* The waypoints that the model m still has before it: those of w from the *)
(* k-th.                                                                   *)
Ahead(m, w, k) == m.next = w[k] /\ m.queue = SubSeq(w, k + 1, Len(w))

LEMMA PendingAhead ==
  ASSUME NEW w \in Seq(Stop), NEW k \in 1..Len(w), NEW m, Ahead(m, w, k)
  PROVE  /\ DOMAIN Pending(m) = 1..(Len(w) - k + 1)
         /\ Len(Pending(m)) = Len(w) - k + 1
         /\ \A i \in 1..(Len(w) - k + 1) : Pending(m)[i] = w[k - 1 + i]
<1>1. Len(w) \in Nat /\ \A i \in 1..Len(w) : w[i] \in Stop
  BY LenProperties, ElementOfSeq
<1>2. Len(w) \in k..Len(w)
  BY <1>1
<1>3. Pending(m) = SubSeq(w, k, Len(w))
  <2>1. SubSeq(w, k, Len(w)) = <<w[k]>> \o SubSeq(w, k + 1, Len(w))
    BY <1>2, SubSeqRecursiveFirst
  <2>. QED
    BY <2>1 DEF Pending, Ahead
<1>4. PICK q : q = SubSeq(w, k, Len(w))
  OBVIOUS
<1>5. /\ q \in Seq(Stop)
      /\ Len(q) = IF k <= Len(w) THEN Len(w) - k + 1 ELSE 0
      /\ \A i \in 1..(Len(w) - k + 1) : q[i] = w[k + i - 1]
  <2>1. \A i \in k..Len(w) : w[i] \in Stop
    BY <1>1
  <2>2. k \in Int /\ Len(w) \in Int
    BY <1>1
  <2>. QED
    BY <1>4, <2>1, <2>2, SubSeqProperties
<1>6. Len(q) = Len(w) - k + 1 /\ DOMAIN q = 1..(Len(w) - k + 1)
  BY <1>1, <1>5, LenProperties
<1>7. \A i \in 1..(Len(w) - k + 1) : k + i - 1 = k - 1 + i
  BY <1>1
<1>. QED
  BY <1>3, <1>4, <1>5, <1>6, <1>7

(* The waypoints that are due are the ones up to some n. *)
LEMMA DueAhead ==
  ASSUME NEW r \in Tracks, NEW w, NEW o, RouteOf(w, r, o), now \in Nat,
         NEW k \in 1..Len(w), NEW m, Ahead(m, w, k)
  PROVE  /\ w[k].time > now => Due(m) = {}
         /\ w[Len(w)].time <= now => Due(m) = DOMAIN Pending(m)
         /\ w[k].time <= now /\ w[Len(w)].time > now =>
              \E n \in k..(Len(w) - 1) :
                /\ w[n].time <= now /\ now < w[n + 1].time
                /\ Due(m) = 1..(n - k + 1)
<1>1. PICK L \in Nat : L = Len(w) /\ w \in Seq(Stop)
  BY RouteFacts
<1>2. /\ \A i \in 1..L : w[i].time \in Nat
      /\ \A i, j \in 1..L : i <= j => w[i].time <= w[j].time
  BY <1>1, RouteFacts
<1>3. PICK e \in Nat : e = L - k + 1 /\ e >= 1
  <2>1. L - k + 1 \in Nat /\ L - k + 1 >= 1
    BY <1>1
  <2>. QED
    BY <2>1
<1>4. DOMAIN Pending(m) = 1..e /\ \A i \in 1..e : Pending(m)[i] = w[k - 1 + i]
  <2>1. /\ DOMAIN Pending(m) = 1..(Len(w) - k + 1)
        /\ \A i \in 1..(Len(w) - k + 1) : Pending(m)[i] = w[k - 1 + i]
    BY <1>1, PendingAhead, Zenon
  <2>. QED
    BY <1>1, <1>3, <2>1
<1>5. \A i : i \in Due(m) <=> i \in 1..e /\ w[k - 1 + i].time <= now
  BY <1>4 DEF Due
<1>6. \A i \in 1..e : k - 1 + i \in 1..L /\ k <= k - 1 + i
  BY <1>1, <1>3
<1>7. ASSUME w[k].time > now PROVE Due(m) = {}
  <2>1. ASSUME NEW i \in 1..e PROVE ~(w[k - 1 + i].time <= now)
    <3>1. w[k].time <= w[k - 1 + i].time /\ w[k].time \in Nat /\ w[k - 1 + i].time \in Nat
      BY <1>1, <1>2, <1>6
    <3>. QED
      BY <1>7, <3>1
  <2>. QED
    BY <1>5, <2>1
<1>8. ASSUME w[L].time <= now PROVE Due(m) = DOMAIN Pending(m)
  <2>1. ASSUME NEW i \in 1..e PROVE w[k - 1 + i].time <= now
    <3>1. /\ w[k - 1 + i].time <= w[L].time /\ w[L].time \in Nat
          /\ w[k - 1 + i].time \in Nat
      <4>1. L \in 1..L /\ k - 1 + i <= L
        BY <1>1, <1>6
      <4>. QED
        BY <1>2, <1>6, <4>1
    <3>. QED
      BY <1>8, <3>1
  <2>. QED
    BY <1>4, <1>5, <2>1
<1>9. ASSUME w[k].time <= now, w[L].time > now
      PROVE  \E n \in k..(L - 1) : /\ w[n].time <= now /\ now < w[n + 1].time
                                   /\ Due(m) = 1..(n - k + 1)
  <2>1. PICK S : S = {i \in k..L : w[i].time > now}
    OBVIOUS
  <2>2. S \subseteq Nat /\ L \in S
    BY <1>1, <1>9, <2>1
  <2>3. PICK s \in S : \A y \in S : s <= y
    BY <2>2, MinIsLeast
  <2>4. s \in k..L /\ w[s].time > now
    BY <2>1
  <2>5. s # k
    <3>1. w[k].time \in Nat
      BY <1>1, <1>2
    <3>. QED
      BY <1>9, <2>4, <3>1
  <2>6. PICK n \in k..(L - 1) : s = n + 1
    <3>1. s - 1 \in k..(L - 1) /\ s = (s - 1) + 1
      BY <1>1, <2>4, <2>5
    <3>. QED
      BY <3>1
  <2>7. w[n].time <= now
    <3>1. n \in k..L /\ ~(s <= n) /\ n \in 1..L
      BY <1>1, <2>6
    <3>2. n \notin S
      BY <2>3, <3>1
    <3>3. w[n].time \in Nat
      BY <1>2, <3>1
    <3>. QED
      BY <2>1, <3>1, <3>2, <3>3
  <2>8. now < w[n + 1].time
    <3>1. n + 1 \in 1..L
      BY <1>1, <2>6
    <3>2. w[n + 1].time \in Nat
      BY <1>2, <3>1
    <3>. QED
      BY <2>4, <2>6, <3>2
  <2>9. ASSUME NEW i \in 1..e PROVE w[k - 1 + i].time <= now <=> i \in 1..(n - k + 1)
    <3>1. k - 1 + i \in 1..L /\ n \in 1..L /\ n + 1 \in 1..L
      BY <1>1, <1>6, <2>6
    <3>2. w[k - 1 + i].time \in Nat /\ w[n].time \in Nat /\ w[n + 1].time \in Nat
      BY <1>2, <3>1
    <3>3. CASE i <= n - k + 1
      <4>1. k - 1 + i <= n /\ i \in 1..(n - k + 1)
        BY <2>6, <3>3
      <4>2. w[k - 1 + i].time <= w[n].time
        BY <1>2, <3>1, <4>1
      <4>. QED
        BY <2>7, <3>2, <4>1, <4>2
    <3>4. CASE ~(i <= n - k + 1)
      <4>1. n + 1 <= k - 1 + i /\ i \notin 1..(n - k + 1)
        BY <2>6, <3>4
      <4>2. w[n + 1].time <= w[k - 1 + i].time
        BY <1>2, <3>1, <4>1
      <4>. QED
        BY <2>8, <3>2, <4>1, <4>2
    <3>. QED
      BY <3>3, <3>4
  <2>10. 1..(n - k + 1) \subseteq 1..e
    BY <1>1, <1>3, <2>6
  <2>11. Due(m) = 1..(n - k + 1)
    BY <1>5, <2>9, <2>10
  <2>. QED
    BY <2>7, <2>8, <2>11
<1>. QED
  BY <1>1, <1>7, <1>8, <1>9

LEMMA SlopeIsInt ==
  ASSUME NEW a \in Stop, NEW b \in Stop, a.time < b.time
  PROVE  Slope(a, b) \in Int
<1>1. \A z \in Stop : z.time \in Nat /\ z.x \in Int
  BY DEF Stop
<1>2. b.x - a.x \in Int /\ b.time - a.time \in Int /\ b.time - a.time > 0
  BY <1>1
<1>3. \A n, d \in Int : d > 0 => n \div d \in Int
  OBVIOUS
<1>. QED
  BY <1>2, <1>3 DEF Slope

LEMMA LinearMove ==
  ASSUME NEW x \in Int, NEW s \in Int, NEW t \in Int, NEW c \in Int, NEW u \in Int
  PROVE  (x + s * (c - t)) + s * (u - c) = x + s * (u - t)
OBVIOUS

(* A Move within a leg, from whatever time the model was at *)
LEMMA MoveOnLeg ==
  ASSUME now \in Nat, NEW w, NEW k, NEW c \in Nat,
         w[k - 1] \in Stop, w[k] \in Stop, w[k - 1].time < w[k].time
  PROVE  Move(OnLeg(w, k, c)) = OnLeg(w, k, now)
<1>1. PICK s \in Int : s = Slope(w[k - 1], w[k])
  BY SlopeIsInt
<1>2. PICK x \in Int, t \in Int : x = w[k - 1].x /\ t = w[k - 1].time
  <2>1. \A z \in Stop : z.time \in Int /\ z.x \in Int
    BY DEF Stop
  <2>. QED
    BY <2>1
<1>3. PICK m : m = OnLeg(w, k, c)
  OBVIOUS
<1>4. m = [cur |-> Waypoint(c, x + s * (c - t)), next |-> w[k],
           queue |-> SubSeq(w, k + 1, Len(w)), vel |-> s]
  BY <1>1, <1>2, <1>3 DEF OnLeg
<1>5. m.cur.time = c /\ m.cur.x = x + s * (c - t) /\ m.vel = s
  BY <1>4 DEF Waypoint
<1>6. m.cur.x + m.vel * (now - m.cur.time) = x + s * (now - t)
  <2>1. now \in Int /\ c \in Int
    OBVIOUS
  <2>. QED
    BY <1>5, <2>1, LinearMove
<1>7. Move(m) = [m EXCEPT !.cur = Waypoint(now, x + s * (now - t))]
  BY <1>6 DEF Move
<1>8. Move(m) = [cur |-> Waypoint(now, x + s * (now - t)), next |-> w[k],
                 queue |-> SubSeq(w, k + 1, Len(w)), vel |-> s]
  BY <1>4, <1>7
<1>. QED
  BY <1>1, <1>2, <1>3, <1>8 DEF OnLeg

(* An Update before the next waypoint *)
LEMMA UpdatedBeforeNext ==
  ASSUME NEW r \in Tracks, NEW w, NEW o, RouteOf(w, r, o), now \in Nat,
         NEW k \in 2..Len(w), NEW c \in Nat, c <= now,
         w[k - 1].time < w[k].time, now < w[k].time
  PROVE  Updated(OnLeg(w, k, c)) = OnLeg(w, k, now)
<1>1. PICK m : m = OnLeg(w, k, c)
  OBVIOUS
<1>2. Ahead(m, w, k) /\ m.cur.time = c
  BY <1>1 DEF OnLeg, Ahead, Waypoint
<1>3. k \in 1..Len(w) /\ k - 1 \in 1..Len(w)
  BY RouteFacts
<1>4. w[k] \in Stop /\ w[k - 1] \in Stop /\ w[k].time \in Nat
  BY <1>3, RouteFacts
<1>5. Due(m) = {}
  <2>1. w[k].time > now
    BY <1>4
  <2>. QED
    BY <1>2, <1>3, <2>1, DueAhead
<1>6. Updated(m) = Move(m)
  <2>1. ~(now < m.cur.time)
    BY <1>2
  <2>2. DOMAIN Pending(m) # {}
    <3>1. w \in Seq(Stop) /\ Len(w) \in Nat
      BY RouteFacts
    <3>2. DOMAIN Pending(m) = 1..(Len(w) - k + 1)
      BY <1>2, <1>3, <3>1, PendingAhead, Zenon
    <3>3. 1 \in 1..(Len(w) - k + 1)
      BY <3>1
    <3>. QED
      BY <3>2, <3>3
  <2>. QED
    BY <1>5, <2>1, <2>2 DEF Updated
<1>7. Move(m) = OnLeg(w, k, now)
  BY <1>1, <1>4, MoveOnLeg
<1>. QED
  BY <1>1, <1>6, <1>7

(* An Update that passes waypoints *)
LEMMA UpdatedPasses ==
  ASSUME NEW r \in Tracks, NEW w, NEW o, RouteOf(w, r, o), now \in Nat,
         NEW k \in 1..Len(w), NEW m, Ahead(m, w, k), m.cur.time \in Nat,
         m.cur.time <= now, w[k].time <= now, w[Len(w)].time > now
  PROVE  \E n \in k..(Len(w) - 1) :
           /\ w[n].time <= now /\ now < w[n + 1].time
           /\ Updated(m) = OnLeg(w, n + 1, now)
<1>1. PICK L \in Nat : L = Len(w) /\ w \in Seq(Stop)
  BY RouteFacts
<1>2. PICK n \in k..(L - 1) : /\ w[n].time <= now /\ now < w[n + 1].time
                              /\ Due(m) = 1..(n - k + 1)
  BY <1>1, DueAhead
<1>3. PICK j \in Nat : j = n - k + 1 /\ j >= 1 /\ j + 1 <= L - k + 1 /\ n = k - 1 + j
  <2>1. /\ n - k + 1 \in Nat /\ n - k + 1 >= 1 /\ (n - k + 1) + 1 <= L - k + 1
        /\ n = k - 1 + (n - k + 1)
    BY <1>1, <1>2
  <2>. QED
    BY <2>1
<1>4. PICK p : p = Pending(m)
  OBVIOUS
<1>5. /\ DOMAIN p = 1..(L - k + 1) /\ Len(p) = L - k + 1
      /\ \A i \in 1..(L - k + 1) : p[i] = w[k - 1 + i]
  <2>1. /\ DOMAIN Pending(m) = 1..(Len(w) - k + 1)
        /\ Len(Pending(m)) = Len(w) - k + 1
        /\ \A i \in 1..(Len(w) - k + 1) : Pending(m)[i] = w[k - 1 + i]
    BY <1>1, PendingAhead, Zenon
  <2>. QED
    BY <1>1, <1>4, <2>1, Zenon
<1>6. Max(Due(m)) = j
  <2>1. Due(m) \subseteq Int /\ j \in Due(m) /\ \A y \in Due(m) : j >= y
    BY <1>2, <1>3
  <2>. QED
    BY <2>1, MaxIs
<1>7. p[j] = w[n] /\ p[j + 1] = w[n + 1]
  <2>1. j \in 1..(L - k + 1) /\ j + 1 \in 1..(L - k + 1) /\ k - 1 + (j + 1) = n + 1
    BY <1>1, <1>3
  <2>. QED
    BY <1>3, <1>5, <2>1
<1>8. SubSeq(p, j + 2, Len(p)) = SubSeq(w, n + 2, L)
  <2>1. PICK a, b : a = SubSeq(p, j + 2, Len(p)) /\ b = SubSeq(w, n + 2, L)
    OBVIOUS
  <2>2. PICK h \in Int : h = L - k + 1
    <3>1. L - k + 1 \in Int
      BY <1>1
    <3>. QED
      BY <3>1
  <2>3. \A i \in (j + 2)..h : p[i] \in Stop
    <3>1. \A i \in (j + 2)..h : i \in 1..(L - k + 1) /\ k - 1 + i \in 1..L
      BY <1>1, <1>3, <2>2
    <3>. QED
      BY <1>1, <1>5, <3>1, ElementOfSeq
  <2>4. \A i \in (n + 2)..L : w[i] \in Stop
    <3>1. \A i \in (n + 2)..L : i \in 1..L
      BY <1>1, <1>2
    <3>. QED
      BY <1>1, <3>1, ElementOfSeq
  <2>5. PICK g \in Int : g = j + 2
    OBVIOUS
  <2>6. PICK f \in Int : f = n + 2
    BY <1>2
  <2>7. /\ a \in Seq(Stop) /\ Len(a) = IF g <= h THEN h - g + 1 ELSE 0
        /\ \A i \in 1..(h - g + 1) : a[i] = p[g + i - 1]
    <3>1. \A i \in g..h : p[i] \in Stop
      BY <2>3, <2>5, Zenon
    <3>2. /\ SubSeq(p, g, h) \in Seq(Stop)
          /\ Len(SubSeq(p, g, h)) = IF g <= h THEN h - g + 1 ELSE 0
          /\ \A i \in 1..(h - g + 1) : SubSeq(p, g, h)[i] = p[g + i - 1]
      BY <3>1, SubSeqProperties
    <3>3. a = SubSeq(p, g, h)
      BY <1>5, <2>1, <2>2, <2>5, Zenon
    <3>. QED
      BY <3>2, <3>3, Zenon
  <2>8. /\ b \in Seq(Stop) /\ Len(b) = IF f <= L THEN L - f + 1 ELSE 0
        /\ \A i \in 1..(L - f + 1) : b[i] = w[f + i - 1]
    <3>1. L \in Int /\ \A i \in f..L : w[i] \in Stop
      BY <2>4, <2>6
    <3>2. /\ SubSeq(w, f, L) \in Seq(Stop)
          /\ Len(SubSeq(w, f, L)) = IF f <= L THEN L - f + 1 ELSE 0
          /\ \A i \in 1..(L - f + 1) : SubSeq(w, f, L)[i] = w[f + i - 1]
      BY <3>1, SubSeqProperties
    <3>3. b = SubSeq(w, f, L)
      BY <2>1, <2>6, Zenon
    <3>. QED
      BY <3>2, <3>3, Zenon
  <2>9. h - g = L - f
    BY <1>1, <1>3, <2>2, <2>5, <2>6
  <2>10. Len(a) = Len(b)
    BY <2>7, <2>8, <2>9
  <2>11. ASSUME NEW i \in 1..Len(a) PROVE a[i] = b[i]
    <3>1. i \in 1..(h - g + 1) /\ i \in 1..(L - f + 1)
      BY <2>7, <2>9
    <3>2. g + i - 1 \in 1..(L - k + 1) /\ k - 1 + (g + i - 1) = f + i - 1
      BY <1>1, <1>3, <2>2, <2>5, <2>6, <3>1
    <3>3. a[i] = p[g + i - 1] /\ b[i] = w[f + i - 1]
      BY <2>7, <2>8, <3>1
    <3>. QED
      BY <1>5, <3>2, <3>3
  <2>. QED
    BY <2>1, <2>7, <2>8, <2>10, <2>11, SeqEqual
<1>9. n \in 1..L /\ n + 1 \in 1..L /\ (n + 1) - 1 = n /\ (n + 1) + 1 = n + 2
  BY <1>1, <1>2
<1>10. w[n] \in Stop /\ w[n + 1] \in Stop /\ w[n].time \in Nat /\ w[n + 1].time \in Nat
       /\ w[n].x \in Int
  BY <1>1, <1>9, RouteFacts
<1>11. PassWaypoints(m) = OnLeg(w, n + 1, w[n].time)
  <2>1. PassWaypoints(m) = [cur |-> w[n], next |-> w[n + 1],
                            queue |-> SubSeq(w, n + 2, L),
                            vel |-> Slope(w[n], w[n + 1])]
    BY <1>4, <1>6, <1>7, <1>8 DEF PassWaypoints
  <2>2. Slope(w[n], w[n + 1]) \in Int
    <3>1. w[n].time < w[n + 1].time
      BY <1>2, <1>10, SMTT(30)
    <3>. QED
      BY <1>10, <3>1, SlopeIsInt
  <2>3. w[n].x + Slope(w[n], w[n + 1]) * (w[n].time - w[n].time) = w[n].x
    <3>1. \A x, s, t \in Int : x + s * (t - t) = x
      OBVIOUS
    <3>2. w[n].time \in Int
      BY <1>10
    <3>. QED
      BY <1>10, <2>2, <3>1, <3>2
  <2>4. Waypoint(w[n].time, w[n].x) = w[n]
    BY <1>10 DEF Waypoint, Stop
  <2>5. OnLeg(w, n + 1, w[n].time) =
          [cur |-> Waypoint(w[n].time, w[n].x + Slope(w[n], w[n + 1]) * (w[n].time - w[n].time)),
           next |-> w[n + 1], queue |-> SubSeq(w, n + 2, L), vel |-> Slope(w[n], w[n + 1])]
    BY <1>1, <1>9 DEF OnLeg
  <2>. QED
    BY <2>1, <2>3, <2>4, <2>5
<1>12. Move(PassWaypoints(m)) = OnLeg(w, n + 1, now)
  <2>1. w[n].time < w[n + 1].time
    <3>1. \A y, z \in Nat : y <= now /\ now < z => y < z
      OBVIOUS
    <3>. QED
      BY <1>2, <1>10, <3>1
  <2>. QED
    BY <1>9, <1>10, <1>11, <2>1, MoveOnLeg
<1>13. Updated(m) = Move(PassWaypoints(m))
  <2>1. ~(now < m.cur.time)
    OBVIOUS
  <2>2. Due(m) # {} /\ Due(m) # DOMAIN Pending(m)
    <3>1. 1 \in Due(m) /\ j + 1 \in DOMAIN p /\ j + 1 \notin Due(m)
      BY <1>1, <1>2, <1>3, <1>5
    <3>. QED
      BY <1>4, <3>1
  <2>. QED
    BY <2>1, <2>2 DEF Updated
<1>. QED
  BY <1>1, <1>2, <1>12, <1>13

(* An Update after the last waypoint *)
LEMMA UpdatedArrives ==
  ASSUME NEW r \in Tracks, NEW w, NEW o, RouteOf(w, r, o), now \in Nat,
         NEW k \in 1..Len(w), NEW m, Ahead(m, w, k), m.cur.time \in Nat,
         m.cur.time <= now, w[Len(w)].time <= now
  PROVE  Updated(m) = Parked(now)
<1>1. w \in Seq(Stop) /\ Len(w) \in Nat
  BY RouteFacts
<1>2. PICK e \in Nat : e = Len(w) - k + 1 /\ e >= 1 /\ k - 1 + e = Len(w)
  <2>1. /\ Len(w) - k + 1 \in Nat /\ Len(w) - k + 1 >= 1
        /\ k - 1 + (Len(w) - k + 1) = Len(w)
    <3>1. \A L \in Nat : \A i \in 1..L :
            L - i + 1 \in Nat /\ L - i + 1 >= 1 /\ i - 1 + (L - i + 1) = L
      OBVIOUS
    <3>. QED
      BY <1>1, <3>1, Zenon
  <2>. QED
    BY <2>1
<1>3. PICK p : p = Pending(m)
  OBVIOUS
<1>4. DOMAIN p = 1..e /\ Len(p) = e /\ \A i \in 1..e : p[i] = w[k - 1 + i]
  <2>1. /\ DOMAIN Pending(m) = 1..(Len(w) - k + 1)
        /\ Len(Pending(m)) = Len(w) - k + 1
        /\ \A i \in 1..(Len(w) - k + 1) : Pending(m)[i] = w[k - 1 + i]
    BY <1>1, PendingAhead, Zenon
  <2>. QED
    BY <1>2, <1>3, <2>1, Zenon
<1>5. p[Len(p)].x = Parking
  <2>1. p[Len(p)] = w[Len(w)]
    <3>1. e \in 1..e
      BY <1>2
    <3>2. p[e] = w[k - 1 + e]
      BY <1>4, <3>1, Zenon
    <3>. QED
      BY <1>2, <1>4, <3>2, Zenon
  <2>2. w[Len(w)] = Waypoint(r[Len(r)].time + 1, Parking)
    BY Zenon DEF RouteOf
  <2>. QED
    BY <2>1, <2>2 DEF Waypoint
<1>6. Due(m) = DOMAIN Pending(m)
  <2>1. \A y : y = w[Len(w)].time => (y <= now => Due(m) = DOMAIN Pending(m))
    BY DueAhead
  <2>. QED
    BY <2>1
<1>7. Due(m) # {}
  <2>1. 1 \in 1..e
    BY <1>2
  <2>. QED
    BY <1>3, <1>4, <1>6, <2>1, Zenon
<1>8. ~(now < m.cur.time)
  OBVIOUS
<1>9. Updated(m) = Arrive(m)
  BY <1>6, <1>7, <1>8 DEF Updated
<1>10. Arrive(m) = Parked(now)
  BY <1>3, <1>5 DEF Arrive, Parked
<1>. QED
  BY <1>9, <1>10

(* ... and ever after *)
LEMMA UpdatedParked ==
  ASSUME now \in Nat, NEW c \in Nat, c <= now
  PROVE  Updated(Parked(c)) = Parked(now) /\ SpanPositive(Parked(c))
<1>1. PICK m : m = Parked(c)
  OBVIOUS
<1>2. m.next = Waypoint(-1, Parking) /\ m.queue = <<>> /\ m.cur.time = c
  BY <1>1 DEF Parked, Waypoint
<1>3. PICK p : p = Pending(m) /\ p = <<Waypoint(-1, Parking)>>
  <2>1. \A y : <<y>> \o <<>> = <<y>>
    OBVIOUS
  <2>. QED
    BY <1>2, <2>1 DEF Pending
<1>4. DOMAIN p = {1} /\ Len(p) = 1 /\ p[1] = Waypoint(-1, Parking)
  BY <1>3
<1>5. p[1].time = -1 /\ p[1].x = Parking
  BY <1>4 DEF Waypoint
<1>6. Due(m) = {1}
  <2>1. -1 <= now
    OBVIOUS
  <2>. QED
    BY <1>3, <1>4, <1>5, <2>1 DEF Due
<1>7. Updated(m) = Arrive(m)
  <2>1. ~(now < m.cur.time)
    BY <1>2
  <2>2. Due(m) = DOMAIN Pending(m) /\ Due(m) # {}
    BY <1>3, <1>4, <1>6
  <2>. QED
    BY <2>1, <2>2 DEF Updated
<1>8. Arrive(m) = Parked(now)
  BY <1>3, <1>4, <1>5 DEF Arrive, Parked
<1>9. SpanPositive(m)
  BY <1>3, <1>4, <1>6 DEF SpanPositive
<1>. QED
  BY <1>1, <1>7, <1>8, <1>9

(* The model after AddWaypoint has the whole route ahead. *)
LEMMA StartAhead ==
  ASSUME NEW r \in Tracks, NEW w, NEW o, RouteOf(w, r, o)
  PROVE  /\ Ahead(AddWaypoints(w), w, 1) /\ AddWaypoints(w).cur.time = 0
         /\ AddWaypoints(w).next.time = 0
<1>1. w \in Seq(Stop) /\ Len(w) \in Nat /\ Len(w) >= 2 /\ w[1].time = 0
  BY RouteFacts DEF RouteOf
<1>2. Tail(w) = SubSeq(w, 2, Len(w))
  <2>1. w # <<>>
    BY <1>1
  <2>. QED
    BY <1>1, <2>1, TailIsSubSeq
<1>3. 1 + 1 = 2
  OBVIOUS
<1>. QED
  BY <1>1, <1>2, <1>3 DEF Ahead, AddWaypoints

(* What Update makes of the model, wherever on its route it was: the leg,  *)
(* or the parking place, of this instant.                                  *)
Current(u, w) ==
  \/ \E k \in 2..Len(w) : /\ w[k - 1].time <= now /\ now < w[k].time
                          /\ u = OnLeg(w, k, now)
  \/ w[Len(w)].time <= now /\ u = Parked(now)

LEMMA UpdatedIsCurrent ==
  ASSUME NEW r \in Tracks, NEW w, NEW o, RouteOf(w, r, o), now \in Nat, NEW m,
         OnRoute(m, w, now)
  PROVE  Current(Updated(m), w)
<1>1. PICK L \in Nat : L = Len(w) /\ L >= 2
  BY RouteFacts
<1>2. \A i \in 1..L : w[i].time \in Nat
  BY <1>1, RouteFacts
<1>3. ASSUME NEW k \in 1..L, Ahead(m, w, k), m.cur.time \in Nat, m.cur.time <= now,
             w[k].time <= now
      PROVE  Current(Updated(m), w)
  <2>1. CASE w[L].time <= now
    <3>1. Updated(m) = Parked(now)
      BY <1>1, <1>3, <2>1, UpdatedArrives
    <3>. QED
      BY <1>1, <2>1, <3>1 DEF Current
  <2>2. CASE ~(w[L].time <= now)
    <3>1. w[L].time > now
      <4>1. w[L].time \in Nat
        BY <1>1, <1>2
      <4>. QED
        BY <2>2, <4>1
    <3>2. PICK n \in k..(L - 1) : /\ w[n].time <= now /\ now < w[n + 1].time
                                  /\ Updated(m) = OnLeg(w, n + 1, now)
      BY <1>1, <1>3, <3>1, UpdatedPasses
    <3>3. n + 1 \in 2..L /\ (n + 1) - 1 = n
      BY <1>1, <3>2
    <3>. QED
      BY <1>1, <3>2, <3>3 DEF Current
  <2>. QED
    BY <2>1, <2>2
<1>4. CASE AtStart(m, w, now)
  <2>1. Ahead(m, w, 1) /\ m.cur.time = 0 /\ now = 0
    BY <1>4, StartAhead DEF AtStart
  <2>2. w[1].time = 0
    BY DEF RouteOf
  <2>3. 1 \in 1..L /\ 0 \in Nat /\ 0 <= now
    BY <1>1
  <2>. QED
    BY <1>3, <2>1, <2>2, <2>3
<1>5. ASSUME NEW k \in 2..L, Underway(m, w, now, k) PROVE Current(Updated(m), w)
  <2>1. PICK c \in Nat : /\ w[k - 1].time < w[k].time
                         /\ w[k - 1].time <= c /\ c <= now /\ now <= w[k].time
                         /\ m = OnLeg(w, k, c)
    BY <1>5 DEF Underway
  <2>2. Ahead(m, w, k) /\ m.cur.time = c
    BY <2>1 DEF Ahead, OnLeg, Waypoint
  <2>3. k \in 1..L /\ k - 1 \in 1..L
    BY <1>1
  <2>4. w[k].time \in Nat /\ w[k - 1].time \in Nat
    BY <1>2, <2>3
  <2>5. CASE now < w[k].time
    <3>1. Updated(m) = OnLeg(w, k, now)
      BY <1>1, <2>1, <2>5, UpdatedBeforeNext
    <3>2. w[k - 1].time <= now
      BY <2>1, <2>4
    <3>. QED
      BY <1>1, <2>5, <3>1, <3>2 DEF Current
  <2>6. CASE w[k].time <= now
    BY <1>3, <2>1, <2>2, <2>3, <2>6
  <2>. QED
    BY <2>4, <2>5, <2>6
<1>6. CASE Arrived(m, w, now)
  <2>1. PICK c \in Nat : w[L].time <= c /\ c <= now /\ m = Parked(c)
    BY <1>1, <1>6 DEF Arrived
  <2>2. Updated(m) = Parked(now)
    BY <2>1, UpdatedParked
  <2>3. w[L].time <= now
    <3>1. w[L].time \in Nat
      BY <1>1, <1>2
    <3>. QED
      BY <2>1, <3>1
  <2>. QED
    BY <1>1, <2>2, <2>3 DEF Current
<1>. QED
  BY <1>1, <1>4, <1>5, <1>6 DEF OnRoute

LEMMA CurrentIsOnRoute ==
  ASSUME NEW r \in Tracks, NEW w, NEW o, RouteOf(w, r, o), now \in Nat, NEW u,
         Current(u, w)
  PROVE  OnRoute(u, w, now) /\ u.vel \in Int
<1>1. PICK L \in Nat : L = Len(w) /\ L >= 2
  BY RouteFacts
<1>2. \A i \in 1..L : w[i] \in Stop /\ w[i].time \in Nat
  BY <1>1, RouteFacts
<1>3. ASSUME NEW k \in 2..L, w[k - 1].time <= now, now < w[k].time, u = OnLeg(w, k, now)
      PROVE  Underway(u, w, now, k) /\ u.vel \in Int
  <2>1. k \in 1..L /\ k - 1 \in 1..L
    BY <1>1
  <2>2. w[k] \in Stop /\ w[k - 1] \in Stop /\ w[k].time \in Nat /\ w[k - 1].time \in Nat
    BY <1>2, <2>1
  <2>3. w[k - 1].time < w[k].time /\ now <= w[k].time /\ now <= now
    BY <1>3, <2>2
  <2>4. Slope(w[k - 1], w[k]) \in Int
    BY <2>2, <2>3, SlopeIsInt
  <2>5. u.vel = Slope(w[k - 1], w[k])
    BY <1>3 DEF OnLeg
  <2>. QED
    BY <1>3, <2>3, <2>4, <2>5 DEF Underway
<1>4. ASSUME w[L].time <= now, u = Parked(now)
      PROVE  Arrived(u, w, now) /\ u.vel \in Int
  <2>1. u.vel = 0 /\ now <= now
    BY <1>4 DEF Parked
  <2>. QED
    BY <1>1, <1>4, <2>1 DEF Arrived
<1>. QED
  BY <1>1, <1>3, <1>4 DEF Current, OnRoute

(* The assertion of Update holds where the waypoints ahead ascend. *)
LEMMA SpanAhead ==
  ASSUME NEW w \in Seq(Stop), NEW k \in 1..Len(w), NEW m, Ahead(m, w, k),
         \A i \in k..(Len(w) - 1) : w[i].time < w[i + 1].time
  PROVE  SpanPositive(m)
<1>1. PICK L \in Nat : L = Len(w)
  BY LenProperties
<1>2. /\ DOMAIN Pending(m) = 1..(L - k + 1) /\ Len(Pending(m)) = L - k + 1
      /\ \A i \in 1..(L - k + 1) : Pending(m)[i] = w[k - 1 + i]
  BY <1>1, PendingAhead, Zenon
<1>3. ASSUME NEW i \in 1..(L - k + 1), i < L - k + 1
      PROVE  Pending(m)[i + 1].time > Pending(m)[i].time
  <2>1. /\ i + 1 \in 1..(L - k + 1) /\ k - 1 + i \in k..(L - 1)
        /\ k - 1 + (i + 1) = (k - 1 + i) + 1 /\ k - 1 + i \in 1..L /\ (k - 1 + i) + 1 \in 1..L
    BY <1>1, <1>3
  <2>2. w[k - 1 + i].time < w[(k - 1 + i) + 1].time
    BY <1>1, <2>1
  <2>3. w[k - 1 + i].time \in Nat /\ w[(k - 1 + i) + 1].time \in Nat
    <3>1. \A z \in Stop : z.time \in Nat
      BY DEF Stop
    <3>2. \A j \in 1..L : w[j] \in Stop
      BY <1>1, ElementOfSeq
    <3>. QED
      BY <2>1, <3>1, <3>2
  <2>4. Pending(m)[i] = w[k - 1 + i] /\ Pending(m)[i + 1] = w[(k - 1 + i) + 1]
    BY <1>2, <2>1
  <2>. QED
    BY <2>2, <2>3, <2>4
<1>4. Due(m) \subseteq 1..(L - k + 1)
  BY <1>2 DEF Due
<1>. QED
  BY <1>2, <1>3, <1>4 DEF SpanPositive

(* No ascending track trips it. *)
LEMMA AscendingSpans ==
  ASSUME NEW r \in Tracks, NEW w, NEW o, RouteOf(w, r, o), now \in Nat, NEW m,
         OnRoute(m, w, now), \A i \in 2..Len(r) : r[i - 1].time < r[i].time
  PROVE  SpanPositive(m)
<1>1. PICK L \in Nat : L = Len(w) /\ L >= 2 /\ w \in Seq(Stop)
  BY RouteFacts
<1>2. ~AddWaypointAborts(w) /\ w[1].time < w[2].time
  BY AscendingRoute
<1>3. ASSUME NEW i \in 1..(L - 1) PROVE w[i].time < w[i + 1].time
  <2>1. CASE i = 1
    <3>1. i + 1 = 2
      BY <2>1
    <3>. QED
      BY <1>2, <2>1, <3>1
  <2>2. CASE i # 1
    <3>1. i \in 2..L /\ i + 1 \in 2..L /\ i < i + 1
      BY <1>1, <2>2
    <3>. QED
      BY <1>1, <1>2, <3>1, RouteStrict
  <2>. QED
    BY <2>1, <2>2
<1>4. ASSUME NEW k \in 1..L, Ahead(m, w, k) PROVE SpanPositive(m)
  <2>1. \A i \in k..(Len(w) - 1) : w[i].time < w[i + 1].time
    <3>1. \A i \in k..(L - 1) : i \in 1..(L - 1)
      BY <1>1
    <3>. QED
      BY <1>1, <1>3, <3>1
  <2>. QED
    BY <1>1, <1>4, <2>1, SpanAhead
<1>5. CASE AtStart(m, w, now)
  <2>1. Ahead(m, w, 1)
    BY <1>5, StartAhead DEF AtStart
  <2>2. 1 \in 1..L
    BY <1>1
  <2>. QED
    BY <1>4, <2>1, <2>2
<1>6. ASSUME NEW k \in 2..L, Underway(m, w, now, k) PROVE SpanPositive(m)
  <2>1. PICK c \in Nat : m = OnLeg(w, k, c)
    BY <1>6 DEF Underway
  <2>2. Ahead(m, w, k)
    BY <2>1 DEF Ahead, OnLeg
  <2>3. k \in 1..L
    BY <1>1
  <2>. QED
    BY <1>4, <2>2, <2>3
<1>7. CASE Arrived(m, w, now)
  <2>1. PICK c \in Nat : c <= now /\ m = Parked(c)
    BY <1>7 DEF Arrived
  <2>. QED
    BY <2>1, UpdatedParked
<1>. QED
  BY <1>1, <1>5, <1>6, <1>7 DEF OnRoute

-----------------------------------------------------------------------------
(* The invariant is inductive *)

LEMMA VehicleTrack ==
  ASSUME DataInv, vehicle \in Vehicles
  PROVE  /\ Track \in Tracks
         /\ First \in Nat /\ Last \in Nat /\ First <= Last
         /\ \E o \in 0..2 : RouteOf(Route, Track, o)
<1>1. Track \in Tracks
  BY DEF DataInv, Track
<1>2. PICK n \in Nat : n = Len(Track) /\ n >= 1
  BY <1>1, TrackFacts
<1>3. 1 \in 1..n /\ n \in 1..n /\ 1 <= n
  BY <1>2
<1>4. First \in Nat /\ Last \in Nat /\ First <= Last
  BY <1>1, <1>2, <1>3, TrackFacts DEF First, Last
<1>. QED
  BY <1>1, <1>4, RouteExists DEF Route

LEMMA WindowFacts ==
  ASSUME DataInv, vehicle \in Vehicles, simTime \in Nat
  PROVE  /\ WindowStart \in Int /\ First <= WindowStart
         /\ WindowStop \in Int /\ WindowStop <= Last
<1>1. First \in Nat /\ Last \in Nat /\ AppStart \in Nat
  BY VehicleTrack, GridFacts
<1>2. WindowStart \in Int /\ WindowStart = IF AppStart >= First THEN AppStart ELSE First
  BY <1>1, MaxOfTwo DEF WindowStart
<1>3. WindowStop \in Int /\ WindowStop = IF simTime <= Last THEN simTime ELSE Last
  BY <1>1, MinOfTwo DEF WindowStop
<1>. QED
  BY <1>1, <1>2, <1>3

LEMMA InitFleetInv == FleetInit \/ StaticInit => FleetInv
<1>0. 0 \in Nat /\ 1 \in Nat /\ 1 <= 1 /\ MaxTime \in Nat /\ 0 <= MaxTime
  BY GridFacts
<1>1. ASSUME FleetInit PROVE FleetInv
  <2>1. /\ rows \in [Vehicles -> Tracks] /\ now = 0 /\ vehicle = NoVehicle /\ lastIndex = 1
        /\ vdp = NoVdp /\ dynamic = TRUE /\ app = "created" /\ aborted = FALSE
    BY <1>1 DEF FleetInit, Init
  <2>2. DataInv
    BY <1>0, <2>1 DEF DataInv
  <2>3. VdpInv /\ AppInv
    BY <2>1, Zenon DEF VdpInv, AppInv
  <2>4. RouteInv /\ AscendingTracksRun
    BY <2>1, Zenon DEF RouteInv, AscendingTracksRun, Static
  <2>. QED
    BY <2>2, <2>3, <2>4 DEF FleetInv
<1>2. ASSUME StaticInit PROVE FleetInv
  <2>1. PICK t \in Tracks : rows = [v \in Vehicles |-> t]
    BY <1>2 DEF StaticInit
  <2>2. /\ now = 0 /\ lastIndex = 1 /\ vdp = NoVdp /\ vehicle \in Vehicles
        /\ dynamic = FALSE /\ simTime \in SimTimes /\ app = "created"
        /\ mob = AddWaypoints(Route) /\ aborted = AddWaypointAborts(Route)
    BY <1>2 DEF StaticInit, Route
  <2>3. Track = t
    BY <2>1, <2>2 DEF Track
  <2>4. Len(t) \in Nat /\ 1 <= Len(t)
    BY TrackFacts
  <2>5. vehicle # NoVehicle
    BY <2>2, GridFacts
  <2>6. DataInv
    BY <1>0, <2>1, <2>2, <2>3, <2>4, <2>5 DEF DataInv
  <2>7. VdpInv
    BY <2>2 DEF VdpInv
  <2>8. AppInv
    <3>1. simTime \in Nat /\ simTime <= MaxTime /\ 0 <= simTime
      BY <2>2, GridFacts
    <3>2. aborted \in BOOLEAN
      BY <2>2, Zenon DEF AddWaypointAborts
    <3>. QED
      BY <2>2, <3>1, <3>2 DEF AppInv
  <2>9. RouteInv
    BY <2>2, Zenon DEF RouteInv, Static, OnRoute, AtStart
  <2>10. AscendingTracksRun
    <3>1. PICK o \in 0..2 : RouteOf(Route, Track, o)
      BY <2>2, <2>6, VehicleTrack
    <3>2. (\A i \in 2..Len(Track) : Track[i - 1].time < Track[i].time) =>
            ~AddWaypointAborts(Route)
      BY <2>3, <3>1, AscendingRoute
    <3>. QED
      BY <2>2, <3>2, Zenon DEF AscendingTracksRun
  <2>. QED
    BY <2>6, <2>7, <2>8, <2>9, <2>10 DEF FleetInv
<1>. QED
  BY <1>1, <1>2

(* A query keeps the cursor on the track. *)
LEMMA QueryKeepsDataInv ==
  ASSUME DataInv, lastIndex' = NextIndex, UNCHANGED <<rows, now, vehicle>>
  PROVE  DataInv'
<1>1. CASE vehicle = NoVehicle
  <2>1. lastIndex' = lastIndex
    BY <1>1 DEF NextIndex
  <2>. QED
    BY <1>1, <2>1 DEF DataInv, Track
<1>2. CASE vehicle # NoVehicle
  <2>1. lastIndex' \in 1..Len(Track) /\ Len(Track) \in Nat
    <3>1. Track \in Tracks
      BY <1>2 DEF DataInv, Track
    <3>. QED
      BY <1>2, <3>1, NextIndexOnTrack, TrackFacts
  <2>2. Track' = Track
    BY DEF Track
  <2>3. lastIndex' \in Nat /\ 1 <= lastIndex' /\ lastIndex' <= Len(Track)
    BY <2>1
  <2>. QED
    BY <1>2, <2>2, <2>3 DEF DataInv
<1>. QED
  BY <1>1, <1>2

(* Steps of a UE of the pool *)
LEMMA PoolStepKeepsFleetInv ==
  ASSUME FleetInv, dynamic, Next, UNCHANGED staticVars
  PROVE  FleetInv'
<1>1. /\ dynamic' = dynamic /\ simTime' = simTime /\ mob' = mob /\ app' = app
      /\ aborted' = aborted
  BY DEF staticVars
<1>2. DataInv /\ VdpInv /\ AppInv
  BY DEF FleetInv
<1>3. AppInv'
  BY <1>1, <1>2, Zenon DEF AppInv
<1>4. RouteInv' /\ AscendingTracksRun'
  BY <1>1, Zenon DEF RouteInv, AscendingTracksRun, Static
<1>5. DataInv' /\ VdpInv'
  <2>1. ASSUME NEW v \in Vehicles, AssignVehicle(v) PROVE DataInv' /\ VdpInv'
    <3>1. /\ vehicle' = v /\ lastIndex' = 1 /\ vdp' = vdp /\ rows' = rows /\ now' = now
      BY <2>1 DEF AssignVehicle, ConfigureVehicleServiceState
    <3>2. Len(rows[v]) \in Nat /\ 1 <= Len(rows[v]) /\ v # NoVehicle
      <4>1. rows[v] \in Tracks
        BY <1>2 DEF DataInv
      <4>. QED
        BY <4>1, TrackFacts, GridFacts
    <3>3. DataInv'
      BY <1>2, <3>1, <3>2 DEF DataInv, Track
    <3>. QED
      BY <1>2, <3>1, <3>3 DEF VdpInv
  <2>2. CASE ReleaseVehicle
    <3>1. /\ vehicle' = NoVehicle /\ lastIndex' = 1 /\ vdp' = vdp /\ rows' = rows /\ now' = now
      BY <2>2 DEF ReleaseVehicle, ConfigureVehicleServiceState
    <3>2. 1 \in Nat /\ 1 <= 1
      OBVIOUS
    <3>3. DataInv'
      BY <1>2, <3>1, <3>2 DEF DataInv
    <3>. QED
      BY <1>2, <3>1, <3>3 DEF VdpInv
  <2>3. CASE DoGetVelocity
    <3>1. lastIndex' = NextIndex /\ UNCHANGED <<rows, now, vehicle>> /\ vdp' = vdp
      BY <2>3 DEF DoGetVelocity
    <3>. QED
      BY <1>2, <3>1, QueryKeepsDataInv DEF VdpInv
  <2>4. CASE StartApplication
    <3>1. /\ lastIndex' = NextIndex /\ UNCHANGED <<rows, now, vehicle>>
          /\ vdp' = [started |-> TRUE, lastSpeed |-> Speed, lastTime |-> now,
                     lastOf |-> vehicle]
      BY <2>4 DEF StartApplication
    <3>2. Speed \in Int /\ now \in Nat /\ vehicle \in Vehicles \cup {NoVehicle}
      BY <1>2, SpeedIsInt DEF DataInv
    <3>3. VdpInv'
      BY <3>1, <3>2 DEF VdpInv
    <3>. QED
      BY <1>2, <3>1, <3>3, QueryKeepsDataInv
  <2>5. CASE GetCamMandatoryData
    <3>1. /\ lastIndex' = NextIndex /\ UNCHANGED <<rows, now, vehicle>> /\ vdp # NoVdp
          /\ vdp' = [vdp EXCEPT !.lastSpeed = Speed, !.lastTime = now, !.lastOf = vehicle]
      BY <2>5 DEF GetCamMandatoryData, Disseminating
    <3>2. Speed \in Int /\ now \in Nat /\ vehicle \in Vehicles \cup {NoVehicle}
      BY <1>2, SpeedIsInt DEF DataInv
    <3>3. vdp' \in [started : {TRUE}, lastSpeed : Int, lastTime : Nat,
                    lastOf : Vehicles \cup {NoVehicle}]
      BY <1>2, <3>1, <3>2 DEF VdpInv
    <3>. QED
      BY <1>2, <3>1, <3>3, QueryKeepsDataInv DEF VdpInv
  <2>6. CASE Tick
    <3>1. /\ now' = now + 1 /\ now < MaxTime /\ rows' = rows /\ vehicle' = vehicle
          /\ lastIndex' = lastIndex /\ vdp' = vdp
      BY <2>6 DEF Tick
    <3>2. now' \in Nat /\ now' <= MaxTime
      BY <1>2, <3>1, GridFacts DEF DataInv
    <3>3. DataInv'
      BY <1>2, <3>1, <3>2 DEF DataInv, Track
    <3>. QED
      BY <1>2, <3>1, <3>3 DEF VdpInv
  <2>. QED
    BY <2>1, <2>2, <2>3, <2>4, <2>5, <2>6 DEF Next
<1>. QED
  BY <1>3, <1>4, <1>5 DEF FleetInv

LEMMA VelocityIsInt ==
  ASSUME NEW r \in Tracks, NEW w, NEW o, RouteOf(w, r, o), NEW t, NEW m, OnRoute(m, w, t)
  PROVE  m.vel \in Int
<1>1. CASE AtStart(m, w, t)
  BY <1>1 DEF AtStart, AddWaypoints
<1>2. ASSUME NEW k \in 2..Len(w), Underway(m, w, t, k) PROVE m.vel \in Int
  <2>1. w[k - 1].time < w[k].time /\ \E c \in Nat : m = OnLeg(w, k, c)
    BY <1>2 DEF Underway
  <2>2. m.vel = Slope(w[k - 1], w[k])
    BY <2>1 DEF OnLeg
  <2>3. k \in 1..Len(w) /\ k - 1 \in 1..Len(w)
    BY RouteFacts
  <2>4. w[k] \in Stop /\ w[k - 1] \in Stop
    BY <2>3, RouteFacts
  <2>. QED
    BY <2>1, <2>2, <2>4, SlopeIsInt
<1>3. CASE Arrived(m, w, t)
  BY <1>3 DEF Arrived, Parked
<1>. QED
  BY <1>1, <1>2, <1>3 DEF OnRoute

(* Update, in whichever event *)
LEMMA UpdateKeepsRoute ==
  ASSUME FleetInv, ~dynamic, ~aborted, Update, UNCHANGED <<rows, now, vehicle, dynamic>>
  PROVE  RouteInv' /\ AscendingTracksRun' /\ aborted' \in BOOLEAN /\ mob'.vel \in Int
<1>1. /\ rows' = rows /\ now' = now /\ vehicle' = vehicle /\ dynamic' = dynamic
      /\ now \in Nat /\ vehicle \in Vehicles /\ DataInv /\ aborted \in BOOLEAN
  BY DEF FleetInv, DataInv, AppInv
<1>2. PICK w, r : w = Route /\ r = Track
  OBVIOUS
<1>3. Track' = r /\ Route' = w
  <2>1. Track' = Track
    BY <1>1 DEF Track
  <2>. QED
    BY <1>2, <2>1 DEF Route
<1>4. PICK o \in 0..2 : r \in Tracks /\ RouteOf(w, r, o)
  BY <1>1, <1>2, VehicleTrack
<1>5. ~AddWaypointAborts(w) /\ OnRoute(mob, w, now)
  BY <1>2 DEF FleetInv, RouteInv, Static
<1>6. CASE SpanPositive(mob)
  <2>1. mob' = Updated(mob) /\ aborted' = aborted
    BY <1>6 DEF Update
  <2>2. PICK u : u = Updated(mob)
    OBVIOUS
  <2>3. Current(u, w)
    BY <1>1, <1>4, <1>5, <2>2, UpdatedIsCurrent
  <2>4. OnRoute(u, w, now) /\ u.vel \in Int
    BY <1>1, <1>4, <2>3, CurrentIsOnRoute
  <2>5. mob' = u
    BY <2>1, <2>2
  <2>6. RouteInv'
    BY <1>1, <1>3, <1>5, <2>4, <2>5 DEF RouteInv
  <2>7. AscendingTracksRun'
    BY <2>1, Zenon DEF AscendingTracksRun
  <2>. QED
    BY <1>1, <2>1, <2>4, <2>5, <2>6, <2>7
<1>7. CASE ~SpanPositive(mob)
  <2>1. mob' = mob /\ aborted' = TRUE
    BY <1>7 DEF Update
  <2>2. mob.vel \in Int
    BY <1>4, <1>5, VelocityIsInt
  <2>3. RouteInv'
    BY <2>1, Zenon DEF RouteInv, Static
  <2>4. AscendingTracksRun'
    <3>1. ~\A i \in 2..Len(r) : r[i - 1].time < r[i].time
      BY <1>1, <1>4, <1>5, <1>7, AscendingSpans
    <3>. QED
      BY <1>3, <3>1 DEF AscendingTracksRun
  <2>. QED
    BY <2>1, <2>2, <2>3, <2>4
<1>. QED
  BY <1>6, <1>7

(* The window of the application does not change. *)
LEMMA SameWindow ==
  ASSUME UNCHANGED <<rows, vehicle, simTime>>
  PROVE  /\ Track' = Track
         /\ WindowStart' = WindowStart /\ WindowStop' = WindowStop
         /\ HasWindow' <=> HasWindow
<1>1. rows' = rows /\ vehicle' = vehicle /\ simTime' = simTime
  OBVIOUS
<1>2. Track' = Track
  BY <1>1 DEF Track
<1>3. First' = First /\ Last' = Last
  BY <1>2, Zenon DEF First, Last
<1>4. WindowStart' = WindowStart
  BY <1>3, Zenon DEF WindowStart
<1>5. WindowStop' = WindowStop
  BY <1>1, <1>3, Zenon DEF WindowStop
<1>. QED
  BY <1>2, <1>4, <1>5, Zenon DEF HasWindow

(* Steps of a UE of the static fleet *)
LEMMA StaticStepKeepsFleetInv ==
  ASSUME FleetInv, ~dynamic, ~aborted, StaticNext
  PROVE  FleetInv'
<1>1. /\ DataInv /\ VdpInv /\ AppInv /\ RouteInv /\ AscendingTracksRun
      /\ now \in Nat /\ vehicle \in Vehicles /\ simTime \in Nat /\ now <= simTime
      /\ simTime <= MaxTime
      /\ app \in {"created", "running", "stopped"} /\ aborted \in BOOLEAN
      /\ dynamic \in BOOLEAN
  BY DEF FleetInv, DataInv, AppInv
<1>2. WindowStart \in Int /\ WindowStop \in Int
  BY <1>1, WindowFacts
<1>3. /\ app = "running" => vdp # NoVdp
      /\ app = "running" /\ HasWindow => WindowStart <= now /\ now <= WindowStop
  BY DEF FleetInv, AppInv
<1>4. ASSUME UNCHANGED <<rows, now, vehicle, lastIndex>>, UNCHANGED <<dynamic, simTime>>,
             Update, VdpInv', app' \in {"created", "running", "stopped"},
             app' = "running" => vdp' # NoVdp,
             app' = "running" /\ HasWindow => WindowStart <= now /\ now <= WindowStop
      PROVE  FleetInv'
  <2>1. /\ rows' = rows /\ now' = now /\ vehicle' = vehicle /\ lastIndex' = lastIndex
        /\ dynamic' = dynamic /\ simTime' = simTime
    BY <1>4
  <2>2. RouteInv' /\ AscendingTracksRun' /\ aborted' \in BOOLEAN
    BY <1>4, UpdateKeepsRoute
  <2>3. DataInv'
    BY <1>1, <2>1 DEF DataInv, Track
  <2>4. /\ WindowStart' = WindowStart /\ WindowStop' = WindowStop
        /\ HasWindow' <=> HasWindow
    BY <2>1, SameWindow
  <2>5. AppInv'
    BY <1>1, <1>4, <2>1, <2>2, <2>4 DEF AppInv
  <2>. QED
    BY <1>4, <2>2, <2>3, <2>5 DEF FleetInv
<1>5. CASE ScheduledUpdate \/ DoGetPosition
  <2>1. /\ UNCHANGED <<rows, now, vehicle, lastIndex>> /\ UNCHANGED <<dynamic, simTime>>
        /\ Update /\ vdp' = vdp /\ app' = app
    BY <1>5 DEF ScheduledUpdate, DoGetPosition, vars
  <2>2. VdpInv'
    BY <1>1, <2>1 DEF VdpInv
  <2>. QED
    BY <1>1, <1>3, <1>4, <2>1, <2>2
<1>6. CASE StartStaticApplication
  <2>1. /\ UNCHANGED <<rows, now, vehicle, lastIndex>> /\ UNCHANGED <<dynamic, simTime>>
        /\ Update /\ app' = "running" /\ StartDue
        /\ vdp' = [started |-> TRUE, lastSpeed |-> Abs(mob'.vel), lastTime |-> now,
                   lastOf |-> vehicle]
    BY <1>6 DEF StartStaticApplication
  <2>2. Abs(mob'.vel) \in Int
    BY <2>1, UpdateKeepsRoute DEF Abs
  <2>3. VdpInv'
    BY <1>1, <2>1, <2>2 DEF VdpInv
  <2>4. HasWindow => WindowStart <= now /\ now <= WindowStop
    BY <1>1, <1>2, <2>1 DEF StartDue, StartTime, HasWindow
  <2>5. vdp' # NoVdp
    BY <2>1 DEF NoVdp
  <2>. QED
    BY <1>4, <2>1, <2>3, <2>4, <2>5
<1>7. CASE StopStaticApplication
  <2>1. /\ rows' = rows /\ now' = now /\ vehicle' = vehicle /\ lastIndex' = lastIndex
        /\ vdp' = vdp /\ dynamic' = dynamic /\ simTime' = simTime /\ mob' = mob
        /\ aborted' = aborted /\ app' = "stopped"
    BY <1>7 DEF StopStaticApplication, vars
  <2>2. DataInv' /\ VdpInv'
    BY <1>1, <2>1 DEF DataInv, VdpInv, Track
  <2>3. AppInv'
    BY <1>1, <2>1 DEF AppInv
  <2>4. Track' = Track
    BY <2>1 DEF Track
  <2>5. RouteInv' /\ AscendingTracksRun'
    BY <1>1, <2>1, <2>4 DEF RouteInv, AscendingTracksRun, Static, Route
  <2>. QED
    BY <2>2, <2>3, <2>5 DEF FleetInv
<1>8. CASE SendCam
  <2>1. /\ UNCHANGED <<rows, now, vehicle, lastIndex>> /\ UNCHANGED <<dynamic, simTime>>
        /\ Update /\ app' = app /\ vdp # NoVdp
        /\ vdp' = [vdp EXCEPT !.lastSpeed = Abs(mob'.vel), !.lastTime = now]
    BY <1>3, <1>8 DEF SendCam, OnAir
  <2>2. Abs(mob'.vel) \in Int
    BY <2>1, UpdateKeepsRoute DEF Abs
  <2>3. vdp' \in [started : {TRUE}, lastSpeed : Int, lastTime : Nat,
                  lastOf : Vehicles \cup {NoVehicle}]
    BY <1>1, <2>1, <2>2 DEF VdpInv
  <2>4. vdp'.started = TRUE /\ NoVdp.started = FALSE
    BY <2>3 DEF NoVdp
  <2>5. VdpInv' /\ vdp' # NoVdp
    BY <2>3, <2>4 DEF VdpInv
  <2>. QED
    BY <1>1, <1>3, <1>4, <2>1, <2>5
<1>9. CASE StaticTick
  <2>1. /\ rows' = rows /\ now' = now + 1 /\ vehicle' = vehicle /\ lastIndex' = lastIndex
        /\ vdp' = vdp /\ dynamic' = dynamic /\ simTime' = simTime /\ mob' = mob
        /\ aborted' = aborted /\ app' = app
        /\ now < simTime /\ ~UpdateDue /\ ~StopDue
    BY <1>9 DEF StaticTick, staticVars
  <2>2. now' \in Nat /\ now' <= MaxTime /\ now' <= simTime
    BY <1>1, <2>1, GridFacts
  <2>3. DataInv' /\ VdpInv'
    BY <1>1, <2>1, <2>2 DEF DataInv, VdpInv, Track
  <2>4. /\ Track' = Track /\ WindowStart' = WindowStart /\ WindowStop' = WindowStop
        /\ HasWindow' <=> HasWindow
    BY <2>1, SameWindow
  <2>5. app = "running" /\ HasWindow => WindowStart <= now + 1 /\ now + 1 <= WindowStop
    BY <1>1, <1>2, <1>3, <2>1 DEF StopDue
  <2>6. AppInv'
    BY <1>1, <1>3, <2>1, <2>2, <2>4, <2>5 DEF AppInv
  <2>7. AscendingTracksRun'
    BY <1>1, <2>1, <2>4 DEF AscendingTracksRun
  <2>8. PICK w : w = Route /\ w = Route'
    BY <2>4 DEF Route
  <2>9. ~AddWaypointAborts(w) /\ OnRoute(mob, w, now)
    BY <1>1, <2>8 DEF RouteInv, Static
  <2>10. PICK r \in Tracks : \E o \in 0..2 : RouteOf(w, r, o)
    BY <1>1, <2>8, VehicleTrack
  <2>11. OnRoute(mob, w, now + 1)
    <3>1. PICK o \in 0..2 : RouteOf(w, r, o)
      BY <2>10
    <3>2. ~AtStart(mob, w, now)
      BY <2>1, <3>1, StartAhead DEF AtStart, UpdateDue
    <3>3. ASSUME NEW k \in 2..Len(w), Underway(mob, w, now, k)
          PROVE  Underway(mob, w, now + 1, k)
      <4>1. PICK c \in Nat : /\ w[k - 1].time < w[k].time
                             /\ w[k - 1].time <= c /\ c <= now /\ now <= w[k].time
                             /\ mob = OnLeg(w, k, c)
        BY <3>3 DEF Underway
      <4>2. mob.next.time = w[k].time
        BY <4>1 DEF OnLeg
      <4>3. k \in 1..Len(w)
        BY <3>1, RouteFacts
      <4>4. w[k].time \in Nat
        BY <3>1, <4>3, RouteFacts
      <4>5. c <= now + 1 /\ now + 1 <= w[k].time
        BY <1>1, <2>1, <4>1, <4>2, <4>4 DEF UpdateDue
      <4>. QED
        BY <4>1, <4>5 DEF Underway
    <3>4. ASSUME Arrived(mob, w, now) PROVE Arrived(mob, w, now + 1)
      <4>1. PICK c \in Nat : w[Len(w)].time <= c /\ c <= now /\ mob = Parked(c)
        BY <3>4 DEF Arrived
      <4>2. c <= now + 1
        BY <1>1, <4>1
      <4>. QED
        BY <4>1, <4>2 DEF Arrived
    <3>. QED
      BY <2>9, <3>2, <3>3, <3>4 DEF OnRoute
  <2>12. RouteInv'
    BY <2>1, <2>8, <2>9, <2>11 DEF RouteInv
  <2>. QED
    BY <2>3, <2>6, <2>7, <2>12 DEF FleetInv
<1>. QED
  BY <1>5, <1>6, <1>7, <1>8, <1>9 DEF StaticNext

LEMMA NextPreservesFleetInv == FleetInv /\ [FleetNext]_fleetVars => FleetInv'
<1> SUFFICES ASSUME FleetInv, [FleetNext]_fleetVars PROVE FleetInv'
  OBVIOUS
<1>1. CASE dynamic /\ Next /\ UNCHANGED staticVars
  BY <1>1, PoolStepKeepsFleetInv
<1>2. CASE ~dynamic /\ ~aborted /\ StaticNext
  BY <1>2, StaticStepKeepsFleetInv
<1>3. CASE UNCHANGED fleetVars
  <2>1. /\ rows' = rows /\ now' = now /\ vehicle' = vehicle /\ lastIndex' = lastIndex
        /\ vdp' = vdp /\ dynamic' = dynamic /\ simTime' = simTime /\ mob' = mob
        /\ app' = app /\ aborted' = aborted
    BY <1>3 DEF fleetVars, vars, staticVars
  <2>2. Track' = Track /\ (HasWindow' <=> HasWindow)
        /\ WindowStart' = WindowStart /\ WindowStop' = WindowStop
    BY <2>1, SameWindow
  <2>3. DataInv' /\ VdpInv'
    BY <2>1, <2>2 DEF FleetInv, DataInv, VdpInv
  <2>4. AppInv'
    BY <2>1, <2>2 DEF FleetInv, AppInv
  <2>5. RouteInv' /\ AscendingTracksRun'
    BY <2>1, <2>2 DEF FleetInv, RouteInv, Route, Static, AscendingTracksRun
  <2>. QED
    BY <2>3, <2>4, <2>5 DEF FleetInv
<1>. QED
  BY <1>1, <1>2, <1>3 DEF FleetNext

-----------------------------------------------------------------------------
(* The place and the velocity on a leg *)

(* The legs of a route: to the first row, between two rows, to the parking *)
(* place.                                                                  *)
LEMMA LegCases ==
  ASSUME NEW r \in Tracks, NEW w, NEW o, RouteOf(w, r, o), NEW i \in 1..(Len(w) - 1)
  PROVE  \/ /\ w[i].x = Parking /\ w[i + 1].time <= r[1].time
            /\ w[i + 1].x = Parking \/ w[i + 1].time = w[i].time + 1
         \/ \E j \in 1..(Len(r) - 1) :
              /\ w[i].time = r[j].time /\ w[i].x = r[j].val
              /\ w[i + 1].time = r[j + 1].time /\ w[i + 1].x = r[j + 1].val
         \/ /\ w[i].time = r[Len(r)].time /\ w[i].x = r[Len(r)].val
            /\ w[i + 1].time = r[Len(r)].time + 1
<1>1. PICK n \in Nat : n = Len(r) /\ n >= 1
  BY TrackFacts
<1>2. PICK L \in Nat : L = Len(w)
  BY RouteFacts
<1>3. /\ o \in 0..2 /\ L = o + n + 1
      /\ \A k \in 1..o : w[k].x = Parking
      /\ o > 0 => w[o].time = r[1].time - 1
      /\ \A k \in 1..n : w[o + k] = Waypoint(r[k].time, r[k].val)
      /\ w[L] = Waypoint(r[n].time + 1, Parking)
  <2>1. /\ o \in 0..2 /\ Len(w) = o + Len(r) + 1
        /\ \A k \in 1..o : w[k].x = Parking
        /\ o > 0 => w[o].time = r[1].time - 1
        /\ \A k \in 1..Len(r) : w[o + k] = Waypoint(r[k].time, r[k].val)
        /\ w[Len(w)] = Waypoint(r[Len(r)].time + 1, Parking)
    BY Zenon DEF RouteOf
  <2>. QED
    BY <1>1, <1>2, <2>1, Zenon
<1>4. \A k \in 1..n : r[k].time \in Nat /\ r[k].val \in Int
  BY <1>1, TrackFacts
<1>5. ASSUME NEW k \in 1..n PROVE w[o + k].time = r[k].time /\ w[o + k].x = r[k].val
  <2>1. w[o + k] = Waypoint(r[k].time, r[k].val)
    BY <1>3, Zenon
  <2>. QED
    BY <2>1 DEF Waypoint
<1>6. CASE i < o
  <2>1. i \in 1..o /\ i + 1 \in 1..o /\ i + 1 = o
    BY <1>3, <1>6
  <2>2. w[i].x = Parking /\ w[i + 1].x = Parking /\ w[i + 1].time = r[1].time - 1
    BY <1>3, <2>1
  <2>3. r[1].time \in Nat
    BY <1>1, <1>4
  <2>4. w[i + 1].time <= r[1].time
    BY <2>2, <2>3
  <2>. QED
    BY <2>2, <2>4
<1>7. CASE i = o
  <2>1. i \in 1..o /\ 1 \in 1..n /\ o > 0
    BY <1>1, <1>3, <1>7
  <2>2. /\ w[i].x = Parking /\ w[i].time = r[1].time - 1 /\ w[i + 1].time = r[1].time
        /\ r[1].time \in Nat
    BY <1>3, <1>4, <1>5, <1>7, <2>1
  <2>3. w[i + 1].time <= r[1].time /\ w[i + 1].time = w[i].time + 1
    BY <2>2
  <2>. QED
    BY <2>2, <2>3
<1>8. CASE i > o /\ i < o + n
  <2>1. PICK j \in 1..(n - 1) : i = o + j /\ i + 1 = o + (j + 1) /\ j \in 1..n /\ j + 1 \in 1..n
    <3>1. i - o \in 1..(n - 1) /\ i = o + (i - o) /\ i + 1 = o + ((i - o) + 1)
          /\ i - o \in 1..n /\ (i - o) + 1 \in 1..n
      BY <1>3, <1>8
    <3>. QED
      BY <3>1
  <2>2. /\ w[i].time = r[j].time /\ w[i].x = r[j].val
        /\ w[i + 1].time = r[j + 1].time /\ w[i + 1].x = r[j + 1].val
    BY <1>5, <2>1
  <2>. QED
    BY <1>1, <2>2
<1>9. CASE i = o + n
  <2>1. n \in 1..n /\ i + 1 = L
    BY <1>1, <1>3, <1>9
  <2>2. w[i].time = r[n].time /\ w[i].x = r[n].val
    BY <1>5, <1>9, <2>1
  <2>3. w[i + 1].time = r[n].time + 1
    BY <1>3, <2>1 DEF Waypoint
  <2>. QED
    BY <1>1, <2>2, <2>3
<1>10. i < o \/ i = o \/ (i > o /\ i < o + n) \/ i = o + n
  BY <1>2, <1>3
<1>. QED
  BY <1>6, <1>7, <1>8, <1>9, <1>10

(* The slope between two rows is exact on the grid. *)
LEMMA SlopeOfRows ==
  ASSUME NEW a, NEW b, NEW p \in Row, NEW q \in Row, p.time < q.time,
         a.time = p.time, a.x = p.val, b.time = q.time, b.x = q.val
  PROVE  Slope(a, b) \in Int /\ Slope(a, b) * (q.time - p.time) = q.val - p.val
<1>1. /\ p.time \in RowTimes /\ q.time \in RowTimes /\ p.val \in Speeds /\ q.val \in Speeds
  BY DEF Row
<1>2. p.time \in Nat /\ q.time \in Nat /\ p.val \in Nat /\ q.val \in Nat
  BY <1>1, GridFacts
<1>3. (q.val - p.val) % (q.time - p.time) = 0
  BY <1>1, FleetAssumption
<1>4. PICK n \in Int, d \in Int : n = q.val - p.val /\ d = q.time - p.time /\ d > 0
  <2>1. q.val - p.val \in Int /\ q.time - p.time \in Int /\ q.time - p.time > 0
    BY <1>2
  <2>. QED
    BY <2>1
<1>5. (n \div d) * d = n
  BY <1>3, <1>4, DivisionExact
<1>6. n \div d \in Int
  BY <1>4
<1>7. Slope(a, b) = n \div d
  BY <1>4 DEF Slope
<1>. QED
  BY <1>4, <1>5, <1>6, <1>7

(* Between two rows the interpolation and the waypoint model agree. *)
LEMMA BetweenIsLinear ==
  ASSUME NEW a \in Row, NEW b \in Row, NEW t \in Nat, NEW s \in Int,
         a.time <= t, t < b.time, s * (b.time - a.time) = b.val - a.val
  PROVE  Between(a, b, t) = a.val + s * (t - a.time)
<1>1. \A z \in Row : z.time \in Nat /\ z.val \in Nat
  BY GridFacts DEF Row
<1>2. a.time \in Int /\ b.time \in Int /\ a.val \in Int /\ b.val \in Int /\ t \in Int
  BY <1>1
<1>3. Min({b.time, t}) = t
  BY <1>2, MinOfTwo
<1>4. Max({a.time, t}) = t
  <2>1. Max({a.time, t}) = IF a.time >= t THEN a.time ELSE t
    BY <1>2, MaxOfTwo
  <2>. QED
    BY <1>2, <2>1
<1>5. PICK d \in Int, k \in Int : d = b.time - a.time /\ d > 0 /\ k = t - a.time
  <2>1. b.time - a.time \in Int /\ b.time - a.time > 0 /\ t - a.time \in Int
    BY <1>2
  <2>. QED
    BY <2>1
<1>6. (k * (s * d)) \div d = k * s
  BY <1>5, DivisionOfMultiple
<1>7. k * s = s * k
  OBVIOUS
<1>8. ~(b.time <= a.time)
  BY <1>2
<1>9. Between(a, b, t) = a.val + (k * (s * d)) \div d
  BY <1>3, <1>4, <1>5, <1>8 DEF Between
<1>. QED
  BY <1>5, <1>6, <1>7, <1>9

(* The value of a track at its j-th row or between that and the next *)
LEMMA ValueAtRow ==
  ASSUME NEW r \in Tracks, r = rows[vehicle], now \in Nat, NEW j \in 1..Len(r),
         r[j].time <= now, j < Len(r) => now < r[j + 1].time
  PROVE  ValueOfTrack(vehicle, now) =
           IF j = Len(r) THEN r[j].val ELSE Between(r[j], r[j + 1], now)
<1>1. PICK n \in Nat : n = Len(r) /\ DOMAIN r = 1..n
  BY TrackFacts
<1>2. /\ \A i \in 1..n : r[i].time \in Nat
      /\ \A i, k \in 1..n : i <= k => r[i].time <= r[k].time
  BY <1>1, TrackFacts
<1>3. PICK S : S = {i \in DOMAIN r : r[i].time <= now}
  OBVIOUS
<1>4. S \subseteq Int /\ j \in S
  BY <1>1, <1>3
<1>5. ASSUME NEW y \in S PROVE j >= y
  <2>1. y \in 1..n /\ r[y].time <= now
    BY <1>1, <1>3
  <2>2. SUFFICES ASSUME ~(j >= y) PROVE FALSE
    OBVIOUS
  <2>3. j < n /\ j + 1 \in 1..n /\ j + 1 <= y
    BY <1>1, <2>1, <2>2
  <2>4. r[j + 1].time <= r[y].time /\ r[j + 1].time \in Nat /\ r[y].time \in Nat
    BY <1>2, <2>1, <2>3
  <2>5. now < r[j + 1].time
    BY <1>1, <2>3
  <2>. QED
    BY <2>1, <2>4, <2>5
<1>6. Max(S) = j
  BY <1>4, <1>5, MaxIs
<1>. QED
  BY <1>3, <1>6 DEF ValueOfTrack

(* What Update leaves is the place on the track, or the parking place. *)
LEMMA CurrentPlace ==
  ASSUME DataInv, vehicle \in Vehicles, NEW u, Current(u, Route)
  PROVE  u.cur.x = PlaceOfTrack
<1>. PICK w : w = Route
  OBVIOUS
<1>1. PICK r \in Tracks : /\ r = Track /\ r = rows[vehicle] /\ w = Route
                          /\ \E o \in 0..2 : RouteOf(w, r, o)
  BY VehicleTrack DEF Track
<1>2. PICK o \in 0..2 : RouteOf(w, r, o)
  BY <1>1
<1>3. PICK n \in Nat : n = Len(r) /\ n >= 1
  BY TrackFacts
<1>4. /\ \A i \in 1..n : r[i] \in Row /\ r[i].time \in Nat /\ r[i].val \in Int
      /\ \A i, j \in 1..n : i <= j => r[i].time <= r[j].time
  BY <1>3, TrackFacts
<1>5. PICK L \in Nat : L = Len(w) /\ L >= 2
  BY <1>2, RouteFacts
<1>6. \A i \in 1..L : w[i] \in Stop /\ w[i].time \in Nat /\ w[i].x \in Int
  BY <1>2, <1>5, RouteFacts
<1>7. First = r[1].time /\ Last = r[n].time /\ now \in Nat
  BY <1>1, <1>3 DEF First, Last, DataInv
<1>8. First \in Nat /\ Last \in Nat
  <2>1. 1 \in 1..n /\ n \in 1..n
    BY <1>3
  <2>. QED
    BY <1>4, <1>7, <2>1
<1>9. CASE w[L].time <= now /\ u = Parked(now)
  <2>1. u.cur.x = Parking
    BY <1>9 DEF Parked, Waypoint
  <2>2. w[L].time = Last + 1
    <3>1. w[Len(w)] = Waypoint(r[Len(r)].time + 1, Parking)
      BY <1>2, Zenon DEF RouteOf
    <3>. QED
      BY <1>3, <1>5, <1>7, <3>1 DEF Waypoint
  <2>3. ~(now <= Last)
    BY <1>7, <1>8, <1>9, <2>2
  <2>. QED
    BY <2>1, <2>3 DEF PlaceOfTrack, IsNodeActive
<1>10. ASSUME NEW k \in 2..L, w[k - 1].time <= now, now < w[k].time, u = OnLeg(w, k, now)
       PROVE  u.cur.x = PlaceOfTrack
  <2>1. PICK i \in 1..(L - 1) : i = k - 1 /\ k = i + 1 /\ i \in 1..L /\ k \in 1..L
    <3>1. k - 1 \in 1..(L - 1) /\ k = (k - 1) + 1 /\ k - 1 \in 1..L /\ k \in 1..L
      BY <1>5
    <3>. QED
      BY <3>1
  <2>2. /\ w[i].time \in Nat /\ w[k].time \in Nat /\ w[i].x \in Int /\ w[k].x \in Int
        /\ w[i] \in Stop /\ w[k] \in Stop
    BY <1>6, <2>1
  <2>10. w[i].time <= now /\ now < w[k].time
    BY <1>10, <2>1
  <2>3. PICK s \in Int : s = Slope(w[i], w[k])
    <3>1. w[i].time < w[k].time
      BY <1>7, <2>2, <2>10
    <3>. QED
      BY <2>2, <3>1, SlopeIsInt
  <2>4. PICK x \in Int, z \in Int :
          x = w[i].x /\ z = now - w[i].time /\ u.cur.x = x + s * z
    <3>1. w[i].x \in Int /\ now - w[i].time \in Int
      BY <1>7, <2>2
    <3>2. u.cur.x = w[i].x + s * (now - w[i].time)
      BY <1>10, <2>1, <2>3 DEF OnLeg, Waypoint
    <3>. QED
      BY <3>1, <3>2, Zenon
  <2>5. s = 0 \/ z = 0 => x + s * z = x
    OBVIOUS
  <2>6. CASE /\ w[i].x = Parking /\ w[k].time <= r[1].time
             /\ w[k].x = Parking \/ w[k].time = w[i].time + 1
    <3>1. ~(First <= now)
      BY <1>7, <1>8, <1>10, <2>2, <2>6
    <3>2. u.cur.x = Parking
      <4>1. CASE w[k].x = Parking
        <5>1. s = 0
          <6>1. w[k].x - w[i].x = 0 /\ w[k].time - w[i].time \in Int
                /\ w[k].time - w[i].time > 0
            BY <1>7, <2>2, <2>6, <2>10, <4>1
          <6>2. \A d \in Int : d > 0 => 0 \div d = 0
            OBVIOUS
          <6>. QED
            BY <2>3, <6>1, <6>2 DEF Slope
        <5>. QED
          BY <2>4, <2>5, <2>6, <5>1, Zenon
      <4>2. CASE w[k].time = w[i].time + 1
        <5>1. z = 0
          BY <1>7, <2>2, <2>4, <2>10, <4>2
        <5>. QED
          BY <2>4, <2>5, <2>6, <5>1, Zenon
      <4>. QED
        BY <2>6, <4>1, <4>2
    <3>. QED
      BY <3>1, <3>2 DEF PlaceOfTrack, IsNodeActive
  <2>7. ASSUME NEW j \in 1..(n - 1),
               w[i].time = r[j].time, w[i].x = r[j].val,
               w[k].time = r[j + 1].time, w[k].x = r[j + 1].val
        PROVE  u.cur.x = PlaceOfTrack
    <3>1. j \in 1..n /\ j + 1 \in 1..n /\ 1 \in 1..n /\ n \in 1..n /\ 1 <= j /\ j + 1 <= n
          /\ j # n
      BY <1>3
    <3>2. /\ r[j] \in Row /\ r[j + 1] \in Row /\ r[j].time \in Nat /\ r[j + 1].time \in Nat
          /\ r[1].time <= r[j].time /\ r[j + 1].time <= r[n].time
      BY <1>4, <3>1
    <3>3. r[j].time <= now /\ now < r[j + 1].time /\ r[j].time < r[j + 1].time
      BY <1>7, <1>10, <2>1, <2>7, <3>2
    <3>4. First <= now /\ now <= Last
      BY <1>7, <1>8, <3>2, <3>3
    <3>5. s * (r[j + 1].time - r[j].time) = r[j + 1].val - r[j].val
      BY <2>3, <2>7, <3>2, <3>3, SlopeOfRows
    <3>6. Between(r[j], r[j + 1], now) = r[j].val + s * (now - r[j].time)
      BY <1>7, <3>2, <3>3, <3>5, BetweenIsLinear
    <3>7. ValueOfTrack(vehicle, now) = Between(r[j], r[j + 1], now)
      BY <1>1, <1>3, <1>7, <3>1, <3>3, ValueAtRow
    <3>8. u.cur.x = r[j].val + s * (now - r[j].time)
      BY <2>4, <2>7, Zenon
    <3>. QED
      BY <3>4, <3>6, <3>7, <3>8 DEF PlaceOfTrack, IsNodeActive
  <2>8. CASE /\ w[i].time = r[n].time /\ w[i].x = r[n].val
             /\ w[k].time = r[n].time + 1
    <3>1. z = 0 /\ now = Last /\ now <= Last
      <4>1. w[i].time = Last /\ w[k].time = Last + 1
        BY <1>7, <2>8, Zenon
      <4>2. Last <= now /\ now < Last + 1 /\ z = now - Last
        BY <2>4, <2>10, <4>1, Zenon
      <4>. QED
        BY <1>7, <1>8, <4>2
    <3>2. u.cur.x = r[n].val
      BY <2>4, <2>5, <2>8, <3>1, Zenon
    <3>3. First <= now
      BY <1>1, <3>1, VehicleTrack
    <3>4. ValueOfTrack(vehicle, now) = r[n].val
      <4>1. n \in 1..n /\ ~(n < n) /\ r[n].time <= now
        BY <1>3, <1>7, <1>8, <3>1
      <4>. QED
        BY <1>1, <1>3, <1>7, <4>1, ValueAtRow
    <3>. QED
      BY <3>1, <3>2, <3>3, <3>4 DEF PlaceOfTrack, IsNodeActive
  <2>9. \/ /\ w[i].x = Parking /\ w[i + 1].time <= r[1].time
           /\ w[i + 1].x = Parking \/ w[i + 1].time = w[i].time + 1
        \/ \E j \in 1..(n - 1) :
             /\ w[i].time = r[j].time /\ w[i].x = r[j].val
             /\ w[i + 1].time = r[j + 1].time /\ w[i + 1].x = r[j + 1].val
        \/ /\ w[i].time = r[n].time /\ w[i].x = r[n].val
           /\ w[i + 1].time = r[n].time + 1
    <3>1. i \in 1..(Len(w) - 1)
      BY <1>5, Zenon
    <3>2. \/ /\ w[i].x = Parking /\ w[i + 1].time <= r[1].time
             /\ w[i + 1].x = Parking \/ w[i + 1].time = w[i].time + 1
          \/ \E j \in 1..(Len(r) - 1) :
               /\ w[i].time = r[j].time /\ w[i].x = r[j].val
               /\ w[i + 1].time = r[j + 1].time /\ w[i + 1].x = r[j + 1].val
          \/ /\ w[i].time = r[Len(r)].time /\ w[i].x = r[Len(r)].val
             /\ w[i + 1].time = r[Len(r)].time + 1
      BY <1>2, <3>1, LegCases, Zenon
    <3>. QED
      BY <1>3, <3>2, Zenon
  <2>. QED
    BY <2>1, <2>6, <2>7, <2>8, <2>9, Zenon
<1>. QED
  BY <1>1, <1>5, <1>9, <1>10 DEF Current

-----------------------------------------------------------------------------
(* Theorems *)

(* The cursor of a pool UE stays on its track, and the waypoint model of a *)
(* static UE stays on its route.                                           *)
THEOREM FleetInvariant == FleetSpec => []FleetInv
<1>. QED
  BY InitFleetInv, NextPreservesFleetInv, PTL DEF FleetSpec

(* Whatever is assigned, released or asked, m_lastIndex indexes the track  *)
(* it is used with, accelerations stay in their range, and the waypoint    *)
(* model holds no position of the future and no waypoint of the past.      *)
THEOREM FleetTypesCorrect == FleetSpec => []FleetTypeOK
<1>1. FleetInv => FleetTypeOK
  <2> SUFFICES ASSUME FleetInv PROVE FleetTypeOK
    OBVIOUS
  <2>1. DataInv /\ VdpInv /\ AppInv /\ RouteInv /\ now \in Nat /\ MaxTime \in Nat
    BY GridFacts DEF FleetInv, DataInv
  <2>2. Disseminating => Acceleration \in -160..161
    <3> SUFFICES ASSUME Disseminating PROVE Acceleration \in -160..161
      OBVIOUS
    <3>1. Speed \in Int /\ vdp.lastSpeed \in Int /\ vdp.lastTime \in Nat
      BY <2>1, SpeedIsInt DEF Disseminating, VdpInv
    <3>2. ASSUME NEW x \in Int PROVE ClampToLong(x, -160, 161) \in -160..161
      <4>1. Min({161, x}) \in Int /\ Min({161, x}) = IF 161 <= x THEN 161 ELSE x
        BY MinOfTwo
      <4>2. \A y \in Int : Max({-160, y}) = IF -160 >= y THEN -160 ELSE y
        BY MaxOfTwo
      <4>3. Max({-160, Min({161, x})}) \in -160..161
        BY <4>1, <4>2, SMTT(30)
      <4>. QED
        BY <4>3 DEF ClampToLong
    <3>3. (Speed - vdp.lastSpeed) * 10 \in Int
      BY <3>1
    <3>. QED
      BY <3>2, <3>3 DEF Acceleration, Unavailable
  <2>3. TypeOK
    <3>1. lastIndex \in 1..(IF vehicle = NoVehicle THEN 1 ELSE Len(Track))
      <4>1. CASE vehicle = NoVehicle
        BY <2>1, <4>1 DEF DataInv
      <4>2. CASE vehicle # NoVehicle
        <5>1. Track \in Tracks
          BY <2>1, <4>2 DEF DataInv, Track
        <5>2. Len(Track) \in Nat
          BY <5>1, TrackFacts
        <5>. QED
          BY <2>1, <4>2, <5>2 DEF DataInv
      <4>. QED
        BY <4>1, <4>2
    <3>2. now \in 0..MaxTime /\ vehicle \in Vehicles \cup {NoVehicle}
      BY <2>1 DEF DataInv
    <3>. QED
      BY <2>2, <3>1, <3>2 DEF TypeOK
  <2>4. ASSUME Static
        PROVE  /\ mob.cur.time \in 0..now
               /\ ~UpdateDue => \A i \in DOMAIN mob.queue : mob.queue[i].time > now
    <3>1. vehicle \in Vehicles
      BY <2>1, <2>4 DEF AppInv, Static
    <3>2. PICK w, r : w = Route /\ r = Track /\ r \in Tracks /\ \E o \in 0..2 : RouteOf(w, r, o)
      BY <2>1, <3>1, VehicleTrack
    <3>3. PICK o \in 0..2 : RouteOf(w, r, o)
      BY <3>2
    <3>4. ~AddWaypointAborts(w) /\ OnRoute(mob, w, now)
      BY <2>1, <2>4, <3>2 DEF RouteInv
    <3>5. PICK L \in Nat : L = Len(w) /\ L >= 2 /\ w \in Seq(Stop)
      BY <3>2, <3>3, RouteFacts
    <3>6. CASE AtStart(mob, w, now)
      <4>1. mob.cur.time = 0 /\ mob.next.time = 0 /\ now = 0
        BY <3>2, <3>3, <3>6, StartAhead DEF AtStart
      <4>. QED
        BY <4>1 DEF UpdateDue
    <3>7. ASSUME NEW k \in 2..L, Underway(mob, w, now, k)
          PROVE  /\ mob.cur.time \in 0..now
                 /\ ~UpdateDue => \A i \in DOMAIN mob.queue : mob.queue[i].time > now
      <4>1. PICK c \in Nat : c <= now /\ now <= w[k].time /\ mob = OnLeg(w, k, c)
        BY <3>7 DEF Underway
      <4>2. mob.cur.time = c /\ mob.queue = SubSeq(w, k + 1, L)
        BY <3>5, <4>1 DEF OnLeg, Waypoint
      <4>3. PICK q : q = SubSeq(w, k + 1, L)
        OBVIOUS
      <4>4. PICK a \in Int : a = k + 1
        OBVIOUS
      <4>5. \A i \in 1..L : w[i] \in Stop /\ w[i].time \in Nat
        BY <3>2, <3>3, <3>5, RouteFacts
      <4>6. /\ q \in Seq(Stop) /\ Len(q) = IF a <= L THEN L - a + 1 ELSE 0
            /\ \A i \in 1..(L - a + 1) : q[i] = w[a + i - 1]
        <5>1. \A i \in a..L : w[i] \in Stop
          BY <4>4, <4>5
        <5>. QED
          BY <4>3, <4>4, <5>1, SubSeqProperties
      <4>7. ASSUME NEW i \in DOMAIN q PROVE q[i].time > now
        <5>1. i \in 1..(L - a + 1)
          BY <4>6, LenProperties
        <5>2. k \in 2..L /\ a + i - 1 \in 2..L /\ k < a + i - 1 /\ k \in 1..L
              /\ a + i - 1 \in 1..L
          BY <4>4, <5>1
        <5>3. w[k].time < w[a + i - 1].time
          BY <3>2, <3>3, <3>4, <3>5, <5>2, RouteStrict
        <5>4. w[k].time \in Nat /\ w[a + i - 1].time \in Nat
          BY <4>5, <5>2
        <5>5. q[i].time = w[a + i - 1].time
          BY <4>6, <5>1
        <5>. QED
          BY <2>1, <4>1, <5>3, <5>4, <5>5
      <4>. QED
        BY <2>1, <4>1, <4>2, <4>3, <4>7
    <3>8. CASE Arrived(mob, w, now)
      <4>1. PICK c \in Nat : c <= now /\ mob = Parked(c)
        BY <3>8 DEF Arrived
      <4>2. mob.cur.time = c /\ mob.queue = <<>>
        BY <4>1 DEF Parked, Waypoint
      <4>. QED
        BY <2>1, <4>1, <4>2
    <3>. QED
      BY <3>4, <3>5, <3>6, <3>7, <3>8 DEF OnRoute
  <2>5. app \in {"created", "running", "stopped"}
    BY <2>1 DEF AppInv
  <2>. QED
    BY <2>3, <2>4, <2>5 DEF FleetTypeOK
<1>. QED
  BY <1>1, FleetInvariant, PTL

(* The cursor that the mobility model of the pool keeps between queries    *)
(* cannot be observed, neither within a vehicle nor across vehicles.       *)
THEOREM FleetCursorInvisible == FleetSpec => []CursorInvisible
<1>1. FleetInv => CursorInvisible
  BY CursorDoesNotMatter DEF FleetInv
<1>. QED
  BY <1>1, FleetInvariant, PTL

(* A track whose times ascend passes AddWaypoint and never trips the       *)
(* assertion in Update.                                                    *)
THEOREM FleetAscendingTracksRun == FleetSpec => []AscendingTracksRun
<1>1. FleetInv => AscendingTracksRun
  BY DEF FleetInv
<1>. QED
  BY <1>1, FleetInvariant, PTL

(* The lazily updated waypoint model gives every question the place that   *)
(* the rows prescribe, and the parking place outside of them.              *)
THEOREM FleetPlacedOnTrack == FleetSpec => []PlacedOnTrack
<1>1. FleetInv => PlacedOnTrack
  <2> SUFFICES ASSUME FleetInv, Static PROVE Updated(mob).cur.x = PlaceOfTrack
    BY DEF PlacedOnTrack
  <2>1. DataInv /\ vehicle \in Vehicles /\ now \in Nat
    BY DEF FleetInv, AppInv, Static, DataInv
  <2>2. Track \in Tracks /\ \E o \in 0..2 : RouteOf(Route, Track, o)
    BY <2>1, VehicleTrack
  <2>3. OnRoute(mob, Route, now)
    BY DEF FleetInv, RouteInv
  <2>4. Current(Updated(mob), Route)
    BY <2>1, <2>2, <2>3, UpdatedIsCurrent
  <2>. QED
    BY <2>1, <2>4, CurrentPlace
<1>. QED
  BY <1>1, FleetInvariant, PTL

(* The velocity that a CAM reads without an Update is the slope of the     *)
(* track at this instant.                                                  *)
THEOREM FleetCamVelocityOfTrack == FleetSpec => []CamVelocityOfTrack
<1>1. FleetInv => CamVelocityOfTrack
  <2> SUFFICES ASSUME FleetInv, Static, OnAir, HasWindow
               PROVE  \E i \in 1..(Len(Track) - 1) :
                        /\ Track[i].time <= now /\ now < Track[i + 1].time
                        /\ mob.vel * (Track[i + 1].time - Track[i].time)
                             = Track[i + 1].val - Track[i].val
    BY DEF CamVelocityOfTrack
  <2>1. /\ DataInv /\ vehicle \in Vehicles /\ now \in Nat /\ simTime \in Nat
        /\ app = "running" /\ ~UpdateDue /\ ~StopDue
        /\ WindowStart <= now /\ now <= WindowStop
    BY DEF FleetInv, AppInv, Static, DataInv, OnAir
  <2>2. /\ WindowStart \in Int /\ First <= WindowStart
        /\ WindowStop \in Int /\ WindowStop <= Last /\ First \in Nat /\ Last \in Nat
    BY <2>1, WindowFacts, VehicleTrack
  <2>3. now # WindowStop
    BY <2>1 DEF StopDue
  <2>4. First <= now /\ now < Last
    BY <2>1, <2>2, <2>3
  <2>5. PICK w, r : w = Route /\ r = Track /\ r \in Tracks /\ \E o \in 0..2 : RouteOf(w, r, o)
    BY <2>1, VehicleTrack
  <2>6. PICK o \in 0..2 : RouteOf(w, r, o)
    BY <2>5
  <2>7. OnRoute(mob, w, now)
    BY <2>5 DEF FleetInv, RouteInv
  <2>8. PICK n \in Nat : n = Len(r) /\ n >= 1
    BY <2>5, TrackFacts
  <2>9. First = r[1].time /\ Last = r[n].time
    BY <2>5, <2>8 DEF First, Last
  <2>10. PICK L \in Nat : L = Len(w) /\ L >= 2
    BY <2>5, <2>6, RouteFacts
  <2>11. \A i \in 1..L : w[i].time \in Nat
    BY <2>5, <2>6, <2>10, RouteFacts
  <2>12. ~AtStart(mob, w, now)
    BY <2>1, <2>5, <2>6, StartAhead DEF AtStart, UpdateDue
  <2>13. ~Arrived(mob, w, now)
    <3>1. SUFFICES ASSUME Arrived(mob, w, now) PROVE FALSE
      OBVIOUS
    <3>2. PICK c \in Nat : w[L].time <= c /\ c <= now
      BY <2>10, <3>1 DEF Arrived
    <3>3. w[L].time = Last + 1
      <4>1. w[Len(w)] = Waypoint(r[Len(r)].time + 1, Parking)
        BY <2>6, Zenon DEF RouteOf
      <4>. QED
        BY <2>8, <2>9, <2>10, <4>1 DEF Waypoint
    <3>. QED
      BY <2>1, <2>2, <2>4, <3>2, <3>3
  <2>14. PICK k \in 2..L : Underway(mob, w, now, k)
    BY <2>7, <2>10, <2>12, <2>13 DEF OnRoute
  <2>15. PICK c \in Nat : /\ w[k - 1].time <= c /\ c <= now /\ now <= w[k].time
                          /\ mob = OnLeg(w, k, c)
    BY <2>14 DEF Underway
  <2>16. PICK i \in 1..(L - 1) : i = k - 1 /\ k = i + 1 /\ i \in 1..L /\ k \in 1..L
    <3>1. k - 1 \in 1..(L - 1) /\ k = (k - 1) + 1 /\ k - 1 \in 1..L /\ k \in 1..L
      BY <2>10
    <3>. QED
      BY <3>1
  <2>17. w[i].time \in Nat /\ w[k].time \in Nat
    BY <2>11, <2>16
  <2>18. mob.next = w[k] /\ mob.vel = Slope(w[i], w[k])
    BY <2>15, <2>16 DEF OnLeg
  <2>19. w[i].time <= now /\ now < w[k].time
    <3>1. w[k].time # now
      BY <2>1, <2>18 DEF UpdateDue
    <3>. QED
      BY <2>1, <2>15, <2>16, <2>17, <3>1
  <2>20. ~(w[i + 1].time <= r[1].time)
    BY <2>1, <2>2, <2>4, <2>9, <2>16, <2>17, <2>19
  <2>21. ~(w[i].time = r[n].time)
    BY <2>1, <2>2, <2>4, <2>9, <2>17, <2>19
  <2>22. PICK j \in 1..(n - 1) :
           /\ w[i].time = r[j].time /\ w[i].x = r[j].val
           /\ w[i + 1].time = r[j + 1].time /\ w[i + 1].x = r[j + 1].val
    <3>1. i \in 1..(Len(w) - 1) /\ r \in Tracks
      BY <2>5, <2>10, Zenon
    <3>2. \/ /\ w[i].x = Parking /\ w[i + 1].time <= r[1].time
             /\ w[i + 1].x = Parking \/ w[i + 1].time = w[i].time + 1
          \/ \E j \in 1..(Len(r) - 1) :
               /\ w[i].time = r[j].time /\ w[i].x = r[j].val
               /\ w[i + 1].time = r[j + 1].time /\ w[i + 1].x = r[j + 1].val
          \/ /\ w[i].time = r[Len(r)].time /\ w[i].x = r[Len(r)].val
             /\ w[i + 1].time = r[Len(r)].time + 1
      BY <2>6, <3>1, LegCases, Zenon
    <3>. QED
      BY <2>8, <2>20, <2>21, <3>2, Zenon
  <2>23. j \in 1..n /\ j + 1 \in 1..n
    BY <2>8
  <2>24. r[j] \in Row /\ r[j + 1] \in Row /\ r[j].time \in Nat /\ r[j + 1].time \in Nat
    BY <2>5, <2>8, <2>23, TrackFacts
  <2>25. r[j].time <= now /\ now < r[j + 1].time /\ r[j].time < r[j + 1].time
    BY <2>1, <2>16, <2>19, <2>22, <2>24
  <2>26. mob.vel * (r[j + 1].time - r[j].time) = r[j + 1].val - r[j].val
    BY <2>16, <2>18, <2>22, <2>24, <2>25, SlopeOfRows
  <2>. QED
    BY <2>5, <2>8, <2>25, <2>26
<1>. QED
  BY <1>1, FleetInvariant, PTL

=============================================================================
