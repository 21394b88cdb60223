# Formal model of the NGSIM / NR-V2X DeePC closed loop

This directory holds TLA+ specifications of the program in
`scratch/nr_v2x_ngsim_deepc_closed_loop_deepc.cc`, of the controllers it talks
to (`scripts/deepc_osqp_file_controller.py`,
`scripts/dummy_deepc_file_controller.py`,
`matlab/matlab_deepc_file_controller.m`), of the path from the training
simulation to the Hankel data set, and of the two parts of ns-3 whose control
flow the program leans on (event loop and waypoint mobility), with the TLC
configurations that check them on small instances and TLAPS proofs that hold for
every instance.

## 1. The system

The repository is a fork of ns-3.  Its own program replays NGSIM highway
trajectories on a bounded set of simulated 5G NR sidelink UEs, lets every UE
broadcast CAMs, measures PRR, PIR and CBR in a core region, and closes a
control loop around the transmit power: every 0.5 s the measured history goes
to an external DeePC controller through files, and the power it returns is
applied to all UEs.

| component | where | state | operations | interacts with |
|---|---|---|---|---|
| Dynamic UE pool | closed loop, 252-266, 2179-2295 | vehicle/node maps, active set, free deque | assign, release, initial assignment, scheduling | mobility models, CAM applications, KPI logger |
| Pool mobility | 640-854 | the track and the parking position of each node | assign, release, interpolate | pool, KPI logger (positions) |
| CAM application | 1850-2169 | running, disseminating, assigned vehicle, KPI sequence number | start, stop, assign, release, tag, receive | pool, CA basic service (external), KPI logger |
| Vehicle data provider | 1550-1848 | last speed, time, position, heading | CAM mandatory data | CA basic service, mobility |
| KPI logger | 1049-1548 | Tx and Rx deques, duplicate filter, pair clocks, latest sample | LogTx, LogRx, prune, sample | CAM applications, CBR logger, bridge |
| CBR logger | `src/cbr-logger.{h,cc}` | per-node busy intervals and sensing counts | record, prune, compute, sample | NR PHY traces (external), KPI logger |
| DeePC file bridge | 2602-2974 | sample history, step number, previous input, files | push, request, wait, apply, reschedule | KPI logger, UE PHYs, controller |
| OSQP controller | `scripts/deepc_osqp_file_controller.py` | processed set, request batch | poll, solve, write response | bridge directory |
| Dummy controller | `scripts/dummy_deepc_file_controller.py` | processed set | poll, answer | bridge directory |
| MATLAB controller | `matlab/matlab_deepc_file_controller.m` | processed files | poll, solve, answer | bridge directory |
| Static fleet (`dynamicActivePool=false`) | 977-1010, 3420-3428, 3700-3733 | one UE per vehicle, its waypoints, its application window | install, start, stop | waypoint model, data provider |
| Open-loop data generation | `scratch/nr_v2x_ngsim_deepc_data_set_generation.cc` | input schedule, KPI logger | scheduled inputs, sampling | Hankel builder |
| Hankel builder | `scripts/build_hankel_dataset.py` | rows, split, columns | clean, split, cut | generator, controllers |
| ns-3 event loop | `src/core/model/default-simulator-impl.cc`, `map-scheduler.cc`, `simulator.cc` | events, clock, uids, list of other threads' events | schedule, cancel, remove, run, stop, destroy | everything |
| ns-3 waypoint mobility | `src/mobility/model/waypoint-mobility-model.cc` | current and next waypoint, queue, velocity | add, update, position, velocity | static fleet |
| Offline tools | `scripts/preprocess_ngsim.py`, `generate_prbs_inputs.py`, campaign and plotting scripts | files | batch | - |
| other ns-3, NR and automotive models | `src/*`, `contrib/nr`, `src/automotive` | - | radio, CA basic service | external |

What is hard in it: a physical UE is reused by several vehicles while CAMs are
in flight; one loan is recorded in five places; the windows of the KPI logger
are pruned incrementally by three different callers; two processes communicate
through files that outlive both of them; the controller may be slow, die or be
restarted, and the simulator may be run again in the same directory; training
and control apply an input on different sides of the sample of its instant; the
waypoint model answers for the velocity without bringing it up to date; and the
event loop looks at a flag, without the lock, that other threads write.

What each component owes its users:

- the pool: one UE serves at most one vehicle and one vehicle has at most one
  UE, no UE is lost, all records of a loan agree, and a vehicle is on the air
  exactly while it has a running UE;
- the schedule: a data set that passes the start-up check never exhausts the
  pool, and the active vehicles are those whose track covers the instant;
- the mobility model and the data provider: the answers depend on the track of
  the current vehicle and on nothing that happened to the UE before;
- the KPI logger: each sample counts exactly the opportunities and receptions
  of its window, each once, for the vehicle that listened;
- the CBR logger: busy time is measured exactly, and the two files that report
  it agree;
- the bridge: the power on the air stays within its bounds, the history sent to
  the controller is what happened, every sample instant is controlled once, an
  answer is applied to the request it answers, and a run ends;
- the static fleet: a UE is where its track says while its vehicle is active,
  parked otherwise, and never sends the velocity of the jump in between;
- the data set: each Hankel column is a piece of one causal trajectory, with no
  row of the held-out parts, and the histories of the closed loop relate inputs
  and outputs in the same way;
- the event loop: events run in order of time, then of scheduling, none is lost,
  run twice or run after it was taken back, and ids tell the truth about them.

## 2. Modules

| module | models | composes |
|---|---|---|
| `CamAir` | abstract service: who is on the air | - |
| `UePool` | the pool and the life cycle of the CAM applications | refines `CamAir` |
| `UePoolProofs` | TLAPS proofs about `UePool` | extends `UePool` |
| `PoolSchedule` | start-up check, initial assignment, event queue | extends `UePool` |
| `PoolScheduleProofs` | TLAPS proofs about `PoolSchedule` | extends `PoolSchedule`, `UePoolProofs` |
| `KpiLogger` | tagging, receiving and logging CAMs, the sliding window, sampling | extends `UePool` |
| `MCKpiLogger` | symmetry and a state constraint for TLC | extends `KpiLogger` |
| `KpiLoggerProofs` | TLAPS proofs about `KpiLogger` | extends `KpiLogger`, `UePoolProofs` |
| `CbrLogger` | busy intervals, the core filter, the two samplers | - |
| `CbrLoggerProofs` | TLAPS proofs about `CbrLogger` | extends `CbrLogger` |
| `VehicleData` | mobility cursor and vehicle data provider of one UE | - |
| `StaticFleet` | the fleet without the pool: waypoints, application window, ns-3 waypoint model | extends `VehicleData` |
| `StaticFleetProofs` | TLAPS proofs about `StaticFleet` and `VehicleData` | extends `StaticFleet` |
| `DeepcBridge` | simulator, bridge directory and controllers | - |
| `DeepcBridgeProofs` | TLAPS proofs about `DeepcBridge` | extends `DeepcBridge` |
| `SampleAlignment` | training simulation, Hankel builder, closed loop: what the input of a row means | - |
| `SampleAlignmentProofs` | TLAPS proofs about `SampleAlignment` | extends `SampleAlignment` |
| `EventAgenda` | abstract service of a discrete-event simulator | - |
| `Simulator` | ns-3's `DefaultSimulatorImpl` with `MapScheduler` | refines `EventAgenda` |
| `SimulatorProofs` | TLAPS proofs about `Simulator` | extends `Simulator` |

`PROJECT.json` maps every definition to the lines it models.

**UePool.** Variables are the globals of lines 252-266, per-node state of the
mobility model and of the CAM application, and `status`, which records an
`NS_ABORT`. A missing key of a map is `NoNode` or `NoVehicle`. Actions:
`AssignVehicleToPool` (both aborts included), `ReleaseVehicleFromPool`,
`CreateApplications` (the loop in `main` that hands each new application the
vehicle its node already has), `StartApplication`, `StopApplication`. They come
in any order that ns-3 could produce. `CamAir` says what a listener can rely
on; the refinement mapping reads `onAir` off the applications: the station id
where dissemination is on.

**PoolSchedule.** Adds `rows` (which row times each vehicle has), the phases of
`main` (check, initial assignment, running, finished) and `pending`, the ns-3
event queue. Rows are on even ticks and the constant `kAssignmentEpsS` is one
tick, so that "one epsilon after the last row" is a time of its own. Events of
the same time run in the order in which they were scheduled, as in ns-3: an
event carries the uid that its place in the loop gives it. Set-up assigns in
ascending vehicle id, as the loop over the sorted ids does. `AllowGaps` says whether a track may miss row
times between its ends: `LoadMobilityCsv` accepts that, `preprocess_ngsim.py`
never writes it (`interpolate_track` resamples on a grid).

**KpiLogger.** `air` holds every CAM sent; any of them may be delivered to any
other running UE, any number of times, at any later time, so loss, delay,
duplication and reordering need no further actions. Geometry is a choice: the
eligible receivers of a transmission are any subset of the other active
vehicles, as core filter and awareness range would decide. Times are compared
as in the code (`<` on the cutoff). `allTx`, `allRx` and `served` are history
variables. A vehicle is put on the pool once, as the schedule guarantees
(each vehicle has one assignment event). Pruning is `DropOld`, the loops that pop
the front while it is too old, and `Kept`, the loop that erases in the middle.

**CbrLogger.** `agenda` is what runs at the current instant in queue order: the
CBR sampler was scheduled in `Start` before the pool events and the KPI sampler
after them, but from the second sample on both are rescheduled from within
their own events and come after the pool. `counted` is the set of UEs that pass
the evaluation filter: it changes as vehicles move from one instant to the next
and when the pool puts vehicles on idle UEs. Only `ChannelOccupied` is modelled, since
`ConnectCbrTraces` connects nothing else (the comment at line 1046 still speaks
of sensing with a fallback). `heard` is the reference: all intervals, never
pruned while they matter.

**VehicleData.** One UE of the pool that serves vehicles in turn. The cursor
`lastIndex` moves on every query, by whoever asks; the provider keeps the speed
and the time of its last CAM. Headings, `getTravelledDistance` and the
coordinate encodings are left out.

**StaticFleet.** Adds the other mode of the program: `dynamic` says which one a
behaviour is in, and a dynamic one takes the steps of `VehicleData`. A static UE
belongs to one vehicle. Its track becomes waypoints, with parking waypoints one
epsilon before the first and after the last row, `AddWaypoint` checks that they
ascend (but not the second against the first), and each schedules an `Update`.
`mob` is the state of the waypoint model; any question for the position runs
`Update`, a question for the velocity does not. The application gets a window,
or, when that is empty, no times at all, so that ns-3 starts it at 0 and never
stops it. `aborted` records `NS_ABORT` and the `NS_ASSERT` in `Update`. Integers stand for
the code's doubles: places lie on a grid on which every slope of a track is a
whole number (`FleetAssumption`), so that nothing is rounded; rounding errors of
the doubles are not modelled.

**DeepcBridge.** Two processes and a directory. The simulator runs, at each
sample instant, `SampleAndWrite`, then `RunDeepcBridgeStep`, which pushes the
sample, writes the request and blocks; `ReadResponse` validates and applies,
`ResponseTimeout` aborts. The controller polls a batch of unprocessed requests, takes them in the order of
their numbers (`Current` is the one in hand), answers into a temporary file and renames it; it may be killed between any two
of these steps, restarted with an empty memory, or leave by its idle timeout.
`Rerun` starts the simulator again in the same directory. `Controllers` says
which programs the operator may start: the OSQP controller, the MATLAB one, or
the dummy in either mode; after a crash it may be another one. The MATLAB
controller and the dummy in hold mode read `previous_u` as two inputs and die on
this bridge's requests, which carry one. `slow` and `mayLeave` are fixed at the
start and say whether an answer may exceed the timeout and whether a controller
may leave by itself, so that one run covers both the friendly and the hostile
circumstances. The quadratic program is a choice among its outcomes: a power in
bounds, one within the solver's tolerance but beyond the bridge's, or a failure.

**SampleAlignment.** Time is the index of the sample, and `agenda` the events
left at this instant in uid order. In training, `main` schedules all input
updates before the first sample, so that an input comes first at its instant; in
the closed loop the bridge step comes after the sample. `aired[k]` is the power
on the air between samples k-1 and k. The outputs of a row are abstracted to
what they are a function of: the powers on the air in the KPI window. A row
"responds" to the inputs it is paired with if its outputs are those of the named
rows. `BuildHankel` cleans, splits 60/20/20 and cuts columns as the script does;
its errors (too few rows) end the behaviour. UEs, CAMs and the pool are
abstracted away: the logger and the loop are those of `KpiLogger` and
`DeepcBridge`.

**Simulator.** The program and the code of an event may make any sequence of
`Schedule`, `Cancel`, `Remove`, `Stop` and destroy-event calls; another thread
may call `ScheduleWithContext` between any two steps of the main thread.
`ProcessEventsWithContext` is two steps, the unlocked look at
`m_eventsWithContextEmpty` and the swap under the mutex. The flag is a plain
`bool`, so the look races with the writes of other threads: it may miss one, as
long as those threads exist. The abstract
`EventAgenda` is a set of planned events, numbered as they were planned, and a
clock; the mapping reads the agenda off `events` without the cancelled ones.

## 3. Runs

| run | question | answer |
|---|---|---|
| `pool` | do all orders of the operations keep the records of a loan consistent, and does the pool implement `CamAir`? | yes |
| `pool_schedule` | for every data set without holes: is the start-up check enough, does the pool follow the tracks, is every vehicle served and heard? | yes |
| `pool_schedule_gaps` | is the check also enough for tracks with holes? | no (finding) |
| `kpi` | are filter, window, PIR clocks and credit exact while CAMs are late, duplicated, reordered or lost and UEs change hands? | yes |
| `cbr` | is busy time exact under incremental pruning and merging, and do the two files agree? | yes |
| `vehicle_data` | pool: is the cursor invisible, also across vehicles? static fleet: are position and velocity those of the track while the application runs, and does every ascending track start and run? | yes |
| `vehicle_data_rate` | is the acceleration a rate? | no, `dt` is not divided by (finding) |
| `bridge` | bounds, history, coverage of instants, own answers in a fresh directory and termination, with crashes, timeouts, reruns and changes of controller; does the run complete when the controllers understand the request, stay and are restarted? | yes |
| `bridge_stale` | does a second run in the same directory use only its own answers? | no (finding) |
| `alignment` | are Hankel columns and closed-loop histories causal trajectories, and are held-out rows unseen? | yes, each in its own way |
| `alignment_shift` | do they relate inputs and outputs in the same way? | no, they are one sample apart (finding) |
| `simulator` | does the event loop implement the agenda, conserve events and answer `IsExpired` truly, with calls in any order and another thread handing in events? are those taken over? | yes |

Every property of a passing run has a mutant in `PROJECT.json`: a plausible slip
in the code (a pruning order, a missing reset, an early cut-off) that TLC then
finds violates the property.

**Bounds.** Pool: two UEs and three vehicles make the pool full, empty and
reused, and force a third vehicle to wait for a release; the proofs remove the
bound, as they do for the instances of the other runs wherever section 4 lists
the property. Schedule: five row times around a simulation end at 6 give tracks that
start at 0, end at, straddle or lie beyond the end, meet at one row, and start
before or after the applications (tick 4). KPI: two CAMs are enough for a
duplicate, an overtaking and a PIR value; four ticks with a window of two let a
transmission expire while its CAM is in flight; three UEs give a CAM several
eligible receivers, and `Bounded` lets all three be in use during the first two
ticks only (two of them longer), which keeps the state space small. CBR: intervals of up to three ticks against a window of two
make nested, overlapping and shielding intervals and intervals longer than the
window; `MaxRetained` caps the intervals held at once. It assumes
`EvalStart > Step` (the experiments use 10 s of warm-up against 0.5 s): with a
shorter warm-up the first rows of the two files may differ. VehicleData: three
rows give a track with an inner row; every pair of tracks over three row times and two
speeds is an initial state. Static fleet: the same tracks, which include ones
with equal times; the simulation ends at tick 3, inside a track, or at 6, after
it; the microsecond is one tick against two between rows. Bridge: a past horizon of two (20 in the code) and
five instants give a filling history, two control steps and a last one;
one unit of power beyond a bound stands for the gap between the tolerances
1e-6 and 1e-9. Alignment: every schedule over two powers is an initial state; a
past horizon one longer than the KPI window is the shortest in which a lag of
one can be seen. Simulator: uids from 4 to 6 (`MaxUid` stands for 2^32) make
three events with ties and different delays, two of which another thread may
hand in, with `Run` called twice.

`CHECK_DEADLOCK FALSE` stands where a model ends: the clock stops at its bound,
the process has aborted, or the simulation is over.

**Fairness.** `SchedSpec` has weak fairness of its whole next-state relation:
`Simulator::Run` executes events until the stop event. `DeepcBridge` has weak
fairness of the simulator's step, of the controller's step and of `Restart`.
The first two say that a process that can run is eventually scheduled by the
operating system; `ResponseTimeout` is part of the simulator's step, since its
loop compares the elapsed time on every turn. Fairness of `Restart` says that an
operator restarts a dead controller eventually, and matters to `LoopCompletes`
only, which speaks of behaviours that are not `slow`, where no controller leaves
and all understand the request: otherwise the timeout ends the run, as it should.
`Crash`, `Leave` and `Rerun` have no fairness. `Simulator` has weak fairness of
the main thread: the code of an event returns, and the program calls `Run` or
`Destroy` in the end; other threads are not fair. They are taken to have ended
before `Destroy`, which deletes the simulator under them.

## 4. Proofs

`UePoolProofs` proves, for any set of vehicles and any finite set of UEs
(`PoolAssumption`), that `PoolInv` is an invariant and from it the five
invariants of run `pool`. None of them is inductive alone: that an assignment
keeps the maps inverse needs that the node at the head of the deque is free
(`FreeListExact`), that a release puts back a node not already there needs
`MappingsInverse`, that dissemination follows the loan needs `LayersAgree`, and
`LayersAgree` is established by `CreateApplications` only because no application
has started or has a vehicle before it exists (`AppsIdleBeforeCreation`). Two
lemmas say what `pop_front` and `push_back` do to a duplicate-free sequence.
`PoolImplementsCamAir` shows that each step is a step of `CamAir` or leaves
`onAir` alone.

`PoolScheduleProofs` proves, under `CleanData` (no holes, at least two rows, as
the preprocessor guarantees), the four invariants of run `pool_schedule` for any
number of vehicles, UEs, row times and any simulation length. The core is
`NoRuntimeAbort`. The invariant says exactly who is active: the vehicles whose
assignment has run and whose release has not (`QueueInv`). When an assignment
event runs, the queue order gives that every earlier event has run, so every
active vehicle started at or before this row and ends at or after it: a vehicle
that ended earlier was released one epsilon later, still before this row. Having
no hole, each of them has a row at this instant, together with the arriving one,
so `PeakActive`, which the start-up check compared with the pool size, counts
them all; hence fewer UEs than the pool has are in use and the deque is not
empty. With holes the step "has a row at this instant" fails, which is the
counterexample of `pool_schedule_gaps`. With `MinRows = 1` a vehicle whose only
row is at 0 is assigned and never released (line 2290), so `ActiveFollowsTracks`
needs that bound. `ScheduleImplementsPool` shows that the scheduled pool is an
instance of `UePool`.

`KpiLoggerProofs` proves the five invariants and the action property of run
`kpi` for any vehicles, UEs, window, evaluation period and number of CAMs,
without the state constraint of that run. The invariant goes from the pool to the logs. `PoolInv` is taken over
from `UePoolProofs`. A vehicle is put on the pool once (`ServedInv`), hence the
counter of its node separates its transmissions and a vehicle that was eligible
and is still on the pool is on the node it was on (`SentInv`); `TxKeysUnique` and
`CreditedToListener` follow. `WindowInv` compares the deques and the filter with
everything ever sent and heard. Its last part is the point: as long as a
transmission is in the window, so is every reception of it. So the filter
forgets a triple only after the transmission has gone, and a copy that comes
later finds nothing to match (`CountedOnce`). `LastInv` says that the clock of a
pair is its latest reception, whence `PirExact`. For `SampleExact` a second
invariant is needed, `SentKept`: two transmissions of the history never share a
key, and all that is in the window is in the deque. Then the pruned deque and the
window of the history are in bijection, so that their numbers and their sums of
opportunities agree (`SumBijection`), and by `CountedOnce` the triples that match
are as many as the receptions (`SampleCounts`). `KpiImplementsPool` shows that
the logger leaves the pool alone: seen through the pool's variables its
specification implies those of `UePool` and `CamAir`.

`CbrLoggerProofs` proves the three invariants of run `cbr`. The deques are
ordered by start (`DequeInv`), so what a fresh interval at the front shields is
not older than it; the front was fresh at the last sampler instant, which is at
most one step ago (`BacklogInv`, with `AgendaInv` for what is still to run at an
instant). Between the two samplers of an instant only the PHYs act, or a first
assignment before the evaluation starts, and an interval that starts now has no
part in the window that ends now (`ReportInv`); this is where `EvalStart > Step`
is needed.

For `BusyTimeExact` the deque has to hold whatever reaches into the window
(`HeardInv`) and the computation on it has to be right. Cutting to the window
leaves non-empty parts in order of their starts that cover the same instants
(`ClippedFacts`). The merging loop has an invariant, `Merged`: the busy time so
far counts the instants covered by the parts that are closed, and the open part
lies after all of them (`MergeStep`). At the end the result is the number of
covered instants (`BusyTimeIsMeasure`), hence at most the window, and the mean
over the UEs that pass the filter is at most one (`SumBound`), so neither the cap
at line 226 nor the one at line 285 of `cbr-logger.cc` hides an error.

Both modules need facts about folds and sums over sets of any size. The
library's induction theorems take an operator, which the provers cannot
instantiate; here induction is stated over subsets of the naturals
(`NumberInduction`), as a consequence of their well-foundedness, and over the
subsets of a finite set (`SubsetInduction`). A fold or a sum is first shown to
satisfy its recursive equation (`FoldFacts`, `SumFacts`); everything else is
derived from that equation.

`DeepcBridgeProofs` proves the five invariants of run `bridge` for any horizons,
bounds, evaluation period, set of controllers and numbers of runs and crashes.
The logger, the UEs and the argument of the scheduled step always hold one and
the same power (`PowerInv`), and a bridge step finds the sample of its own
instant, so the samples are the last intervals on the air (`SamplesInv`,
`RequestInv`). `StepInv` is one equation between the instant of the next step,
the length of the history and the number of applied answers; from it no instant
is left out or controlled twice. `FilesInv` says what can be in the directory,
whoever wrote it and in whichever run: a file under number s is of step s, of a
run up to this one. In the first run that is the run itself, which gives
`AnswersOwnRequest`; in the second it is not, which is the finding of
`bridge_stale`.

`SampleAlignmentProofs` proves the three invariants of run `alignment` for any
powers, schedule, window, update period, evaluation period and horizons. Every
row is tied to the powers on the air by the instant of its sample: a training
row carries the power of the next interval (`RowsInv`), a row of the closed loop
that of the interval it closes (`ControlAgenda`, `SamplesInv`), and the outputs
are the same function of the air in both. What a column or a history relates
follows from the instants of its rows, which are consecutive and begin so late
that the start of the evaluation does not cut the KPI window. Lag one in the
columns and lag zero in the histories are both proved, so finding 4 does not
depend on the instance.

`SimulatorProofs` proves `TypeOK`, `ExpiredExact`, `EventsConserved` and the
refinement of `EventAgenda`, for any delays and bounds. An id is compared with
the key of the current event only, so two facts make `IsExpired` right
(`OrderInv`): whatever is scheduled lies after the current key, and an id after
it is scheduled or was cancelled. `ProcessOneEvent` keeps both because it moves
the current key to the least one left. `PlaceInv` and `CountInv` follow an event
from the list of the other threads to `fired`. For the refinement, taking over
the list of the other threads is a `Plan` of several events at once, running a
cancelled event a `Pass`, and `Discard` is `Destroy`.

`StaticFleetProofs` proves the five invariants of run `vehicle_data`, for any
tracks over the grid. In the pool mode the two loops that move the cursor end at
the last row not later than now wherever they start, as long as the cursor is on
the track (`DataInv`), which a new vehicle resets. In the static mode the lazy
waypoint model is in one of three states (`RouteInv`): before its first `Update`;
on a leg of the route, at the place of that leg at some earlier time, the leg not
having ended before now; or arrived. The events that `AddWaypoint` schedules
bring it to the next leg at each waypoint, so a question for the velocity, which
runs no `Update`, is answered with the slope of the current leg. `AppInv` says
that an application with a window runs within it only.

Only model-checked:

- liveness (`EveryVehicleServed`, `RunEnds`, `LoopCompletes`, `PostedTaken`),
  which needs fairness and is outside the prover's reach.

Every invariant and every action property of the passing runs is also proved.

## 5. Findings

1. The start-up check of the pool undercounts tracks with holes (line 487), so
   the pool can be exhausted at run time although the check passed. The
   preprocessor's own files are safe (proved).
2. The bridge accepts any response file of the right number. A second run in a
   used directory is driven by the first run's answers.
3. The acceleration in CAMs is not divided by the time step.
4. Training and control are one sample apart. The input in a training row acts
   after the row's sample, the one in a row of `u_ini` before it, although
   `main` insists on "training alignment": outputs follow inputs with a lag of
   one row more in the Hankel columns than in the histories matched against them.

Observations that no document contradicts, and that are therefore no findings:

- the data provider is kept when a UE changes hands (line 2102), so the first
  acceleration of a vehicle compares its speed with its predecessor's, and a
  vehicle that stands still repeats its predecessor's heading;
- the dummy controller in hold mode and the MATLAB controller expect two inputs;
  on the bridge's one they die, and the run ends by the timeout;
- a static application without a window starts at 0 and is never stopped: it may
  send from the parking place, and at the last row with the velocity of the jump
  (`CamVelocityOfTrack` is about applications with a window for this reason);
- `AddWaypoint` does not compare the second waypoint with the first; equal times
  there pass it and stop the program at the assertion in `Update`.

## 6. Not modelled

- The vendored part of ns-3. Of some 800,000 lines of C++ the program's own are
  about one in a hundred; LTE, Wi-Fi, TCP/IP, routing and the rest are upstream
  code that the program links at most as a library. The models see what reaches
  the CAM applications through it (loss, delay, duplication, reordering) as
  choices of the environment. The NR sidelink and automotive modules, on which
  the program depends most, are submodules without content here.
- ns-3's other schedulers and simulator implementations: the program selects
  none of them.
- The quadratic program of the controllers and the offline predictors:
  floating-point optimisation on recorded data. A model has its outcomes as
  choices.
- `preprocess_ngsim.py` beyond the contiguity of its tracks, campaign and
  plotting scripts: batch transformations of files without state to get wrong
  between steps.
- Coordinate encoding, headings and travelled distance in CAMs; beacon-interval
  schedules of the generator; sensing-based CBR, which nothing connects.

## 7. Plan

Done: all modules of the table in section 2; proofs of every invariant and every
action property that the passing runs check, and of both refinements.

Next: action properties across `Rerun` and `Crash`, on what a later run may never
do to a record of an earlier one.
