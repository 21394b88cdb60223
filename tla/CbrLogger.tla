----------------------------- MODULE CbrLogger ------------------------------
(***************************************************************************)
(* The channel busy ratio: the NR PHY of each UE reports the intervals     *)
(* during which it senses the channel occupied, and two samplers, the CBR  *)
(* CSV and the KPI logger, average the busy fraction of the last window    *)
(* over the UEs that carry a vehicle inside the core region.               *)
(*                                                                         *)
(* The program connects the ChannelOccupied trace only, and configures one *)
(* component carrier, so a UE has one trace context.  Which UEs pass the   *)
(* evaluation filter is chosen by the environment: positions change with   *)
(* time, and the pool assigns vehicles at row times.                       *)
(***************************************************************************)
EXTENDS Integers, Sequences, FiniteSets, FiniteSetsExt, SequencesExt,
        Functions

CONSTANTS
  Nodes,         \* m_evaluatedNodeIds: all UEs of the pool
  Window,        \* m_window in ticks
  Step,          \* m_step, which is also the KPI logger's sample time
  EvalStart,     \* m_evalStartS
  EvalEnd,       \* m_evalEndS
  MaxDuration,   \* longest occupation the PHY reports
  MaxTime,       \* bound: the clock stops here
  MaxRetained    \* bound: intervals held at the same time

ASSUME CbrAssumption ==
  /\ IsFiniteSet(Nodes)
  /\ Window \in Nat \ {0} /\ Step \in Nat \ {0} /\ MaxDuration \in Nat \ {0}
  /\ EvalStart \in Nat /\ EvalEnd \in Nat /\ EvalStart > Step
  /\ MaxTime \in Nat /\ MaxRetained \in Nat

VARIABLES
  now,             \* Simulator::Now()
  agenda,          \* what main() and the samplers have scheduled for now
  counted,         \* UEs that pass m_nodeEvaluationFilter
  busyIntervals,   \* m_busyIntervalsByContext
  cbrRow,          \* last row of the CBR CSV
  kpiCbr           \* CBR of the KPI logger's last sample

VARIABLE heard     \* history: every recorded interval, until it lies wholly
                   \* before the window

vars == <<now, agenda, counted, busyIntervals, cbrRow, kpiCbr, heard>>

-----------------------------------------------------------------------------
(* Computation *)

Later(a, b)  == IF a > b THEN a ELSE b
Sooner(a, b) == IF a < b THEN a ELSE b

(* Intervals leave from the front of a deque while they end before the     *)
(* window; one that is still needed shields those behind it.               *)
DropOld(d, cutoff) ==
  LET fresh == {i \in DOMAIN d : d[i].end >= cutoff}
  IN  IF fresh = {} THEN <<>> ELSE SubSeq(d, Min(fresh), Len(d))

(* Mutant: UEs that do not pass the filter now are not pruned. *)
Pruned_Counted ==
  [n \in Nodes |-> IF n \notin counted THEN busyIntervals[n]
                   ELSE DropOld(busyIntervals[n], now - Window)]

(* Prune, for every deque *)
Pruned == [n \in Nodes |-> DropOld(busyIntervals[n], now - Window)]

(* The entries of d with an index in K, in order *)
Kept(d, K) ==
  [j \in 1..Cardinality(K) |->
     d[CHOOSE i \in K : Cardinality({k \in K : k <= i}) = j]]

(* The parts of the intervals that lie in the window, empty ones skipped.  *)
(* They are recorded in the order of their starts, which the sort that     *)
(* follows in the code keeps.                                              *)
Clipped(d, t) ==
  LET cut == [i \in DOMAIN d |-> [start |-> Later(d[i].start, t - Window),
                                  end   |-> Sooner(d[i].end, t)]]
  IN  Kept(cut, {i \in DOMAIN d : cut[i].end > cut[i].start})

(* Mutant: an interval inside the merged one shortens it. *)
Merge_Overwrites(m, iv) ==
  IF iv.start <= m.end
  THEN [m EXCEPT !.end = iv.end]
  ELSE [busy |-> m.busy + m.end - m.start, start |-> iv.start, end |-> iv.end]

Merge(m, iv) ==
  IF iv.start <= m.end
  THEN [m EXCEPT !.end = Later(m.end, iv.end)]
  ELSE [busy |-> m.busy + m.end - m.start, start |-> iv.start, end |-> iv.end]

(* ComputeBusyFractionForContext at time t, times the window *)
BusyTime(d, t) ==
  LET c == Clipped(d, t)
      m == FoldLeft(Merge, [busy |-> 0, start |-> c[1].start, end |-> c[1].end],
                    Tail(c))
  IN  IF c = <<>> THEN 0 ELSE Sooner(Window, m.busy + m.end - m.start)

(* ComputeChannelOccupiedCbr as a fraction; a zero denominator stands for  *)
(* the value 0.0 the code returns then.                                    *)
ComputeChannelOccupiedCbr(intervals) ==
  [busy |-> SumFunctionOnSet([n \in Nodes |-> BusyTime(intervals[n], now)],
                             counted),
   of   |-> Window * Cardinality(counted)]

IsInsideEvaluationWindow == EvalStart <= now /\ now <= EvalEnd

-----------------------------------------------------------------------------
(* Mutant: the pool assigns between the two samplers. *)
AgendaAt_PoolBetween(t) ==
  IF t % Step # 0 THEN <<"pool">> ELSE <<"cbr", "pool", "kpi">>

(* Events of one instant run in the order in which they were scheduled.    *)
(* main() starts the CBR logger, schedules the pool and then the KPI       *)
(* logger; the samplers then reschedule themselves, behind the pool.       *)
AgendaAt(t) ==
  IF t % Step # 0 THEN <<"pool">>
  ELSE IF t = Step THEN <<"cbr", "pool", "kpi">>
  ELSE <<"pool", "cbr", "kpi">>

Init ==
  /\ now = 0
  /\ agenda = <<>>
  /\ counted \in SUBSET Nodes
  /\ busyIntervals = [n \in Nodes |-> <<>>]
  /\ cbrRow = [time |-> 0, busy |-> 0, of |-> 0]
  /\ kpiCbr = [time |-> 0, busy |-> 0, of |-> 0]
  /\ heard = {}

(* Time passes and the vehicles move. *)
Tick ==
  /\ agenda = <<>>
  /\ now < MaxTime
  /\ now' = now + 1
  /\ agenda' = AgendaAt(now + 1)
  /\ counted' \in SUBSET Nodes
  /\ heard' = {h \in heard : h.iv.end > now + 1 - Window}
  /\ UNCHANGED <<busyIntervals, cbrRow, kpiCbr>>

Turn(what) == agenda # <<>> /\ Head(agenda) = what /\ agenda' = Tail(agenda)

(* The pool puts vehicles on idle UEs. *)
AssignVehicles ==
  /\ Turn("pool")
  /\ \E S \in SUBSET (Nodes \ counted) : counted' = counted \cup S
  /\ UNCHANGED <<now, busyIntervals, cbrRow, kpiCbr, heard>>

(* RecordChannelOccupied, called by the PHY of UE n at any point of an     *)
(* instant; the new interval is in place when Prune runs.                  *)
RecordChannelOccupied(n, duration) ==
  /\ IsInsideEvaluationWindow
  /\ n \in counted
  /\ duration > 0
  /\ LET iv == [start |-> now, end |-> now + duration]
     IN  /\ busyIntervals' = [Pruned EXCEPT ![n] = Append(@, iv)]
         /\ heard' = heard \cup {[node |-> n, iv |-> iv]}
  /\ UNCHANGED <<now, agenda, counted, cbrRow, kpiCbr>>

Row(c) == [time |-> now, busy |-> c.busy, of |-> c.of]

(* CbrLogger::Sample *)
Sample ==
  /\ Turn("cbr")
  /\ busyIntervals' = Pruned
  /\ cbrRow' = IF IsInsideEvaluationWindow
               THEN Row(ComputeChannelOccupiedCbr(Pruned)) ELSE cbrRow
  /\ UNCHANGED <<now, counted, kpiCbr, heard>>

(* KpiLogger::SampleAndWrite asks for the CBR. *)
ComputeCbr ==
  /\ Turn("kpi")
  /\ busyIntervals' = Pruned
  /\ kpiCbr' = Row(ComputeChannelOccupiedCbr(Pruned))
  /\ UNCHANGED <<now, counted, cbrRow, heard>>

Retained == SumFunctionOnSet([n \in Nodes |-> Len(busyIntervals[n])], Nodes)

Next ==
  \/ Tick
  \/ AssignVehicles
  \/ Sample
  \/ ComputeCbr
  \/ /\ Retained < MaxRetained
     /\ \E n \in Nodes, duration \in 0..MaxDuration :
          RecordChannelOccupied(n, duration)

Spec == Init /\ [][Next]_vars

-----------------------------------------------------------------------------
(* Properties *)

(* The instants of the window at which UE n sensed the channel occupied. *)
OccupiedInstants(n) ==
  {t \in (now - Window)..(now - 1) :
     \E h \in heard : h.node = n /\ h.iv.start <= t /\ t < h.iv.end}

(* The busy time computed for a UE is the measure of everything it has     *)
(* heard inside the window: pruning from the front of a deque that is not  *)
(* ordered by end loses nothing that counts, and merging overlapping and   *)
(* nested intervals counts no instant twice.  The average over the UEs     *)
(* that pass the filter is a fraction of their windows, never above one.   *)
BusyTimeExact ==
  LET cbr == ComputeChannelOccupiedCbr(busyIntervals)
  IN  /\ \A n \in Nodes :
           BusyTime(busyIntervals[n], now) = Cardinality(OccupiedInstants(n))
      /\ cbr.busy = SumFunctionOnSet(
                        [n \in Nodes |-> Cardinality(OccupiedInstants(n))], counted)
      /\ cbr.busy <= cbr.of

(* Prune keeps the deques short although a long interval at the front      *)
(* shields the ones behind it, and although a UE may have stopped hearing  *)
(* anything: nothing older than window, longest occupation and one sample  *)
(* step is ever held.                                                      *)
BacklogBounded ==
  \A n \in Nodes : \A i \in DOMAIN busyIntervals[n] :
    busyIntervals[n][i].start >= now - Window - MaxDuration - Step

(* The CBR column of the KPI file and the CBR file agree on each instant   *)
(* that both report, whatever the PHYs and the pool do at that instant.    *)
ReportsAgree == cbrRow.time = kpiCbr.time => cbrRow = kpiCbr
=============================================================================
