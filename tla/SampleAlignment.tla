-------------------------- MODULE SampleAlignment ---------------------------
(***************************************************************************)
(* From training to control.  The data-set generator drives the fleet with *)
(* a schedule of inputs and writes one KPI row per sample;                 *)
(* build_hankel_dataset.py cuts the rows into Hankel columns; the closed   *)
(* loop sends its own rows as u_ini, y_ini to the controller that matches  *)
(* them against those columns.  What ties the three together is which      *)
(* interval of the simulation the input of a row belongs to.               *)
(*                                                                         *)
(* Time is the index of the sample.  aired[k] is the power on the air      *)
(* between samples k-1 and k.  The outputs of a row are abstracted to what *)
(* they depend on: the powers on the air during the KPI window.            *)
(***************************************************************************)
EXTENDS Integers, Sequences, SequencesExt, FiniteSetsExt

CONSTANTS
  Powers,          \* levels of the schedule, and powers a controller may choose
  InitPower,       \* --txPower
  KpiWindow,       \* m_kpiWindowS in samples (2 in the experiment)
  UpdatePeriod,    \* period of the input schedule in samples
  EvalStart, EvalEnd, SimEnd,
  PastHorizon, FutureHorizon

ASSUME AlignmentAssumption ==
  /\ InitPower \in Powers
  /\ KpiWindow \in Nat \ {0} /\ UpdatePeriod \in Nat \ {0}
  /\ EvalStart \in Nat /\ EvalEnd \in Nat /\ SimEnd \in Nat
  /\ EvalStart < EvalEnd /\ EvalEnd <= SimEnd /\ SimEnd > 1
  /\ PastHorizon \in Nat \ {0} /\ FutureHorizon \in Nat \ {0}

VARIABLES
  phase,       \* "training", "build", "control", "done"
  agenda,      \* events still to run at this instant, in order of their uid
  now,
  schedule,    \* g_inputSchedule: power by instant
  currentP,    \* KpiLogger::m_currentP
  uePower,     \* TxPower of the UE PHYs
  aired,       \* power on the air in each interval of the running simulation
  rows,        \* the KPI CSV of the training run
  columns,     \* columns of hankel_train_normalized.npz, before scaling
  latestSample,\* KpiLogger::m_latestSample of the closed loop
  samples,     \* DeepcFileBridge::m_samples
  requests     \* histories sent to the controller

simVars    == <<agenda, now, currentP, uePower, aired>>
bridgeVars == <<latestSample, samples, requests>>
vars       == <<phase, schedule, simVars, rows, columns, bridgeVars>>

Instants  == 0..SimEnd
Scheduled == {t \in Instants : t % UpdatePeriod = 0}

(* The logger samples at every instant after the start.  Simulator::Stop   *)
(* was scheduled before the simulation ran, so at SimEnd it precedes the   *)
(* sample, though not the input update, of that instant.                   *)
Sampled == 1..(SimEnd - 1)

-----------------------------------------------------------------------------
(* Mutant: the first sample is scheduled before the input updates. *)
TrainingEvents_SampleFirst(t) ==
  (IF t \in Sampled THEN <<"sample">> ELSE <<>>)
    \o (IF t \in Scheduled THEN <<"input">> ELSE <<>>)

(* main() of the generator schedules all input updates, then the first     *)
(* sample; each sample schedules the next one.  So at an instant that has  *)
(* both, the input is applied first.                                       *)
TrainingEvents(t) ==
  (IF t \in Scheduled THEN <<"input">> ELSE <<>>)
    \o (IF t \in Sampled THEN <<"sample">> ELSE <<>>)

(* The closed loop runs without a schedule; its bridge step comes 1e-6 s   *)
(* after the sample, from the first sample of the evaluation on.           *)
ControlEvents(t) ==
  (IF t \in Sampled THEN <<"sample">> ELSE <<>>)
    \o (IF EvalStart < t /\ t < EvalEnd THEN <<"bridge">> ELSE <<>>)

(* A fresh simulation: logger and devices start with --txPower. *)
Init ==
  /\ phase = "training"
  /\ schedule \in [Scheduled -> Powers]
  /\ agenda = TrainingEvents(0)
  /\ now = 0
  /\ currentP = InitPower
  /\ uePower = InitPower
  /\ aired = <<>>
  /\ rows = <<>>
  /\ columns = <<>>
  /\ latestSample = [time |-> 0, p |-> InitPower, y |-> <<>>]
  /\ samples = <<>>
  /\ requests = <<>>

-----------------------------------------------------------------------------
(* Both simulators *)

(* Time passes to the next instant. *)
Advance ==
  /\ phase \in {"training", "control"}
  /\ agenda = <<>>
  /\ now < SimEnd
  /\ now' = now + 1
  /\ aired' = Append(aired, uePower)
  /\ agenda' = IF phase = "training" THEN TrainingEvents(now + 1)
                                     ELSE ControlEvents(now + 1)
  /\ UNCHANGED <<phase, schedule, currentP, uePower, rows, columns, bridgeVars>>

(* Mutant: the KPI window misses its oldest interval. *)
Kpi_ShortWindow ==
  SubSeq(aired, Max({EvalStart, now - KpiWindow + 1}) + 1, now)

(* The KPIs of a sample are computed from the CAMs sent and received in    *)
(* the last KpiWindow samples, inside the evaluation window.               *)
Kpi == SubSeq(aired, Max({EvalStart, now - KpiWindow}) + 1, now)

Row == [time |-> now, p |-> currentP, y |-> Kpi]

-----------------------------------------------------------------------------
(* The data-set generator *)

(* ApplyInputsAtTime: the logger, then every UE PHY *)
ApplyInputsAtTime ==
  /\ phase = "training"
  /\ agenda # <<>> /\ Head(agenda) = "input"
  /\ currentP' = schedule[now]
  /\ uePower' = schedule[now]
  /\ agenda' = Tail(agenda)
  /\ UNCHANGED <<phase, schedule, now, aired, rows, columns, bridgeVars>>

(* SampleAndWrite appends a row to the CSV. *)
SampleAndWrite ==
  /\ phase = "training"
  /\ agenda # <<>> /\ Head(agenda) = "sample"
  /\ rows' = Append(rows, Row)
  /\ agenda' = Tail(agenda)
  /\ UNCHANGED <<phase, schedule, now, currentP, uePower, aired, columns,
                 bridgeVars>>

StopTraining ==
  /\ phase = "training"
  /\ agenda = <<>> /\ now = SimEnd
  /\ phase' = "build"
  /\ UNCHANGED <<schedule, simVars, rows, columns, bridgeVars>>

-----------------------------------------------------------------------------
(* build_hankel_dataset.py *)

(* Rows between warm-up and the end of the evaluation; the logger writes   *)
(* no NaN, so that dropna removes none.  The rows are in order of time, so *)
(* those that pass the mask are neighbours.                                *)
Clean ==
  LET mask == {i \in DOMAIN rows : EvalStart <= rows[i].time /\ rows[i].time <= EvalEnd}
  IN  IF mask = {} THEN <<>> ELSE SubSeq(rows, Min(mask), Max(mask))

(* split_time_ordered with the default shares of 60 % and 20 % *)
TrainEnd(n) == (n * 6) \div 10
ValEnd(n)   == (n * 8) \div 10

Train == SubSeq(Clean, 1, TrainEnd(Len(Clean)))

(* One column of u_p, y_p and u_f, y_f *)
Column(data, i) ==
  [past   |-> SubSeq(data, i, i + PastHorizon - 1),
   future |-> SubSeq(data, i + PastHorizon, i + PastHorizon + FutureHorizon - 1)]

Windows == Len(Train) - (PastHorizon + FutureHorizon) + 1

(* The script succeeds (it raises ValueError on an empty part or too few   *)
(* rows), and the closed loop is started on its result.                    *)
BuildHankel ==
  /\ phase = "build"
  /\ LET n == Len(Clean)
     IN  TrainEnd(n) > 0 /\ ValEnd(n) > TrainEnd(n) /\ ValEnd(n) < n
  /\ Windows > 0
  /\ columns' = [i \in 1..Windows |-> Column(Train, i)]
  /\ phase' = "control"
  /\ agenda' = ControlEvents(0)
  /\ now' = 0
  /\ currentP' = InitPower /\ uePower' = InitPower
  /\ aired' = <<>>
  /\ UNCHANGED <<schedule, rows, bridgeVars>>

-----------------------------------------------------------------------------
(* The closed loop *)

(* SampleAndWrite keeps the row for the bridge. *)
ControlSample ==
  /\ phase = "control"
  /\ agenda # <<>> /\ Head(agenda) = "sample"
  /\ latestSample' = Row
  /\ agenda' = Tail(agenda)
  /\ UNCHANGED <<phase, schedule, now, currentP, uePower, aired, rows, columns,
                 samples, requests>>

PushSample ==
  samples' = IF Len(samples) < PastHorizon THEN Append(samples, latestSample)
             ELSE Tail(Append(samples, latestSample))

(* Mutant: the request is sent one sample before the history is full. *)
BridgeStep_Early ==
  /\ phase = "control"
  /\ agenda # <<>> /\ Head(agenda) = "bridge"
  /\ PushSample
  /\ IF Len(samples') >= PastHorizon - 1
     THEN /\ requests' = Append(requests, samples')
          /\ \E p \in Powers : currentP' = p /\ uePower' = p
     ELSE UNCHANGED <<requests, currentP, uePower>>
  /\ agenda' = Tail(agenda)
  /\ UNCHANGED <<phase, schedule, now, aired, rows, columns, latestSample>>

(* RunDeepcBridgeStep: with a full history the controller answers with     *)
(* some power, which is applied at once (DeepcBridge has the details).     *)
BridgeStep ==
  /\ phase = "control"
  /\ agenda # <<>> /\ Head(agenda) = "bridge"
  /\ PushSample
  /\ IF Len(samples') = PastHorizon
     THEN /\ requests' = Append(requests, samples')
          /\ \E p \in Powers : currentP' = p /\ uePower' = p
     ELSE UNCHANGED <<requests, currentP, uePower>>
  /\ agenda' = Tail(agenda)
  /\ UNCHANGED <<phase, schedule, now, aired, rows, columns, latestSample>>

StopControl ==
  /\ phase = "control"
  /\ agenda = <<>> /\ now = SimEnd
  /\ phase' = "done"
  /\ UNCHANGED <<schedule, simVars, rows, columns, bridgeVars>>

-----------------------------------------------------------------------------
Next ==
  \/ Advance
  \/ ApplyInputsAtTime \/ SampleAndWrite \/ StopTraining
  \/ BuildHankel
  \/ ControlSample \/ BridgeStep \/ StopControl

Spec == Init /\ [][Next]_vars

-----------------------------------------------------------------------------
(* Properties *)

(* The input of a training row is the one that acts in the interval after  *)
(* the row's sample, although the row is written at the very instant of    *)
(* the change: an input scheduled for that instant is already logged.  No  *)
(* sample is missing among the rows.                                       *)
RowInputFollows ==
  phase = "training" =>
    \A i \in DOMAIN rows :
      /\ rows[i].time = i
      /\ i < Len(aired) => rows[i].p = aired[i + 1]

Trajectory(c) == c.past \o c.future

(* The outputs of a trajectory respond to its own inputs, lag samples      *)
(* earlier than the row they stand in and back through the KPI window.     *)
Responds(rs, lag) ==
  \A j \in DOMAIN rs : j - KpiWindow - lag >= 0 =>
    rs[j].y = [i \in 1..KpiWindow |-> rs[j - KpiWindow - lag + i].p]

(* Every Hankel column is a piece of one causal trajectory, across the     *)
(* border of past and future: the outputs of a row are the response to the *)
(* inputs of the KpiWindow rows before it.  It holds training rows only:   *)
(* the rows kept for validation and test are later than all of its rows.   *)
ColumnsRespond ==
  \A i \in DOMAIN columns :
    LET c == Trajectory(columns[i])
    IN  /\ Responds(c, 1)
        /\ \A j \in DOMAIN c, k \in DOMAIN Clean :
             k > TrainEnd(Len(Clean)) => c[j].time < Clean[k].time

(* The histories that the closed loop sends respond as well, but to the    *)
(* inputs of the rows up to and including their own: a row carries the     *)
(* power that was in force before its sample.                              *)
HistoriesRespond ==
  \A i \in DOMAIN requests : /\ Len(requests[i]) = PastHorizon
                             /\ Responds(requests[i], 0)

(* The training alignment that main() of the closed loop claims: a history *)
(* relates inputs and outputs as the Hankel columns do.  The response is   *)
(* linear in the rows, so a history without it is no combination of        *)
(* columns and U_p g = u_ini, Y_p g = y_ini has no solution.               *)
HistoriesMatchColumns ==
  \A i \in DOMAIN requests : Responds(requests[i], 1)
=============================================================================
