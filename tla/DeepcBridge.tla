---------------------------- MODULE DeepcBridge -----------------------------
(***************************************************************************)
(* The closed loop: ns-3 samples its KPIs, hands the recent history to an  *)
(* external controller through a directory of request files, waits for the *)
(* response file, and applies the transmit power it finds there.           *)
(*                                                                         *)
(* Two processes share the directory: the simulator, which blocks in       *)
(* RequestControl until the response exists or the timeout aborts it, and  *)
(* the controller, which polls for requests, may be killed and restarted   *)
(* at any point, and has its own memory of what it has answered.  The      *)
(* simulator can be run again in a directory that already holds files.     *)
(*                                                                         *)
(* Time is the index of the KPI sample (0.5 s apart); the bridge step of   *)
(* an instant runs 1e-6 s after its sample.  A power is an integer; one    *)
(* unit beyond a bound stands for an excess within the solver's tolerance  *)
(* of 1e-6 and beyond the bridge's tolerance of 1e-9.                      *)
(***************************************************************************)
EXTENDS Integers, Sequences, FiniteSetsExt

CONSTANTS
  PastHorizon,   \* deepcPastHorizon (20 in the experiment)
  MinPower, MaxPower, InitPower,
  EvalStart, EvalEnd, SimEnd,   \* sample indices
  Controllers,   \* which may be started: "osqp", "matlab", and the dummy
                 \* controller's modes "fixed" and "hold"
  MaxRuns,       \* bound: simulator runs in the same bridge directory
  MaxCrashes     \* bound: times the controller process is killed

ASSUME BridgeAssumption ==
  /\ PastHorizon \in Nat \ {0}
  /\ MinPower \in Int /\ MaxPower \in Int /\ MinPower < MaxPower
  /\ InitPower \in MinPower..MaxPower
  /\ EvalStart \in Nat /\ EvalEnd \in Nat /\ SimEnd \in Nat
  /\ EvalStart < EvalEnd /\ EvalEnd <= SimEnd /\ SimEnd > 1
  /\ Controllers \subseteq {"osqp", "matlab", "fixed", "hold"} /\ Controllers # {}
  /\ MaxRuns \in Nat \ {0} /\ MaxCrashes \in Nat

Steps == 0..(EvalEnd - EvalStart)      \* step numbers that can occur
Absent == [run |-> 0]                  \* no such file
NoStep == 0                            \* no bridge step is scheduled

VARIABLES        \* the simulator
  run,           \* number of this run in the directory
  sim,           \* "sample", "bridge", "advance": the event due at this
                 \* instant; "waiting" in RequestControl; "done"; "aborted"
  now,           \* index of the current instant
  stepDue,       \* instant of the scheduled RunDeepcBridgeStep
  currentP,      \* KpiLogger::m_currentP
  uePower,       \* TxPower of the UE PHYs
  latestSample,  \* KpiLogger::m_latestSample: its time and power
  samples,       \* DeepcFileBridge::m_samples
  lastSampleTime,\* m_lastSampleTimeS; 0 while m_hasLastSample is false
  previousU,     \* the argument previousU of the scheduled step
  step           \* its argument step

VARIABLES        \* the bridge directory
  requests, responses,   \* by step number
  tmp                    \* the controller's temporary response file

VARIABLES        \* the controller
  controller,    \* the program that is running
  ctl,           \* "polling", "answering", "replacing", "left" or "dead"
  batch,         \* requests left of the current pass
  processed,     \* requests it remembers having answered
  crashes

VARIABLES        \* the circumstances, fixed before the run
  slow,          \* an answer, or the restart of a killed controller, may take
                 \* longer than deepcResponseTimeout
  mayLeave       \* the controller may stop by itself (idle timeout, max steps)

VARIABLES        \* history, read by the properties only
  aired,         \* aired[k]: power on the air between samples k-1 and k
  applied        \* responses applied by this run

simVars  == <<run, sim, now, stepDue, currentP, uePower, latestSample, samples,
              lastSampleTime, previousU, step>>
envVars  == <<slow, mayLeave>>
ctlVars  == <<controller, ctl, batch, processed, crashes, envVars>>
histVars == <<aired, applied>>
vars     == <<simVars, requests, responses, tmp, ctlVars, histVars>>

-----------------------------------------------------------------------------
(* A fresh simulator process in a fresh directory: main() sets the initial *)
(* power and schedules the first bridge step one sample after the start of *)
(* the evaluation.                                                         *)
Init ==
  /\ run = 1
  /\ sim = "advance"
  /\ now = 0
  /\ stepDue = EvalStart + 1
  /\ currentP = InitPower
  /\ uePower = InitPower
  /\ latestSample = [time |-> 0, p |-> InitPower]
  /\ samples = <<>>
  /\ lastSampleTime = 0
  /\ previousU = InitPower
  /\ step = 0
  /\ aired = <<>>
  /\ applied = <<>>
  /\ requests = [s \in Steps |-> Absent]
  /\ responses = [s \in Steps |-> Absent]
  /\ tmp = Absent
  /\ controller \in Controllers
  /\ ctl = "polling"
  /\ batch = {}
  /\ processed = {}
  /\ crashes = 0
  /\ slow \in BOOLEAN
  /\ mayLeave \in BOOLEAN

-----------------------------------------------------------------------------
(* The simulator *)

(* Simulated time passes to the next instant.  Simulator::Stop was         *)
(* scheduled before the run, so at SimEnd it precedes the sample.          *)
Advance ==
  /\ sim = "advance"
  /\ now' = now + 1
  /\ aired' = Append(aired, uePower)
  /\ sim' = IF now + 1 = SimEnd THEN "done" ELSE "sample"
  /\ UNCHANGED <<run, stepDue, currentP, uePower, latestSample, samples,
                 lastSampleTime, previousU, step, requests, responses, tmp,
                 ctlVars, applied>>

(* KpiLogger::SampleAndWrite, reduced to what the bridge reads *)
SampleAndWrite ==
  /\ sim = "sample"
  /\ latestSample' = [time |-> now, p |-> currentP]
  /\ sim' = IF stepDue = now THEN "bridge" ELSE "advance"
  /\ UNCHANGED <<run, now, stepDue, currentP, uePower, samples, lastSampleTime,
                 previousU, step, requests, responses, tmp, ctlVars, histVars>>

(* Mutant: the buffer is trimmed one sample late. *)
PushSample_TrimsLate(sample) ==
  LET longer == Append(samples, sample)
  IN  /\ samples' = IF Len(longer) > PastHorizon + 1 THEN Tail(longer) ELSE longer
      /\ lastSampleTime' = sample.time

(* PushSample keeps the last PastHorizon samples. *)
PushSample(sample) ==
  LET longer == Append(samples, sample)
  IN  /\ samples' = IF Len(longer) > PastHorizon THEN Tail(longer) ELSE longer
      /\ lastSampleTime' = sample.time

(* The end of RunDeepcBridgeStep: the next step 0.5 s later, unless that   *)
(* would lie beyond the evaluation (1e-6 s make the comparison strict).    *)
ScheduleNext ==
  stepDue' = IF now + 1 < EvalEnd THEN now + 1 ELSE NoStep

(* Mutant: the number in the file is not the number in its name. *)
WriteRequest_WrongStep(history) ==
  requests' = [requests EXCEPT ![step] =
                 [run |-> run, step |-> step + 1, time |-> now,
                  previousU |-> previousU, uIni |-> history]]

(* WriteRequest: written to a temporary name and renamed, so that it       *)
(* appears at once.                                                        *)
WriteRequest(history) ==
  requests' = [requests EXCEPT ![step] =
                 [run |-> run, step |-> step, time |-> now,
                  previousU |-> previousU, uIni |-> history]]

(* RunDeepcBridgeStep up to the wait: push the sample if it lies in the    *)
(* evaluation window and is new; request control once the history is full. *)
RunDeepcBridgeStep ==
  /\ sim = "bridge"
  /\ LET inTime == now < EvalEnd
         pushed == /\ inTime
                   /\ latestSample.time >= EvalStart
                   /\ latestSample.time <= EvalEnd
                   /\ latestSample.time > lastSampleTime
     IN  /\ IF pushed THEN PushSample(latestSample)
                      ELSE UNCHANGED <<samples, lastSampleTime>>
         /\ IF pushed /\ Len(samples') = PastHorizon
            THEN /\ WriteRequest([i \in DOMAIN samples' |-> samples'[i].p])
                 /\ sim' = "waiting"
                 /\ UNCHANGED stepDue
            ELSE /\ sim' = "advance"
                 /\ IF inTime THEN ScheduleNext ELSE stepDue' = NoStep
                 /\ UNCHANGED requests
  /\ UNCHANGED <<run, now, currentP, uePower, latestSample, previousU, step,
                 responses, tmp, ctlVars, histVars>>

(* Mutant: the response is trusted without a look at the bounds. *)
AppliedPower_Trusting(r) == IF r.success THEN r.power ELSE previousU

(* RequestControl: a response is applied if it reports success and its     *)
(* power is within the bounds; otherwise the previous power stays.         *)
AppliedPower(r) ==
  IF r.success /\ MinPower <= r.power /\ r.power <= MaxPower
  THEN r.power ELSE previousU

(* Mutant: the devices are updated, the logger's current input is not. *)
ApplyTxPowerAtTime_NoLog(p) ==
  /\ uePower' = p
  /\ UNCHANGED currentP

(* ApplyTxPowerAtTime: the logger's current input and every UE PHY *)
ApplyTxPowerAtTime(p) ==
  /\ currentP' = p
  /\ uePower' = p

(* The wait of RequestControl ends: the response exists. *)
ReadResponse ==
  /\ sim = "waiting"
  /\ responses[step] # Absent
  /\ LET r == responses[step]
         p == AppliedPower(r)
     IN  /\ applied' = Append(applied, [step |-> step, time |-> now,
                                        answers |-> r.run, power |-> p])
         /\ previousU' = p
         /\ ApplyTxPowerAtTime(p)
  /\ step' = step + 1
  /\ ScheduleNext
  /\ sim' = "advance"
  /\ UNCHANGED <<run, now, latestSample, samples, lastSampleTime, requests,
                 responses, tmp, ctlVars, aired>>

(* The bridge sends one input per sample.  The dummy's hold mode reads     *)
(* previous_u[1]; the MATLAB controller sizes its program for two inputs   *)
(* and its error handler reads previousU(2): both end with an exception.   *)
OneInput == {"osqp", "fixed"}

(* The wait may exceed the timeout: no answer will come, or not in time. *)
MayBeLate == slow \/ ctl = "left" \/ controller \notin OneInput

(* Mutant: the wait for the first response has no timeout. *)
ResponseTimeout_NotFirst ==
  /\ MayBeLate
  /\ sim = "waiting"
  /\ step # 0
  /\ responses[step] = Absent
  /\ sim' = "aborted"
  /\ UNCHANGED <<run, now, stepDue, currentP, uePower, latestSample, samples,
                 lastSampleTime, previousU, step, requests, responses, tmp,
                 ctlVars, histVars>>

(* The wait of RequestControl exceeds m_timeoutS: NS_ABORT. *)
ResponseTimeout ==
  /\ MayBeLate
  /\ sim = "waiting"
  /\ responses[step] = Absent
  /\ sim' = "aborted"
  /\ UNCHANGED <<run, now, stepDue, currentP, uePower, latestSample, samples,
                 lastSampleTime, previousU, step, requests, responses, tmp,
                 ctlVars, histVars>>

(* The experiment is started again with the same --deepcBridgeDir:         *)
(* Configure creates the directories and removes nothing.                  *)
Rerun ==
  /\ sim \in {"done", "aborted"}
  /\ run < MaxRuns
  /\ run' = run + 1
  /\ sim' = "advance"
  /\ now' = 0
  /\ stepDue' = EvalStart + 1
  /\ currentP' = InitPower
  /\ uePower' = InitPower
  /\ latestSample' = [time |-> 0, p |-> InitPower]
  /\ samples' = <<>>
  /\ lastSampleTime' = 0
  /\ previousU' = InitPower
  /\ step' = 0
  /\ aired' = <<>>
  /\ applied' = <<>>
  /\ UNCHANGED <<requests, responses, tmp, ctlVars>>

-----------------------------------------------------------------------------
(* The controller *)

(* Requests a pass of the main loop will look at.  The dummy skips those   *)
(* that already have a response.                                           *)
Unprocessed == {s \in Steps \ processed : requests[s] # Absent}

Poll ==
  /\ ctl = "polling"
  /\ Unprocessed # {}
  /\ LET todo == IF controller = "osqp" THEN Unprocessed
                 ELSE {s \in Unprocessed : responses[s] = Absent}
     IN  /\ batch' = todo
         /\ ctl' = IF todo = {} THEN "polling" ELSE "answering"
         /\ processed' = IF controller = "osqp" THEN processed
                         ELSE processed \cup (Unprocessed \ todo)
  /\ UNCHANGED <<simVars, envVars, controller, requests, responses, tmp,
                 crashes, histVars>>

(* The files of a pass are sorted by name, so by step number. *)
Current == Min(batch)

Response(request, ok, p) ==
  [run |-> request.run, step |-> request.step, success |-> ok, power |-> p]

(* What a controller may answer: any power the solution check of           *)
(* TxPowerDeepc.solve lets through or a failure that reports the previous  *)
(* power; the configured power in the dummy's fixed mode.                  *)
Results(request) ==
  (IF controller \notin OneInput THEN {}
   ELSE {Response(request, TRUE, p) : p \in (MinPower - 1)..(MaxPower + 1)})
    \cup (IF controller = "osqp"
          THEN {Response(request, FALSE, request.previousU)} ELSE {})

(* Mutant: the response appears under its final name before it is complete. *)
Answer_InPlace ==
  /\ ctl = "answering"
  /\ \E r \in Results(requests[Current]) :
       /\ tmp' = r
       /\ responses' = [responses EXCEPT ![Current] =
                          [r EXCEPT !.run = 0, !.success = FALSE]]
  /\ ctl' = "replacing"
  /\ UNCHANGED <<simVars, envVars, controller, requests, batch, processed,
                 crashes, histVars>>

(* One request is read and answered into the temporary file. *)
Answer ==
  /\ ctl = "answering"
  /\ \E r \in Results(requests[Current]) : tmp' = r
  /\ ctl' = "replacing"
  /\ UNCHANGED <<simVars, envVars, controller, requests, responses, batch,
                 processed, crashes, histVars>>

(* The request raises an exception that ends the controller. *)
AnswerFails ==
  /\ ctl = "answering"
  /\ Results(requests[Current]) = {}
  /\ ctl' = "dead"
  /\ batch' = {}
  /\ processed' = {}
  /\ UNCHANGED <<simVars, envVars, controller, requests, responses, tmp,
                 crashes, histVars>>

(* Mutant: the response is filed under the number of the next request. *)
Replace_NextNumber ==
  /\ ctl = "replacing"
  /\ responses' = [responses EXCEPT ![Current + 1] = tmp]
  /\ tmp' = Absent
  /\ processed' = processed \cup {Current}
  /\ batch' = batch \ {Current}
  /\ ctl' = IF batch = {Current} THEN "polling" ELSE "answering"
  /\ UNCHANGED <<simVars, envVars, controller, requests, crashes, histVars>>

(* The rename puts the complete response in place.  All but the OSQP       *)
(* controller count their steps here and may leave in mid-pass.            *)
Replace ==
  /\ ctl = "replacing"
  /\ responses' = [responses EXCEPT ![Current] = tmp]
  /\ tmp' = Absent
  /\ processed' = processed \cup {Current}
  /\ batch' = batch \ {Current}
  /\ \/ ctl' = IF batch = {Current} THEN "polling" ELSE "answering"
     \/ mayLeave /\ controller # "osqp" /\ ctl' = "left"
  /\ UNCHANGED <<simVars, envVars, controller, requests, crashes, histVars>>

(* The idle timeout has passed or --max-steps is reached. *)
Leave ==
  /\ mayLeave
  /\ ctl = "polling"
  /\ ctl' = "left"
  /\ UNCHANGED <<simVars, envVars, controller, requests, responses, tmp, batch,
                 processed, crashes, histVars>>

(* The controller process is killed; it loses its memory. *)
Crash ==
  /\ crashes < MaxCrashes
  /\ ctl \notin {"dead", "left"}
  /\ ctl' = "dead"
  /\ batch' = {}
  /\ processed' = {}
  /\ crashes' = crashes + 1
  /\ UNCHANGED <<simVars, envVars, controller, requests, responses, tmp, histVars>>

(* The operator starts a controller again, perhaps another one. *)
Restart ==
  /\ ctl = "dead"
  /\ ctl' = "polling"
  /\ controller' \in Controllers
  /\ UNCHANGED <<simVars, envVars, requests, responses, tmp, batch,
                 processed, crashes, histVars>>

-----------------------------------------------------------------------------
SimNext == Advance \/ SampleAndWrite \/ RunDeepcBridgeStep \/ ReadResponse
           \/ ResponseTimeout
CtlNext == Poll \/ Answer \/ AnswerFails \/ Replace

Next == SimNext \/ Rerun \/ CtlNext \/ Leave \/ Crash \/ Restart

(* The simulator thread and the controller loop keep running; a killed     *)
(* controller is restarted by its operator.                                *)
Fairness == WF_vars(SimNext) /\ WF_vars(CtlNext) /\ WF_vars(Restart)

Spec == Init /\ [][Next]_vars /\ Fairness

-----------------------------------------------------------------------------
(* Properties *)

TypeOK ==
  /\ run \in 1..MaxRuns
  /\ sim \in {"sample", "bridge", "advance", "waiting", "done", "aborted"}
  /\ now \in 0..SimEnd
  /\ stepDue \in 0..SimEnd
  /\ step \in Steps
  /\ lastSampleTime \in 0..SimEnd
  /\ Len(samples) <= PastHorizon
  /\ ctl \in {"polling", "answering", "replacing", "left", "dead"}
  /\ processed \subseteq Steps
  /\ \A s \in Steps : /\ requests[s] # Absent => requests[s].step = s
                      /\ responses[s] # Absent => responses[s].step = s

(* The power on the air never leaves the configured bounds, whatever the   *)
(* controller answers and however often responses fail.                    *)
PowerWithinBounds ==
  /\ uePower \in MinPower..MaxPower
  /\ \A k \in DOMAIN aired : aired[k] \in MinPower..MaxPower

(* What the controller is told about the past is what happened: each entry *)
(* of a history is the power that was on the air in the interval that its  *)
(* sample closes, its samples are consecutive, without holes and           *)
(* repetitions, and previous_u is the power now in force.                  *)
HistoryTruthful ==
  /\ \A i \in DOMAIN samples : samples[i].p = aired[samples[i].time]
  /\ \A i \in 1..(Len(samples) - 1) : samples[i+1].time = samples[i].time + 1
  /\ sim = "waiting" =>
       LET r == requests[step]
       IN  /\ r.run = run
           /\ r.previousU = uePower
           /\ r.uIni = [i \in 1..PastHorizon |-> aired[now - PastHorizon + i]]

(* Control is requested at every sample instant of the evaluation once the *)
(* history is full: step s belongs to instant EvalStart + PastHorizon + s, *)
(* and at the end of a run none is missing.                                *)
EveryInstantControlled ==
  /\ \A i \in DOMAIN applied :
       /\ applied[i].step = i - 1
       /\ applied[i].time = EvalStart + PastHorizon + (i - 1)
  /\ sim = "done" =>
       Len(applied) = IF EvalEnd - EvalStart > PastHorizon
                      THEN EvalEnd - EvalStart - PastHorizon ELSE 0

(* RequestControl applies the answer to a request of this run. *)
AnswersThisRun == \A i \in DOMAIN applied : applied[i].answers = run

(* In a fresh directory every applied answer belongs to the request that   *)
(* RequestControl has just written, even if the controller is killed       *)
(* between any two of its steps, replaced by another program and answers   *)
(* requests again.                                                         *)
AnswersOwnRequest == run = 1 => AnswersThisRun

(* The simulator never waits for ever: it finishes or aborts, also when    *)
(* the controller is gone.                                                 *)
RunEnds == <>[](sim \in {"done", "aborted"})

(* With controllers that understand the request, stay, are faster than the *)
(* timeout and are restarted when they are killed, every request is        *)
(* answered and the run reaches its end.                                   *)
LoopCompletes ==
  (~slow /\ ~mayLeave /\ [](controller \in OneInput)) => <>(sim = "done")
=============================================================================
