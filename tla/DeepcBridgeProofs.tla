------------------------- MODULE DeepcBridgeProofs --------------------------
(***************************************************************************)
(* Proofs about DeepcBridge for every horizon, evaluation window, range of *)
(* powers, set of controllers and number of runs and crashes: types, the   *)
(* bounds of the power, the truth of the history sent to the controller,   *)
(* one control step per sample instant, and that a run in a fresh          *)
(* directory applies the answers to its own requests.                      *)
(*                                                                         *)
(* None of them is inductive.  A history is truthful because the logger,   *)
(* the UEs and the argument previousU of the scheduled step always hold    *)
(* the same power (PowerInv), and because a bridge step finds the sample   *)
(* of its own instant.  That no instant is left out rests on one equation  *)
(* between the instant of the next step, the length of the history and the *)
(* number of answers applied (StepInv).  What can be in the files, whoever *)
(* wrote them and in whichever run, is FilesInv.                           *)
(***************************************************************************)
EXTENDS DeepcBridge, SequenceTheorems, WellFoundedInduction, TLAPS

Powers == MinPower..MaxPower

(* What a request and a response under number s may be, whichever run of   *)
(* this directory they belong to                                           *)
IsRequest(r, s) ==
  r.run \in 1..run /\ r.step = s /\ r.previousU \in Powers

IsResponse(r, s) ==
  r.run \in 1..run /\ r.step = s /\ r.success \in BOOLEAN /\ r.power \in Int

FilesInv ==
  /\ DOMAIN requests = Steps /\ DOMAIN responses = Steps
  /\ \A s \in Steps : requests[s] = Absent \/ IsRequest(requests[s], s)
  /\ \A s \in Steps : responses[s] = Absent \/ IsResponse(responses[s], s)
  /\ ctl \in {"polling", "answering", "replacing", "left", "dead"}
  /\ batch \subseteq Steps /\ processed \subseteq Steps
  /\ \A s \in batch : requests[s] # Absent
  /\ ctl \in {"answering", "replacing"} => batch # {}
  /\ ctl = "replacing" => IsResponse(tmp, Current)

ClockInv ==
  /\ run \in 1..MaxRuns
  /\ sim \in {"sample", "bridge", "advance", "waiting", "done", "aborted"}
  /\ now \in 0..SimEnd
  /\ sim \in {"sample", "bridge", "waiting", "aborted"} => 0 < now /\ now < SimEnd
  /\ sim = "advance" => now < SimEnd
  /\ sim = "done" => now = SimEnd

PowerInv ==
  /\ aired \in Seq(Powers) /\ Len(aired) = now
  /\ uePower \in Powers /\ currentP = uePower /\ previousU = uePower
  /\ sim \in {"sample", "bridge", "waiting"} => aired[now] = uePower
  /\ sim \in {"bridge", "waiting"} =>
       latestSample = [time |-> now, p |-> aired[now]]

(* The instant of the next bridge step; EvalEnd when there is none *)
NextStep == IF stepDue = NoStep THEN EvalEnd ELSE stepDue

StepInv ==
  /\ stepDue \in Nat /\ step \in Nat /\ lastSampleTime \in Nat
  /\ NextStep > EvalStart /\ NextStep <= EvalEnd
  /\ stepDue # NoStep =>
       /\ sim = "advance" => now < stepDue
       /\ sim \in {"sample", "done"} => now <= stepDue
  /\ sim = "bridge" => stepDue = now
  /\ samples \in Seq([time : Nat, p : Powers])
  /\ applied \in Seq([step : Nat, time : Nat, answers : Nat, power : Powers])
  /\ step = Len(applied)
  /\ IF sim \in {"waiting", "aborted"}
     THEN /\ stepDue = now /\ now < EvalEnd /\ lastSampleTime = now
          /\ Len(samples) = PastHorizon
          /\ Len(applied) = now - EvalStart - PastHorizon
     ELSE /\ lastSampleTime = IF NextStep = EvalStart + 1 THEN 0 ELSE NextStep - 1
          /\ Len(samples) = IF NextStep - EvalStart - 1 < PastHorizon
                            THEN NextStep - EvalStart - 1 ELSE PastHorizon
          /\ Len(applied) = IF NextStep - EvalStart > PastHorizon
                            THEN NextStep - EvalStart - PastHorizon ELSE 0

(* The samples are those of the last bridge steps. *)
SamplesInv ==
  \A i \in 1..Len(samples) :
    /\ samples[i].time = lastSampleTime - Len(samples) + i
    /\ samples[i].time \in 1..now
    /\ samples[i].p = aired[samples[i].time]

RequestInv ==
  sim = "waiting" =>
    /\ requests[step].run = run
    /\ requests[step].previousU = uePower
    /\ requests[step].uIni = [i \in 1..PastHorizon |-> aired[now - PastHorizon + i]]

AppliedInv ==
  \A i \in 1..Len(applied) :
    /\ applied[i].step = i - 1
    /\ applied[i].time = EvalStart + PastHorizon + (i - 1)
    /\ run = 1 => applied[i].answers = 1

BridgeInv ==
  /\ FilesInv /\ ClockInv /\ PowerInv /\ StepInv
  /\ SamplesInv /\ RequestInv /\ AppliedInv

-----------------------------------------------------------------------------
(* Facts about data *)

(* A pass always has a first file: Current is one of the files left. *)
LEMMA CurrentInBatch ==
  ASSUME batch \subseteq Steps, batch # {}
  PROVE  Current \in batch
<1>1. batch \subseteq Nat
  BY BridgeAssumption DEF Steps
<1>2. PICK m \in batch : \A y \in batch : ~(<<y, m>> \in OpToRel(<, Nat))
  BY <1>1, NatLessThanWellFounded, WFMin
<1>3. ASSUME NEW y \in batch PROVE m <= y
  <2>1. <<y, m>> \in Nat \X Nat /\ <<y, m>>[1] = y /\ <<y, m>>[2] = m
    BY <1>1
  <2>2. ~(y < m)
    BY <1>2, <2>1, Zenon DEF OpToRel
  <2>. QED
    BY <1>1, <2>2
<1>. QED
  BY <1>3 DEF Current, Min

(* A file that names a run is there. *)
LEMMA NotAbsent ==
  ASSUME NEW r, r.run # 0
  PROVE  r # Absent
BY DEF Absent

-----------------------------------------------------------------------------
LEMMA InitBridgeInv == Init => BridgeInv
<1> SUFFICES ASSUME Init PROVE BridgeInv
  OBVIOUS
<1>1. FilesInv
  BY BridgeAssumption DEF Init, FilesInv, Steps
<1>2. ClockInv
  BY BridgeAssumption DEF Init, ClockInv
<1>3. PowerInv
  BY BridgeAssumption DEF Init, PowerInv, Powers
<1>4. StepInv
  BY BridgeAssumption DEF Init, StepInv, NextStep, NoStep
<1>5. SamplesInv /\ RequestInv /\ AppliedInv
  BY DEF Init, SamplesInv, RequestInv, AppliedInv
<1>. QED
  BY <1>1, <1>2, <1>3, <1>4, <1>5 DEF BridgeInv

-----------------------------------------------------------------------------
(* The controller leaves the simulator and the requests alone.             *)
ControllerStep == CtlNext \/ Leave \/ Crash \/ Restart

LEMMA ControllerKeepsSimulator ==
  ControllerStep => UNCHANGED <<simVars, requests, histVars>>
BY DEF ControllerStep, CtlNext, Poll, Answer, AnswerFails, Replace, Leave, Crash,
       Restart

LEMMA ControllerPreservesFiles ==
  ASSUME FilesInv, ControllerStep
  PROVE  FilesInv'
<1>1. run' = run /\ requests' = requests
  BY ControllerKeepsSimulator DEF simVars
<1>2. CASE Poll
  <2>1. batch' \subseteq Steps /\ processed' \subseteq Steps
    BY <1>2 DEF Poll, Unprocessed, FilesInv
  <2>2. \A s \in batch' : requests[s] # Absent
    BY <1>2 DEF Poll, Unprocessed
  <2>3. responses' = responses /\ ctl' \in {"polling", "answering"}
        /\ (ctl' = "answering" => batch' # {})
    BY <1>2 DEF Poll
  <2>. QED
    BY <1>1, <2>1, <2>2, <2>3 DEF FilesInv, IsRequest, IsResponse
<1>3. CASE Answer
  <2>1. Current \in batch /\ batch' = batch /\ Current' = Current
    BY <1>3, CurrentInBatch DEF Answer, FilesInv, Current
  <2>2. Current \in Steps /\ IsRequest(requests[Current], Current)
    BY <2>1 DEF FilesInv
  <2>3. PICK r \in Results(requests[Current]) : tmp' = r
    BY <1>3 DEF Answer
  <2>4. IsResponse(r, Current)
    <3> DEFINE q == requests[Current]
    <3>1. q.previousU \in Int
      BY <2>2, BridgeAssumption DEF IsRequest, Powers
    <3>2. PICK ok \in BOOLEAN, p \in Int : r = Response(q, ok, p)
      <4>1. CASE r \in {Response(q, TRUE, p) : p \in (MinPower - 1)..(MaxPower + 1)}
        <5>1. PICK p \in (MinPower - 1)..(MaxPower + 1) : r = Response(q, TRUE, p)
          BY <4>1
        <5>2. p \in Int
          BY BridgeAssumption
        <5>. QED
          BY <5>1, <5>2
      <4>2. CASE r \in {Response(q, FALSE, q.previousU)}
        BY <3>1, <4>2
      <4>. QED
        BY <2>3, <4>1, <4>2, Zenon DEF Results
    <3>3. r.run = q.run /\ r.step = q.step /\ r.success = ok /\ r.power = p
      BY <3>2 DEF Response
    <3>. QED
      BY <2>2, <3>2, <3>3 DEF IsRequest, IsResponse
  <2>. QED
    BY <1>1, <1>3, <2>1, <2>3, <2>4 DEF Answer, FilesInv, IsRequest, IsResponse
<1>4. CASE AnswerFails
  BY <1>1, <1>4 DEF AnswerFails, FilesInv, IsRequest, IsResponse
<1>5. CASE Replace
  <2>1. Current \in batch /\ Current \in Steps /\ IsResponse(tmp, Current)
    BY <1>5, CurrentInBatch DEF Replace, FilesInv
  <2>2. \A s \in Steps : responses'[s] = Absent \/ IsResponse(responses'[s], s)
    BY <1>5, <2>1 DEF Replace, FilesInv
  <2>3. DOMAIN responses' = Steps /\ batch' \subseteq batch /\ processed' \subseteq Steps
    BY <1>5, <2>1 DEF Replace, FilesInv
  <2>4. ctl' \in {"polling", "answering", "left"} /\ (ctl' = "answering" => batch' # {})
    BY <1>5, <2>1 DEF Replace
  <2>. QED
    BY <1>1, <2>2, <2>3, <2>4 DEF FilesInv, IsRequest, IsResponse
<1>6. CASE Leave
  BY <1>1, <1>6 DEF Leave, FilesInv, IsRequest, IsResponse
<1>7. CASE Crash
  BY <1>1, <1>7 DEF Crash, FilesInv, IsRequest, IsResponse
<1>8. CASE Restart
  BY <1>1, <1>8 DEF Restart, FilesInv, IsRequest, IsResponse
<1>. QED
  BY <1>2, <1>3, <1>4, <1>5, <1>6, <1>7, <1>8 DEF ControllerStep, CtlNext

LEMMA ControllerPreservesBridgeInv ==
  ASSUME BridgeInv, ControllerStep
  PROVE  BridgeInv'
<1>1. FilesInv'
  BY ControllerPreservesFiles DEF BridgeInv
<1>2. UNCHANGED <<run, sim, now, stepDue, currentP, uePower, latestSample, samples,
                  lastSampleTime, previousU, step, requests, aired, applied>>
  BY ControllerKeepsSimulator DEF simVars, histVars
<1>3. ClockInv' /\ PowerInv'
  BY <1>2 DEF BridgeInv, ClockInv, PowerInv
<1>4. StepInv'
  BY <1>2 DEF BridgeInv, StepInv, NextStep
<1>5. SamplesInv' /\ RequestInv' /\ AppliedInv'
  BY <1>2 DEF BridgeInv, SamplesInv, RequestInv, AppliedInv
<1>. QED
  BY <1>1, <1>3, <1>4, <1>5 DEF BridgeInv

-----------------------------------------------------------------------------
(* The simulator *)

(* Whatever the simulator does, the files stay what they are as long as it *)
(* writes none.                                                            *)
LEMMA FilesUntouched ==
  ASSUME FilesInv, ClockInv,
         UNCHANGED <<requests, responses, tmp, ctlVars>>,
         run' \in Nat, run <= run'
  PROVE  FilesInv'
BY DEF FilesInv, ClockInv, IsRequest, IsResponse, ctlVars, Current

LEMMA AdvancePreserves ==
  ASSUME BridgeInv, Advance
  PROVE  BridgeInv'
<1> USE BridgeAssumption DEF BridgeInv
<1>1. FilesInv'
  BY FilesUntouched DEF Advance, ClockInv
<1>2. ClockInv'
  BY DEF Advance, ClockInv
<1>3. /\ aired' \in Seq(Powers) /\ Len(aired') = now + 1
      /\ \A k \in 1..now : aired'[k] = aired[k]
      /\ aired'[now + 1] = uePower
  BY DEF Advance, PowerInv, ClockInv
<1>4. PowerInv'
  BY <1>3 DEF Advance, PowerInv
<1>5. StepInv'
  BY DEF Advance, StepInv, ClockInv, NextStep, NoStep
<1>6. SamplesInv'
  BY <1>3 DEF Advance, SamplesInv, ClockInv
<1>7. RequestInv' /\ AppliedInv'
  BY DEF Advance, RequestInv, AppliedInv
<1>. QED
  BY <1>1, <1>2, <1>4, <1>5, <1>6, <1>7

LEMMA SampleAndWritePreserves ==
  ASSUME BridgeInv, SampleAndWrite
  PROVE  BridgeInv'
<1> USE BridgeAssumption DEF BridgeInv
<1>1. FilesInv'
  BY FilesUntouched DEF SampleAndWrite, ClockInv
<1>2. ClockInv'
  BY DEF SampleAndWrite, ClockInv
<1>3. PowerInv'
  BY DEF SampleAndWrite, histVars, PowerInv
<1>4. StepInv'
  BY DEF SampleAndWrite, histVars, StepInv, ClockInv, NextStep, NoStep
<1>5. SamplesInv' /\ RequestInv' /\ AppliedInv'
  BY DEF SampleAndWrite, histVars, SamplesInv, RequestInv, AppliedInv
<1>. QED
  BY <1>1, <1>2, <1>3, <1>4, <1>5

LEMMA ResponseTimeoutPreserves ==
  ASSUME BridgeInv, ResponseTimeout
  PROVE  BridgeInv'
<1> USE BridgeAssumption DEF BridgeInv
<1>1. FilesInv'
  BY FilesUntouched DEF ResponseTimeout, ClockInv
<1>2. ClockInv' /\ PowerInv'
  BY DEF ResponseTimeout, histVars, ClockInv, PowerInv
<1>3. StepInv'
  BY DEF ResponseTimeout, histVars, StepInv, NextStep
<1>4. SamplesInv' /\ RequestInv' /\ AppliedInv'
  BY DEF ResponseTimeout, histVars, SamplesInv, RequestInv, AppliedInv
<1>. QED
  BY <1>1, <1>2, <1>3, <1>4

LEMMA RerunPreserves ==
  ASSUME BridgeInv, Rerun
  PROVE  BridgeInv'
<1> USE BridgeAssumption DEF BridgeInv
<1>1. FilesInv'
  BY FilesUntouched DEF Rerun, ClockInv
<1>2. ClockInv'
  BY DEF Rerun, ClockInv
<1>3. PowerInv'
  BY DEF Rerun, PowerInv, Powers
<1>4. StepInv'
  <2>1. /\ stepDue' = EvalStart + 1 /\ NextStep' = EvalStart + 1
        /\ sim' = "advance" /\ now' = 0 /\ step' = 0 /\ lastSampleTime' = 0
        /\ samples' = <<>> /\ applied' = <<>>
    BY DEF Rerun, NextStep, NoStep
  <2>2. /\ samples' \in Seq([time : Nat, p : Powers]) /\ Len(samples') = 0
        /\ applied' \in Seq([step : Nat, time : Nat, answers : Nat, power : Powers])
        /\ Len(applied') = 0
    BY <2>1
  <2>. QED
    BY <2>1, <2>2 DEF StepInv
<1>5. SamplesInv' /\ RequestInv' /\ AppliedInv'
  BY DEF Rerun, SamplesInv, RequestInv, AppliedInv
<1>. QED
  BY <1>1, <1>2, <1>3, <1>4, <1>5

(* The history after the bridge step of an instant in the evaluation: the  *)
(* sample of the instant is new, it is pushed, and the buffer keeps at     *)
(* most PastHorizon samples, the latest ones.                              *)
LEMMA PushKeepsLatest ==
  ASSUME BridgeInv, RunDeepcBridgeStep, now < EvalEnd
  PROVE  /\ samples' \in Seq([time : Nat, p : Powers])
         /\ lastSampleTime' = now
         /\ Len(samples') = IF now - EvalStart < PastHorizon
                            THEN now - EvalStart ELSE PastHorizon
         /\ \A i \in 1..Len(samples') :
              /\ samples'[i].time = now - Len(samples') + i
              /\ samples'[i].time \in 1..now
              /\ samples'[i].p = aired[samples'[i].time]
         /\ IF Len(samples') = PastHorizon
            THEN /\ WriteRequest([i \in DOMAIN samples' |-> samples'[i].p])
                 /\ sim' = "waiting" /\ stepDue' = stepDue
            ELSE sim' = "advance" /\ ScheduleNext /\ requests' = requests
<1> USE BridgeAssumption DEF BridgeInv
<1> DEFINE longer == Append(samples, latestSample)
<1>1. /\ sim = "bridge" /\ stepDue = now /\ now \in Nat /\ now > EvalStart
      /\ latestSample = [time |-> now, p |-> aired[now]]
      /\ aired[now] \in Powers
  BY DEF RunDeepcBridgeStep, StepInv, PowerInv, ClockInv, NextStep, NoStep
<1>2. latestSample \in [time : Nat, p : Powers] /\ latestSample.time = now
      /\ latestSample.p = aired[now]
  BY <1>1
<1>3. /\ NextStep = now
      /\ lastSampleTime = IF now = EvalStart + 1 THEN 0 ELSE now - 1
      /\ Len(samples) = IF now - EvalStart - 1 < PastHorizon
                        THEN now - EvalStart - 1 ELSE PastHorizon
      /\ samples \in Seq([time : Nat, p : Powers])
  BY <1>1 DEF StepInv, NextStep, NoStep
<1>4. /\ samples' = IF Len(longer) > PastHorizon THEN Tail(longer) ELSE longer
      /\ lastSampleTime' = now
      /\ IF Len(samples') = PastHorizon
         THEN /\ WriteRequest([i \in DOMAIN samples' |-> samples'[i].p])
              /\ sim' = "waiting" /\ stepDue' = stepDue
         ELSE sim' = "advance" /\ ScheduleNext /\ requests' = requests
  BY <1>1, <1>2, <1>3 DEF RunDeepcBridgeStep, PushSample
<1>5. /\ longer \in Seq([time : Nat, p : Powers])
      /\ Len(longer) = Len(samples) + 1
      /\ \A i \in 1..Len(samples) : longer[i] = samples[i]
      /\ longer[Len(samples) + 1] = latestSample
  BY <1>2, <1>3
<1> HIDE DEF longer
<1>6. \A i \in 1..Len(longer) :
        /\ longer[i].time = now - Len(longer) + i
        /\ longer[i].time \in 1..now
        /\ longer[i].p = aired[longer[i].time]
  <2> SUFFICES ASSUME NEW i \in 1..Len(longer)
               PROVE  /\ longer[i].time = now - Len(longer) + i
                      /\ longer[i].time \in 1..now
                      /\ longer[i].p = aired[longer[i].time]
    OBVIOUS
  <2>0. now \in Nat /\ Len(samples) \in Nat /\ Len(longer) = Len(samples) + 1
    BY <1>1, <1>3, <1>5
  <2>1. CASE i = Len(samples) + 1
    <3>1. longer[i] = latestSample
      BY <1>5, <2>1
    <3>. QED
      BY <1>1, <1>2, <2>0, <2>1, <3>1
  <2>2. CASE i \in 1..Len(samples)
    <3>1. Len(samples) > 0 /\ lastSampleTime = now - 1
      BY <1>1, <1>3, <2>2
    <3>2. longer[i] = samples[i]
      BY <1>5, <2>2
    <3>3. /\ samples[i].time = lastSampleTime - Len(samples) + i
          /\ samples[i].time \in 1..now
          /\ samples[i].p = aired[samples[i].time]
      BY <2>2 DEF SamplesInv
    <3>. QED
      BY <2>0, <3>1, <3>2, <3>3
  <2>. QED
    BY <2>0, <2>1, <2>2
<1>7. CASE Len(longer) > PastHorizon
  <2>0. /\ samples' = Tail(longer) /\ Len(longer) = PastHorizon + 1
        /\ ~(now - EvalStart < PastHorizon)
    BY <1>1, <1>3, <1>4, <1>5, <1>7
  <2>1. /\ Len(samples') = PastHorizon
        /\ samples' \in Seq([time : Nat, p : Powers])
        /\ \A i \in 1..PastHorizon : samples'[i] = longer[i + 1]
    BY <1>5, <2>0
  <2>2. \A i \in 1..Len(samples') :
          /\ samples'[i].time = now - Len(samples') + i
          /\ samples'[i].time \in 1..now
          /\ samples'[i].p = aired[samples'[i].time]
    <3> SUFFICES ASSUME NEW i \in 1..PastHorizon
                 PROVE  /\ samples'[i].time = now - PastHorizon + i
                        /\ samples'[i].time \in 1..now
                        /\ samples'[i].p = aired[samples'[i].time]
      BY <2>1
    <3>1. i + 1 \in 1..Len(longer) /\ samples'[i] = longer[i + 1]
      BY <2>0, <2>1
    <3>2. Len(longer) = PastHorizon + 1
      BY <2>0
    <3>3. /\ longer[i + 1].time = now - Len(longer) + (i + 1)
          /\ longer[i + 1].time \in 1..now
          /\ longer[i + 1].p = aired[longer[i + 1].time]
      BY <1>6, <3>1
    <3>4. now - Len(longer) + (i + 1) = now - PastHorizon + i
      BY <1>1, <3>2
    <3>. QED
      BY <3>1, <3>3, <3>4
  <2>. QED
    BY <1>4, <2>0, <2>1, <2>2
<1>8. CASE Len(longer) <= PastHorizon
  <2>1. /\ samples' = longer
        /\ Len(samples') = IF now - EvalStart < PastHorizon
                           THEN now - EvalStart ELSE PastHorizon
    BY <1>1, <1>3, <1>4, <1>5, <1>8
  <2>. QED
    BY <1>4, <1>5, <1>6, <2>1
<1>. QED
  BY <1>3, <1>5, <1>7, <1>8

LEMMA BridgeStepPreserves ==
  ASSUME BridgeInv, RunDeepcBridgeStep
  PROVE  BridgeInv'
<1> USE BridgeAssumption DEF BridgeInv
<1>0. /\ sim = "bridge" /\ stepDue = now /\ now \in Nat /\ now > EvalStart
      /\ now <= EvalEnd /\ now < SimEnd /\ NextStep = now
  BY DEF RunDeepcBridgeStep, StepInv, ClockInv, NextStep, NoStep
<1>1. UNCHANGED <<run, now, currentP, uePower, latestSample, previousU, step,
                  responses, tmp, ctlVars, aired, applied>>
  BY DEF RunDeepcBridgeStep, histVars
<1>2. CASE now < EvalEnd /\ Len(samples') = PastHorizon
  <2>1. /\ WriteRequest([i \in DOMAIN samples' |-> samples'[i].p])
        /\ sim' = "waiting" /\ stepDue' = stepDue
        /\ lastSampleTime' = now
        /\ samples' \in Seq([time : Nat, p : Powers])
        /\ now - EvalStart >= PastHorizon
        /\ \A i \in 1..PastHorizon :
             /\ samples'[i].time = now - PastHorizon + i
             /\ samples'[i].time \in 1..now
             /\ samples'[i].p = aired[samples'[i].time]
    BY <1>0, <1>2, PushKeepsLatest
  <2>2. /\ step \in Steps
        /\ Len(applied) = now - EvalStart - PastHorizon
    <3>1. /\ step = Len(applied)
          /\ Len(applied) = IF now - EvalStart > PastHorizon
                            THEN now - EvalStart - PastHorizon ELSE 0
      BY <1>0 DEF StepInv
    <3>2. now - EvalStart >= PastHorizon /\ now < EvalEnd
      BY <1>2, <2>1
    <3>. QED
      BY <1>0, <3>1, <3>2 DEF Steps
  <2>3. /\ DOMAIN requests' = Steps
        /\ \A s \in Steps \ {step} : requests'[s] = requests[s]
        /\ requests'[step] =
             [run |-> run, step |-> step, time |-> now, previousU |-> previousU,
              uIni |-> [i \in DOMAIN samples' |-> samples'[i].p]]
    BY <2>1, <2>2 DEF WriteRequest, FilesInv
  <2>4. IsRequest(requests'[step], step) /\ requests'[step] # Absent
    <3>1. /\ requests'[step].run = run /\ requests'[step].step = step
          /\ requests'[step].previousU = previousU
      BY <2>3
    <3>2. run \in 1..run /\ previousU \in Powers /\ run # 0
      BY DEF ClockInv, PowerInv
    <3>. QED
      BY <3>1, <3>2, NotAbsent DEF IsRequest
  <2>5. FilesInv'
    BY <1>1, <2>3, <2>4 DEF FilesInv, IsRequest, IsResponse, ctlVars, Current
  <2>6. ClockInv' /\ PowerInv'
    BY <1>0, <1>1, <2>1 DEF ClockInv, PowerInv
  <2>7. StepInv'
    BY <1>0, <1>1, <1>2, <2>1, <2>2 DEF StepInv, NextStep
  <2>8. SamplesInv'
    BY <1>1, <1>2, <2>1 DEF SamplesInv
  <2>9. RequestInv'
    <3>1. DOMAIN samples' = 1..PastHorizon
      BY <1>2, <2>1
    <3>2. \A i \in 1..PastHorizon : samples'[i].p = aired[now - PastHorizon + i]
      BY <2>1
    <3>3. requests'[step].uIni = [i \in 1..PastHorizon |-> aired[now - PastHorizon + i]]
      BY <2>3, <3>1, <3>2
    <3>. QED
      BY <1>1, <2>3, <3>3 DEF RequestInv, PowerInv
  <2>10. AppliedInv'
    BY <1>1 DEF AppliedInv
  <2>. QED
    BY <2>5, <2>6, <2>7, <2>8, <2>9, <2>10
<1>3. CASE now < EvalEnd /\ Len(samples') # PastHorizon
  <2>1. /\ sim' = "advance" /\ ScheduleNext /\ requests' = requests
        /\ lastSampleTime' = now
        /\ samples' \in Seq([time : Nat, p : Powers])
        /\ now - EvalStart < PastHorizon
        /\ Len(samples') = now - EvalStart
        /\ \A i \in 1..Len(samples') :
             /\ samples'[i].time = now - Len(samples') + i
             /\ samples'[i].time \in 1..now
             /\ samples'[i].p = aired[samples'[i].time]
    BY <1>0, <1>3, PushKeepsLatest
  <2>2. FilesInv'
    BY <1>1, <2>1, FilesUntouched DEF ClockInv
  <2>3. ClockInv' /\ PowerInv'
    BY <1>0, <1>1, <2>1 DEF ClockInv, PowerInv
  <2>4. NextStep' = now + 1 /\ stepDue' \in {NoStep, now + 1}
    <3>1. stepDue' = IF now + 1 < EvalEnd THEN now + 1 ELSE NoStep
      BY <2>1 DEF ScheduleNext
    <3>2. CASE now + 1 < EvalEnd
      BY <1>0, <3>1, <3>2 DEF NextStep, NoStep
    <3>3. CASE ~(now + 1 < EvalEnd)
      <4>1. EvalEnd = now + 1
        BY <1>0, <1>3, <3>3
      <4>. QED
        BY <3>1, <3>3, <4>1 DEF NextStep
    <3>. QED
      BY <3>2, <3>3
  <2>5. Len(applied) = 0
    BY <1>0, <2>1 DEF StepInv
  <2>6. StepInv'
    <3>1. /\ stepDue' \in Nat /\ NextStep' > EvalStart /\ NextStep' <= EvalEnd
          /\ stepDue' # NoStep => now < stepDue'
      BY <1>0, <1>3, <2>4 DEF NoStep
    <3>2. /\ step' \in Nat /\ step' = Len(applied')
          /\ applied' \in Seq([step : Nat, time : Nat, answers : Nat, power : Powers])
      BY <1>1 DEF StepInv
    <3>3. /\ lastSampleTime' = IF NextStep' = EvalStart + 1 THEN 0 ELSE NextStep' - 1
          /\ Len(samples') = IF NextStep' - EvalStart - 1 < PastHorizon
                             THEN NextStep' - EvalStart - 1 ELSE PastHorizon
          /\ Len(applied') = IF NextStep' - EvalStart > PastHorizon
                             THEN NextStep' - EvalStart - PastHorizon ELSE 0
      BY <1>0, <1>1, <2>1, <2>4, <2>5
    <3>. QED
      BY <1>0, <1>1, <2>1, <3>1, <3>2, <3>3 DEF StepInv
  <2>7. SamplesInv' /\ RequestInv' /\ AppliedInv'
    BY <1>1, <2>1 DEF SamplesInv, RequestInv, AppliedInv
  <2>. QED
    BY <2>2, <2>3, <2>6, <2>7
<1>4. CASE now = EvalEnd
  <2>1. /\ UNCHANGED <<samples, lastSampleTime, requests>>
        /\ sim' = "advance" /\ stepDue' = NoStep
    BY <1>4 DEF RunDeepcBridgeStep
  <2>2. FilesInv'
    BY <1>1, <2>1, FilesUntouched DEF ClockInv
  <2>3. ClockInv' /\ PowerInv'
    BY <1>0, <1>1, <2>1 DEF ClockInv, PowerInv
  <2>4. NextStep' = NextStep
    BY <1>0, <1>4, <2>1 DEF NextStep, NoStep
  <2>5. StepInv'
    BY <1>0, <1>1, <2>1, <2>4 DEF StepInv, NoStep
  <2>6. SamplesInv' /\ RequestInv' /\ AppliedInv'
    BY <1>1, <2>1 DEF SamplesInv, RequestInv, AppliedInv
  <2>. QED
    BY <2>2, <2>3, <2>5, <2>6
<1>. QED
  BY <1>0, <1>2, <1>3, <1>4

LEMMA ReadResponsePreserves ==
  ASSUME BridgeInv, ReadResponse
  PROVE  BridgeInv'
<1> USE BridgeAssumption DEF BridgeInv
<1> DEFINE r == responses[step]
           p == AppliedPower(r)
           entry == [step |-> step, time |-> now, answers |-> r.run, power |-> p]
<1>0. /\ sim = "waiting" /\ stepDue = now /\ now \in Nat /\ now < EvalEnd
      /\ now < SimEnd /\ lastSampleTime = now /\ now > EvalStart
      /\ Len(samples) = PastHorizon
      /\ step = now - EvalStart - PastHorizon /\ step = Len(applied) /\ step \in Nat
  BY DEF ReadResponse, StepInv, ClockInv, NextStep, NoStep
<1>1. /\ step \in Steps /\ IsResponse(r, step)
  BY <1>0 DEF Steps, ReadResponse, FilesInv
<1>2. p \in Powers
  BY <1>1 DEF AppliedPower, IsResponse, PowerInv, Powers
<1>3. /\ applied' = Append(applied, entry)
      /\ previousU' = p /\ currentP' = p /\ uePower' = p
      /\ step' = step + 1 /\ ScheduleNext /\ sim' = "advance"
      /\ UNCHANGED <<run, now, latestSample, samples, lastSampleTime, requests,
                     responses, tmp, ctlVars, aired>>
  BY DEF ReadResponse, ApplyTxPowerAtTime
<1> HIDE DEF p
<1>4. /\ entry \in [step : Nat, time : Nat, answers : Nat, power : Powers]
      /\ entry.step = step /\ entry.time = now /\ entry.answers = r.run
  BY <1>0, <1>1, <1>2 DEF IsResponse, ClockInv
<1> HIDE DEF entry
<1>5. /\ applied' \in Seq([step : Nat, time : Nat, answers : Nat, power : Powers])
      /\ Len(applied') = step + 1
      /\ \A i \in 1..step : applied'[i] = applied[i]
      /\ applied'[step + 1] = entry
  <2>1. /\ applied \in Seq([step : Nat, time : Nat, answers : Nat, power : Powers])
        /\ Len(applied) = step
    BY <1>0 DEF StepInv
  <2>2. entry \in [step : Nat, time : Nat, answers : Nat, power : Powers]
    BY <1>4
  <2> DEFINE S == [step : Nat, time : Nat, answers : Nat, power : Powers]
  <2> HIDE DEF S
  <2>3. applied \in Seq(S) /\ entry \in S
    BY <2>1, <2>2 DEF S
  <2>4. /\ Append(applied, entry) \in Seq(S)
        /\ Len(Append(applied, entry)) = Len(applied) + 1
        /\ \A i \in 1..Len(applied) : Append(applied, entry)[i] = applied[i]
        /\ Append(applied, entry)[Len(applied) + 1] = entry
    BY <2>3, AppendProperties
  <2>. QED
    BY <1>3, <2>1, <2>4 DEF S
<1>6. FilesInv'
  BY <1>3, FilesUntouched DEF ClockInv
<1>7. ClockInv' /\ PowerInv'
  BY <1>0, <1>2, <1>3 DEF ClockInv, PowerInv
<1>8. NextStep' = now + 1 /\ stepDue' \in {NoStep, now + 1}
  <2>1. stepDue' = IF now + 1 < EvalEnd THEN now + 1 ELSE NoStep
    BY <1>3 DEF ScheduleNext
  <2>2. CASE now + 1 < EvalEnd
    BY <1>0, <2>1, <2>2 DEF NextStep, NoStep
  <2>3. CASE ~(now + 1 < EvalEnd)
    <3>1. EvalEnd = now + 1
      BY <1>0, <2>3
    <3>. QED
      BY <2>1, <2>3, <3>1 DEF NextStep
  <2>. QED
    BY <2>2, <2>3
<1>9. StepInv'
  <2>1. /\ stepDue' \in Nat /\ NextStep' > EvalStart /\ NextStep' <= EvalEnd
        /\ stepDue' # NoStep => now < stepDue'
    BY <1>0, <1>8 DEF NoStep
  <2>2. step' \in Nat /\ step' = Len(applied')
    BY <1>0, <1>3, <1>5
  <2>3. samples' \in Seq([time : Nat, p : Powers])
    BY <1>3 DEF StepInv
  <2>4. /\ lastSampleTime' = IF NextStep' = EvalStart + 1 THEN 0 ELSE NextStep' - 1
        /\ Len(samples') = IF NextStep' - EvalStart - 1 < PastHorizon
                           THEN NextStep' - EvalStart - 1 ELSE PastHorizon
        /\ Len(applied') = IF NextStep' - EvalStart > PastHorizon
                           THEN NextStep' - EvalStart - PastHorizon ELSE 0
    BY <1>0, <1>3, <1>5, <1>8
  <2>. QED
    BY <1>0, <1>3, <1>5, <2>1, <2>2, <2>3, <2>4 DEF StepInv
<1>10. SamplesInv' /\ RequestInv'
  BY <1>3 DEF SamplesInv, RequestInv
<1>11. AppliedInv'
  <2> SUFFICES ASSUME NEW i \in 1..(step + 1)
               PROVE  /\ applied'[i].step = i - 1
                      /\ applied'[i].time = EvalStart + PastHorizon + (i - 1)
                      /\ run = 1 => applied'[i].answers = 1
    BY <1>3, <1>5 DEF AppliedInv
  <2>1. CASE i = step + 1
    <3>1. run = 1 => r.run = 1
      BY <1>1 DEF IsResponse
    <3>2. applied'[i] = entry
      BY <1>5, <2>1
    <3>3. entry.step = i - 1 /\ entry.time = EvalStart + PastHorizon + (i - 1)
      BY <1>0, <1>4, <2>1
    <3>4. run = 1 => entry.answers = 1
      BY <1>4, <3>1
    <3>. QED
      BY <3>2, <3>3, <3>4
  <2>2. CASE i \in 1..step
    BY <1>0, <1>5, <2>2 DEF AppliedInv
  <2>. QED
    BY <1>0, <2>1, <2>2
<1>. QED
  BY <1>6, <1>7, <1>9, <1>10, <1>11

-----------------------------------------------------------------------------
LEMMA NextPreservesBridgeInv == BridgeInv /\ [Next]_vars => BridgeInv'
<1> SUFFICES ASSUME BridgeInv, [Next]_vars PROVE BridgeInv'
  OBVIOUS
<1>1. CASE ControllerStep
  BY <1>1, ControllerPreservesBridgeInv
<1>2. CASE Advance
  BY <1>2, AdvancePreserves
<1>3. CASE SampleAndWrite
  BY <1>3, SampleAndWritePreserves
<1>4. CASE RunDeepcBridgeStep
  BY <1>4, BridgeStepPreserves
<1>5. CASE ReadResponse
  BY <1>5, ReadResponsePreserves
<1>6. CASE ResponseTimeout
  BY <1>6, ResponseTimeoutPreserves
<1>7. CASE Rerun
  BY <1>7, RerunPreserves
<1>8. CASE UNCHANGED vars
  BY <1>8 DEF vars, simVars, ctlVars, histVars, BridgeInv, FilesInv, ClockInv,
              PowerInv, StepInv, SamplesInv, RequestInv, AppliedInv, IsRequest,
              IsResponse, Current, NextStep
<1>. QED
  BY <1>1, <1>2, <1>3, <1>4, <1>5, <1>6, <1>7, <1>8
     DEF Next, SimNext, ControllerStep

(* The inductive invariant of the closed loop holds in every reachable     *)
(* state, with any mix of controllers, crashes, timeouts and reruns.       *)
THEOREM BridgeInvariant == Spec => []BridgeInv
<1>1. Init => BridgeInv
  BY InitBridgeInv
<1>2. BridgeInv /\ [Next]_vars => BridgeInv'
  BY NextPreservesBridgeInv
<1>. QED
  BY <1>1, <1>2, PTL DEF Spec

(* Type correctness, including that a request and a response carry the     *)
(* step number of the file they are in (WriteRequest, the controllers'     *)
(* response files).                                                        *)
THEOREM BridgeTypeOK == Spec => []TypeOK
<1>1. BridgeInv => TypeOK
  <2> SUFFICES ASSUME BridgeInv PROVE TypeOK
    OBVIOUS
  <2>1. FilesInv /\ ClockInv /\ StepInv
    BY DEF BridgeInv
  <2>2. stepDue \in 0..SimEnd /\ step \in Steps /\ lastSampleTime \in 0..SimEnd
    BY <2>1, BridgeAssumption DEF StepInv, ClockInv, Steps, NextStep, NoStep
  <2>3. Len(samples) <= PastHorizon
    BY <2>1, BridgeAssumption DEF StepInv, ClockInv, NextStep, NoStep
  <2>4. ASSUME NEW s \in Steps
        PROVE  /\ requests[s] # Absent => requests[s].step = s
               /\ responses[s] # Absent => responses[s].step = s
    BY <2>1 DEF FilesInv, IsRequest, IsResponse
  <2>5. /\ run \in 1..MaxRuns /\ now \in 0..SimEnd
        /\ sim \in {"sample", "bridge", "advance", "waiting", "done", "aborted"}
    BY <2>1 DEF ClockInv
  <2>6. /\ ctl \in {"polling", "answering", "replacing", "left", "dead"}
        /\ processed \subseteq Steps
    BY <2>1 DEF FilesInv
  <2>. QED
    BY <2>2, <2>3, <2>4, <2>5, <2>6, Zenon DEF TypeOK
<1>. QED
  BY <1>1, BridgeInvariant, PTL

(* The power on the air is within the configured bounds whatever the       *)
(* controllers answer (the checks of RequestControl and the fallback to    *)
(* previousU).                                                             *)
THEOREM BridgePowerWithinBounds == Spec => []PowerWithinBounds
<1>1. BridgeInv => PowerWithinBounds
  <2> SUFFICES ASSUME BridgeInv PROVE PowerWithinBounds
    OBVIOUS
  <2>1. aired \in Seq(Powers) /\ uePower \in Powers
    BY DEF BridgeInv, PowerInv
  <2>2. \A k \in DOMAIN aired : aired[k] \in Powers
    BY <2>1, ElementOfSeq, LenProperties
  <2>. QED
    BY <2>1, <2>2 DEF Powers, PowerWithinBounds
<1>. QED
  BY <1>1, BridgeInvariant, PTL

(* The history in a request is the power that was on the air in the last   *)
(* PastHorizon intervals, without holes, and previous_u is the power in    *)
(* force (PushSample, ApplyTxPowerAtTime, WriteRequest).                   *)
THEOREM BridgeHistoryTruthful == Spec => []HistoryTruthful
<1>1. BridgeInv => HistoryTruthful
  <2> SUFFICES ASSUME BridgeInv PROVE HistoryTruthful
    OBVIOUS
  <2>1. /\ SamplesInv /\ RequestInv /\ StepInv
    BY DEF BridgeInv
  <2>2. /\ Len(samples) \in Nat /\ DOMAIN samples = 1..Len(samples)
        /\ lastSampleTime \in Nat
    BY <2>1 DEF StepInv
  <2>3. \A i \in DOMAIN samples : samples[i].p = aired[samples[i].time]
    BY <2>1, <2>2 DEF SamplesInv
  <2>4. ASSUME NEW i \in 1..(Len(samples) - 1)
        PROVE  samples[i + 1].time = samples[i].time + 1
    <3>1. i \in 1..Len(samples) /\ i + 1 \in 1..Len(samples)
      BY <2>2
    <3>2. /\ samples[i].time = lastSampleTime - Len(samples) + i
          /\ samples[i + 1].time = lastSampleTime - Len(samples) + (i + 1)
      BY <2>1, <3>1 DEF SamplesInv
    <3>. QED
      BY <2>2, <3>2
  <2>. QED
    BY <2>1, <2>3, <2>4 DEF HistoryTruthful, RequestInv
<1>. QED
  BY <1>1, BridgeInvariant, PTL

(* Every sample instant of the evaluation with a full history is           *)
(* controlled, once and in order, and none is missing at the end of a run  *)
(* (the rescheduling of RunDeepcBridgeStep and its comparisons with the    *)
(* end of the evaluation).                                                 *)
THEOREM BridgeEveryInstantControlled == Spec => []EveryInstantControlled
<1>1. BridgeInv => EveryInstantControlled
  <2> SUFFICES ASSUME BridgeInv PROVE EveryInstantControlled
    OBVIOUS
  <2> USE BridgeAssumption
  <2>1. DOMAIN applied = 1..Len(applied)
    BY DEF BridgeInv, StepInv
  <2>2. sim = "done" => NextStep = EvalEnd
    BY DEF BridgeInv, StepInv, ClockInv, NextStep, NoStep
  <2>3. sim = "done" => Len(applied) = IF EvalEnd - EvalStart > PastHorizon
                                       THEN EvalEnd - EvalStart - PastHorizon ELSE 0
    BY <2>2 DEF BridgeInv, StepInv
  <2>. QED
    BY <2>1, <2>3 DEF EveryInstantControlled, BridgeInv, AppliedInv
<1>. QED
  BY <1>1, BridgeInvariant, PTL

(* In a fresh directory every answer that is applied belongs to a request  *)
(* of this run, although controllers die between writing and renaming a    *)
(* response and answer requests again.                                     *)
THEOREM BridgeAnswersOwnRequest == Spec => []AnswersOwnRequest
<1>1. BridgeInv => AnswersOwnRequest
  <2> SUFFICES ASSUME BridgeInv, run = 1 PROVE AnswersThisRun
    BY DEF AnswersOwnRequest
  <2>1. DOMAIN applied = 1..Len(applied)
    BY DEF BridgeInv, StepInv
  <2>. QED
    BY <2>1 DEF AnswersThisRun, BridgeInv, AppliedInv
<1>. QED
  BY <1>1, BridgeInvariant, PTL
=============================================================================
