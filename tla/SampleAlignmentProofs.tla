----------------------- MODULE SampleAlignmentProofs ------------------------
(***************************************************************************)
(* Proofs about SampleAlignment for every set of powers, KPI window,       *)
(* update period, evaluation period and horizons.                          *)
(*                                                                         *)
(* Each row is tied to the powers on the air by the instant of its sample: *)
(* a training row carries the power of the next interval, a row of the     *)
(* closed loop that of the interval it closes.  Both kinds carry the same  *)
(* outputs.  What a column or a history relates then follows from the      *)
(* instants of its rows, which are consecutive and begin late enough for   *)
(* the KPI window not to be cut by the start of the evaluation.            *)
(***************************************************************************)
EXTENDS SampleAlignment, SequenceTheorems, FiniteSetTheorems, WellFoundedInduction, TLAPS

Rows == [time : Nat, p : Powers, y : Seq(Powers)]

(* The outputs of a row of instant t, on the air a *)
OutputsOf(r, t, a) ==
  EvalStart + KpiWindow <= t =>
    r.y = [i \in 1..KpiWindow |-> a[t - KpiWindow + i]]

(* The simulation that runs, training or closed loop *)
AirInv ==
  /\ phase \in {"training", "build", "control", "done"}
  /\ schedule \in [Scheduled -> Powers]
  /\ now \in Nat /\ now <= SimEnd
  /\ aired \in Seq(Powers) /\ Len(aired) = now
  /\ uePower \in Powers /\ currentP = uePower

Training == phase \in {"training", "build"}

SamplePending == agenda \in {<<"input", "sample">>, <<"sample">>}

TrainingAgenda ==
  Training =>
    /\ agenda \in {<<>>, <<"input">>, <<"sample">>, <<"input", "sample">>}
    /\ agenda \in {<<"input">>, <<"input", "sample">>} => now \in Scheduled
    /\ SamplePending => now \in Sampled
    /\ agenda = <<"input">> => now \notin Sampled
    /\ phase = "build" => agenda = <<>>

(* One row for every sample so far *)
RowsInv ==
  Training =>
    /\ Len(rows) = IF SamplePending \/ now = SimEnd THEN now - 1 ELSE now
    /\ \A i \in 1..Len(rows) :
         /\ rows[i].time = i /\ OutputsOf(rows[i], i, aired)
         /\ rows[i].p = IF i < now THEN aired[i + 1] ELSE uePower

ColumnsInv ==
  /\ rows \in Seq(Rows)
  /\ Training => columns = <<>>
  /\ ColumnsRespond

(* The row of instant t in the closed loop *)
SampleOf(r, t, a) ==
  /\ r \in Rows /\ r.time = t /\ r.p = a[t] /\ OutputsOf(r, t, a)

BridgePending == agenda \in {<<"sample", "bridge">>, <<"bridge">>}

ControlAgenda ==
  ~Training =>
    /\ agenda \in {<<>>, <<"sample">>, <<"sample", "bridge">>, <<"bridge">>}
    /\ BridgePending => EvalStart < now /\ now < EvalEnd
    /\ agenda \in {<<"sample">>, <<"sample", "bridge">>} =>
         now > 0 /\ uePower = aired[now]
    /\ agenda = <<"sample">> => ~(EvalStart < now /\ now < EvalEnd)
    /\ agenda = <<"bridge">> => SampleOf(latestSample, now, aired)

(* The last instant at which the bridge has had its turn *)
LastStep == IF BridgePending THEN now - 1
            ELSE IF now < EvalEnd THEN now ELSE EvalEnd - 1

SamplesInv ==
  /\ samples \in Seq(Rows) /\ Len(samples) <= PastHorizon
  /\ Training \/ now <= EvalStart => samples = <<>>
  /\ ~Training /\ now > EvalStart =>
       /\ EvalStart <= LastStep - Len(samples)
       /\ \A j \in 1..Len(samples) :
            SampleOf(samples[j], LastStep - Len(samples) + j, aired)

RequestsInv ==
  /\ requests \in Seq(Seq(Rows))
  /\ \A i \in 1..Len(requests) : Len(requests[i]) = PastHorizon /\ Responds(requests[i], 0)

AlignInv ==
  /\ AirInv /\ TrainingAgenda /\ RowsInv /\ ColumnsInv
  /\ ControlAgenda /\ SamplesInv /\ RequestsInv

-----------------------------------------------------------------------------
(* Facts about data *)

LEMMA MaxOfTwo ==
  ASSUME NEW x \in Int, NEW y \in Int
  PROVE  Max({x, y}) \in Int /\ Max({x, y}) = IF x >= y THEN x ELSE y
<1>1. \E z \in {x, y} : \A w \in {x, y} : z >= w
  OBVIOUS
<1>2. Max({x, y}) \in {x, y} /\ \A w \in {x, y} : Max({x, y}) >= w
  BY <1>1, Zenon DEF Max
<1>. QED
  BY <1>2

(* The KPI window, unless the start of the evaluation cuts it *)
LEMMA KpiFacts ==
  ASSUME NEW a \in Seq(Powers), NEW t \in Nat, t = Len(a),
         NEW y, y = SubSeq(a, Max({EvalStart, t - KpiWindow}) + 1, t)
  PROVE  /\ y \in Seq(Powers)
         /\ EvalStart + KpiWindow <= t => y = [i \in 1..KpiWindow |-> a[t - KpiWindow + i]]
<1>1. EvalStart \in Nat /\ KpiWindow \in Nat /\ KpiWindow > 0
  BY AlignmentAssumption
<1>2. PICK m \in Int :
        /\ m = Max({EvalStart, t - KpiWindow}) + 1
        /\ m = IF EvalStart >= t - KpiWindow THEN EvalStart + 1 ELSE t - KpiWindow + 1
  <2>1. EvalStart \in Int /\ t - KpiWindow \in Int
    BY <1>1
  <2>2. Max({EvalStart, t - KpiWindow}) =
          IF EvalStart >= t - KpiWindow THEN EvalStart ELSE t - KpiWindow
    BY <2>1, MaxOfTwo
  <2>. QED
    BY <2>1, <2>2
<1>3. m >= 1 /\ (EvalStart + KpiWindow <= t => m = t - KpiWindow + 1)
  BY <1>1, <1>2, SMTT(30)
<1>4. \A i \in m..t : a[i] \in Powers
  BY <1>3, ElementOfSeq
<1>5. /\ y \in Seq(Powers) /\ Len(y) = IF m <= t THEN t - m + 1 ELSE 0
      /\ \A i \in 1..(t - m + 1) : y[i] = a[m + i - 1]
  <2>1. y = SubSeq(a, m, t)
    BY <1>2
  <2>2. /\ SubSeq(a, m, t) \in Seq(Powers)
        /\ Len(SubSeq(a, m, t)) = IF m <= t THEN t - m + 1 ELSE 0
        /\ \A i \in 1..(t - m + 1) : SubSeq(a, m, t)[i] = a[m + i - 1]
    BY <1>4, SubSeqProperties
  <2>. QED
    BY <2>1, <2>2
<1>6. ASSUME EvalStart + KpiWindow <= t
      PROVE  y = [i \in 1..KpiWindow |-> a[t - KpiWindow + i]]
  <2>1. m = t - KpiWindow + 1 /\ m <= t /\ t - m + 1 = KpiWindow
    BY <1>1, <1>3, <1>6
  <2>2. Len(y) = KpiWindow
    BY <1>5, <2>1
  <2>3. \A i \in 1..KpiWindow : y[i] = a[t - KpiWindow + i]
    <3>1. \A i \in 1..KpiWindow : m + i - 1 = t - KpiWindow + i
      BY <1>1, <2>1
    <3>. QED
      BY <1>5, <2>1, <3>1, ZenonT(60)
  <2>4. y = [i \in 1..KpiWindow |-> y[i]]
    BY <1>5, <2>2, LenProperties
  <2>. QED
    BY <2>3, <2>4
<1>. QED
  BY <1>5, <1>6

(* The past of the air does not change. *)
LEMMA AirKept ==
  ASSUME NEW a \in Seq(Powers), NEW e \in Powers, NEW b, b = Append(a, e)
  PROVE  /\ b \in Seq(Powers) /\ Len(b) = Len(a) + 1 /\ b[Len(a) + 1] = e
         /\ \A i \in 1..Len(a) : b[i] = a[i]
         /\ \A t \in 1..Len(a) : \A r : OutputsOf(r, t, a) => OutputsOf(r, t, b)
         /\ \A t \in 1..Len(a) : \A r : SampleOf(r, t, a) => SampleOf(r, t, b)
<1>1. /\ b \in Seq(Powers) /\ Len(b) = Len(a) + 1 /\ b[Len(a) + 1] = e
      /\ \A i \in 1..Len(a) : b[i] = a[i]
  BY AppendProperties
<1>2. EvalStart \in Nat /\ KpiWindow \in Nat /\ Len(a) \in Nat
  BY AlignmentAssumption, LenProperties
<1>3. ASSUME NEW t \in 1..Len(a), NEW r, OutputsOf(r, t, a) PROVE OutputsOf(r, t, b)
  <2> SUFFICES ASSUME EvalStart + KpiWindow <= t
               PROVE  r.y = [i \in 1..KpiWindow |-> b[t - KpiWindow + i]]
    BY DEF OutputsOf
  <2>1. r.y = [i \in 1..KpiWindow |-> a[t - KpiWindow + i]]
    BY <1>3 DEF OutputsOf
  <2>2. \A i \in 1..KpiWindow : t - KpiWindow + i \in 1..Len(a)
    BY <1>2
  <2>3. \A i \in 1..KpiWindow : b[t - KpiWindow + i] = a[t - KpiWindow + i]
    BY <1>1, <2>2
  <2>. QED
    BY <2>1, <2>3
<1>4. ASSUME NEW t \in 1..Len(a), NEW r, SampleOf(r, t, a) PROVE SampleOf(r, t, b)
  BY <1>1, <1>3, <1>4 DEF SampleOf
<1>. QED
  BY <1>1, <1>3, <1>4

(* The first N rows rs report the air a and carry the powers that follow *)
RowsReport(rs, N, a) ==
  \A i \in 1..N : OutputsOf(rs[i], i, a) /\ (i < N => rs[i].p = a[i + 1])

(* The L rows of rs after the q-th *)
SliceOf(c, rs, q, L) == DOMAIN c = 1..L /\ \A j \in 1..L : c[j] = rs[q + j]

(* Consecutive training rows from the evaluation period *)
LEMMA RowsRespond ==
  ASSUME NEW a, NEW rs, NEW c, NEW N \in Nat, NEW q \in Nat, NEW L \in Nat,
         RowsReport(rs, N, a), SliceOf(c, rs, q, L),
         EvalStart <= q + 1, q + L <= N
  PROVE  Responds(c, 1)
<1>0. /\ \A i \in 1..N : OutputsOf(rs[i], i, a) /\ (i < N => rs[i].p = a[i + 1])
      /\ DOMAIN c = 1..L /\ \A j \in 1..L : c[j] = rs[q + j]
  BY DEF RowsReport, SliceOf
<1>1. EvalStart \in Nat /\ KpiWindow \in Nat
  BY AlignmentAssumption
<1> SUFFICES ASSUME NEW j \in 1..L, j - KpiWindow - 1 >= 0
             PROVE  c[j].y = [i \in 1..KpiWindow |-> c[j - KpiWindow - 1 + i].p]
  BY <1>0 DEF Responds
<1>2. q + j \in 1..N /\ EvalStart + KpiWindow <= q + j
  BY <1>1
<1>3. c[j].y = [i \in 1..KpiWindow |-> a[(q + j) - KpiWindow + i]]
  BY <1>0, <1>2 DEF OutputsOf
<1>4. ASSUME NEW i \in 1..KpiWindow
      PROVE  c[j - KpiWindow - 1 + i].p = a[(q + j) - KpiWindow + i]
  <2>1. PICK k \in 1..L : k = j - KpiWindow - 1 + i /\ q + k \in 1..N /\ q + k < N
    BY <1>1
  <2>2. c[k].p = a[(q + k) + 1]
    BY <1>0, <2>1
  <2>3. (q + k) + 1 = (q + j) - KpiWindow + i
    BY <1>1, <2>1
  <2>. QED
    BY <2>1, <2>2, <2>3
<1>. QED
  BY <1>3, <1>4

(* Consecutive samples of the closed loop from the evaluation period *)
LEMMA SamplesRespond ==
  ASSUME NEW a, NEW c, NEW L \in Nat, DOMAIN c = 1..L,
         NEW q \in Nat, q >= EvalStart, \A j \in 1..L : SampleOf(c[j], q + j, a)
  PROVE  Responds(c, 0)
<1>1. EvalStart \in Nat /\ KpiWindow \in Nat
  BY AlignmentAssumption
<1> SUFFICES ASSUME NEW j \in 1..L, j - KpiWindow - 0 >= 0
             PROVE  c[j].y = [i \in 1..KpiWindow |-> c[j - KpiWindow - 0 + i].p]
  BY DEF Responds
<1>2. EvalStart + KpiWindow <= q + j
  BY <1>1
<1>3. c[j].y = [i \in 1..KpiWindow |-> a[(q + j) - KpiWindow + i]]
  BY <1>2 DEF SampleOf, OutputsOf
<1>4. ASSUME NEW i \in 1..KpiWindow
      PROVE  c[j - KpiWindow - 0 + i].p = a[(q + j) - KpiWindow + i]
  <2>1. PICK k \in 1..L : k = j - KpiWindow - 0 + i
    BY <1>1
  <2>2. c[k].p = a[q + k]
    BY DEF SampleOf
  <2>3. q + k = (q + j) - KpiWindow + i
    BY <1>1, <2>1
  <2>. QED
    BY <2>1, <2>2, <2>3
<1>. QED
  BY <1>3, <1>4

LEMMA MinIsLeast ==
  ASSUME NEW S, S \subseteq Nat, S # {}
  PROVE  Min(S) \in S /\ \A y \in S : Min(S) <= y
<1>1. PICK m \in S : \A y \in S : ~(<<y, m>> \in OpToRel(<, Nat))
  BY NatLessThanWellFounded, WFMin, Zenon
<1>2. ASSUME NEW y \in S PROVE m <= y
  <2>1. <<y, m>> \in Nat \X Nat /\ <<y, m>>[1] = y /\ <<y, m>>[2] = m
    OBVIOUS
  <2>2. ~(y < m)
    BY <1>1, <2>1, Zenon DEF OpToRel
  <2>. QED
    BY <2>2
<1>3. \E x \in S : \A y \in S : x <= y
  BY <1>2
<1>. QED
  BY <1>3, Zenon DEF Min

LEMMA MaxIsGreatest ==
  ASSUME NEW N \in Nat, NEW S, S \subseteq 0..N, S # {}
  PROVE  Max(S) \in S /\ \A y \in S : Max(S) >= y
<1> DEFINE below == {k \in 0..N : N - k \in S}
<1>1. \A y \in S : y \in 0..N /\ N - y \in below
  OBVIOUS
<1>2. below \subseteq Nat /\ below # {}
  <2>1. PICK y \in S : TRUE
    OBVIOUS
  <2>2. N - y \in below
    BY <1>1
  <2>. QED
    BY <2>2
<1>3. PICK m : m \in below /\ \A k \in below : m <= k
  <2> HIDE DEF below
  <2>. QED
    BY <1>2, MinIsLeast
<1>4. N - m \in S /\ \A y \in S : N - m >= y
  <2>1. m \in 0..N /\ N - m \in S
    BY <1>3
  <2>2. ASSUME NEW y \in S PROVE N - m >= y
    <3>1. y \in 0..N /\ m <= N - y
      BY <1>1, <1>3
    <3>. QED
      BY <2>1, <3>1
  <2>. QED
    BY <2>1, <2>2
<1>5. \E x \in S : \A y \in S : x >= y
  BY <1>4
<1>. QED
  BY <1>5, Zenon DEF Max

(* The rows that pass the mask are the ones after b. *)
LEMMA CleanFacts ==
  ASSUME rows \in Seq(Rows), \A i \in 1..Len(rows) : rows[i].time = i
  PROVE  \E b \in Nat : \E n \in Nat :
           /\ Clean \in Seq(Rows) /\ Len(Clean) = n /\ b + n <= Len(rows)
           /\ n > 0 => b + 1 >= EvalStart
           /\ \A k \in 1..n : Clean[k] = rows[b + k]
<1> DEFINE mask == {i \in DOMAIN rows : EvalStart <= rows[i].time /\ rows[i].time <= EvalEnd}
<1>1. PICK N \in Nat : N = Len(rows) /\ DOMAIN rows = 1..N
  BY LenProperties
<1>2. \A i \in mask : i \in 1..N /\ EvalStart <= i
  BY <1>1
<1>3. CASE mask = {}
  <2>1. Clean = <<>>
    BY <1>3 DEF Clean
  <2>2. <<>> \in Seq(Rows) /\ Len(<<>>) = 0 /\ 0 + 0 <= Len(rows) /\ ~(0 > 0)
        /\ \A k \in 1..0 : FALSE
    BY <1>1
  <2>. QED
    BY <2>1, <2>2
<1>4. CASE mask # {}
  <2>1. mask \subseteq Nat /\ mask \subseteq 0..N
    BY <1>2
  <2>2. Clean = SubSeq(rows, Min(mask), Max(mask))
    BY <1>4 DEF Clean
  <2>3. Min(mask) \in mask /\ Max(mask) \in mask /\ Min(mask) <= Max(mask)
    <3> HIDE DEF mask
    <3>. QED
      BY <1>4, <2>1, MinIsLeast, MaxIsGreatest
  <2>4. PICK m \in 1..N : m = Min(mask) /\ EvalStart <= m
    BY <1>2, <2>3
  <2>5. PICK x \in 1..N : x = Max(mask) /\ m <= x
    BY <1>2, <2>3, <2>4
  <2>6. Clean = SubSeq(rows, m, x)
    BY <2>2, <2>4, <2>5
  <2> HIDE DEF mask
  <2>7. \A i \in m..x : rows[i] \in Rows
    BY <1>1, ElementOfSeq
  <2>8. /\ SubSeq(rows, m, x) \in Seq(Rows)
        /\ Len(SubSeq(rows, m, x)) = IF m <= x THEN x - m + 1 ELSE 0
        /\ \A i \in 1..(x - m + 1) : SubSeq(rows, m, x)[i] = rows[m + i - 1]
    BY <2>7, SubSeqProperties
  <2>9. PICK b \in Nat : b = m - 1
    OBVIOUS
  <2>10. PICK n \in Nat : n = x - m + 1
    BY <2>5
  <2>11. b + n <= N /\ b + 1 >= EvalStart /\ \A k \in 1..n : m + k - 1 = b + k
    <3>1. b + 1 = m /\ b + n <= N
      BY <2>5, <2>9, <2>10
    <3>2. \A k \in 1..n : m + k - 1 = b + k
      BY <2>9
    <3>3. m >= EvalStart
      BY <2>4, AlignmentAssumption
    <3>. QED
      BY <3>1, <3>2, <3>3
  <2>12. Clean \in Seq(Rows) /\ Len(Clean) = n /\ \A k \in 1..n : Clean[k] = rows[b + k]
    BY <2>5, <2>6, <2>8, <2>10, <2>11
  <2>. QED
    BY <1>1, <2>11, <2>12
<1>. QED
  BY <1>3, <1>4

(* Past and future of a column are one piece of the data. *)
LEMMA ColumnFacts ==
  ASSUME NEW S, NEW d \in Seq(S), NEW i \in Nat, i >= 1,
         i + PastHorizon + FutureHorizon - 1 <= Len(d),
         NEW c, c = Trajectory(Column(d, i))
  PROVE  /\ DOMAIN c = 1..(PastHorizon + FutureHorizon)
         /\ \A j \in 1..(PastHorizon + FutureHorizon) : c[j] = d[i + j - 1]
<1>1. PICK P \in Nat, F \in Nat : P = PastHorizon /\ F = FutureHorizon /\ P > 0 /\ F > 0
  BY AlignmentAssumption
<1>2. PICK s : s = SubSeq(d, i, i + P - 1)
  OBVIOUS
<1>3. PICK f : f = SubSeq(d, i + P, i + P + F - 1)
  OBVIOUS
<1>4. c = s \o f
  BY <1>1, <1>2, <1>3 DEF Trajectory, Column
<1>5. \A k \in 1..Len(d) : d[k] \in S
  BY ElementOfSeq
<1>6. /\ i \in Int /\ i + P - 1 \in Int /\ i + P \in Int /\ i + P + F - 1 \in Int
      /\ \A k \in i..(i + P - 1) : k \in 1..Len(d)
      /\ \A k \in (i + P)..(i + P + F - 1) : k \in 1..Len(d)
  BY <1>1, LenProperties
<1>7. /\ s \in Seq(S) /\ Len(s) = P /\ \A k \in 1..P : s[k] = d[i + k - 1]
  <2>1. /\ s \in Seq(S) /\ Len(s) = IF i <= i + P - 1 THEN (i + P - 1) - i + 1 ELSE 0
        /\ \A k \in 1..((i + P - 1) - i + 1) : s[k] = d[i + k - 1]
    BY <1>2, <1>5, <1>6, SubSeqProperties
  <2>2. i <= i + P - 1 /\ (i + P - 1) - i + 1 = P
    BY <1>1
  <2>. QED
    BY <2>1, <2>2
<1>8. /\ f \in Seq(S) /\ Len(f) = F /\ \A k \in 1..F : f[k] = d[(i + P) + k - 1]
  <2>1. /\ f \in Seq(S)
        /\ Len(f) = IF i + P <= i + P + F - 1 THEN (i + P + F - 1) - (i + P) + 1 ELSE 0
        /\ \A k \in 1..((i + P + F - 1) - (i + P) + 1) : f[k] = d[(i + P) + k - 1]
    BY <1>3, <1>5, <1>6, SubSeqProperties
  <2>2. i + P <= i + P + F - 1 /\ (i + P + F - 1) - (i + P) + 1 = F
    BY <1>1
  <2>. QED
    BY <2>1, <2>2
<1>9. /\ s \o f \in Seq(S) /\ Len(s \o f) = P + F
      /\ \A j \in 1..(P + F) : (s \o f)[j] = IF j <= P THEN s[j] ELSE f[j - P]
  BY <1>7, <1>8, ConcatProperties
<1>10. ASSUME NEW j \in 1..(P + F) PROVE c[j] = d[i + j - 1]
  <2>1. CASE j <= P
    <3>1. j \in 1..P
      BY <2>1
    <3>. QED
      BY <1>4, <1>7, <1>9, <2>1, <3>1
  <2>2. CASE ~(j <= P)
    <3>1. j - P \in 1..F /\ (i + P) + (j - P) - 1 = i + j - 1
      BY <1>1, <2>2
    <3>2. c[j] = f[j - P]
      BY <1>4, <1>9, <2>2
    <3>. QED
      BY <1>8, <3>1, <3>2
  <2>. QED
    BY <2>1, <2>2
<1>11. DOMAIN c = 1..(P + F)
  BY <1>4, <1>9, LenProperties
<1>. QED
  BY <1>1, <1>10, <1>11

-----------------------------------------------------------------------------
(* The events of an instant *)

LEMMA TwoEvents ==
  ASSUME NEW e, NEW f
  PROVE  <<e>> \o <<f>> = <<e, f>>
<1> DEFINE S == {e, f}
<1>1. <<e>> \in Seq(S) /\ <<f>> \in Seq(S) /\ <<e, f>> \in Seq(S)
  OBVIOUS
<1>2. /\ Len(<<e>>) = 1 /\ Len(<<f>>) = 1 /\ Len(<<e, f>>) = 2
      /\ <<e, f>>[1] = e /\ <<e, f>>[2] = f
  OBVIOUS
<1> HIDE DEF S
<1>3. /\ <<e>> \o <<f>> \in Seq(S) /\ Len(<<e>> \o <<f>>) = 2
      /\ (<<e>> \o <<f>>)[1] = e /\ (<<e>> \o <<f>>)[2] = f
  BY <1>1, <1>2, ConcatProperties
<1>4. \A i \in 1..2 : (<<e>> \o <<f>>)[i] = <<e, f>>[i]
  BY <1>2, <1>3
<1>. QED
  BY <1>1, <1>2, <1>3, <1>4, SeqEqual

LEMMA TrainingEventsFacts ==
  ASSUME NEW t
  PROVE  TrainingEvents(t) =
           IF t \in Scheduled
           THEN IF t \in Sampled THEN <<"input", "sample">> ELSE <<"input">>
           ELSE IF t \in Sampled THEN <<"sample">> ELSE <<>>
<1>1. /\ <<"input">> \o <<"sample">> = <<"input", "sample">>
      /\ <<"input">> \o <<>> = <<"input">> /\ <<>> \o <<"sample">> = <<"sample">>
      /\ <<>> \o <<>> = <<>>
  BY TwoEvents
<1>2. TrainingEvents(t) = (IF t \in Scheduled THEN <<"input">> ELSE <<>>)
                            \o (IF t \in Sampled THEN <<"sample">> ELSE <<>>)
  BY Zenon DEF TrainingEvents
<1>3. CASE t \in Scheduled /\ t \in Sampled
  BY <1>1, <1>2, <1>3
<1>4. CASE t \in Scheduled /\ t \notin Sampled
  BY <1>1, <1>2, <1>4
<1>5. CASE t \notin Scheduled /\ t \in Sampled
  BY <1>1, <1>2, <1>5
<1>6. CASE t \notin Scheduled /\ t \notin Sampled
  BY <1>1, <1>2, <1>6
<1>. QED
  BY <1>3, <1>4, <1>5, <1>6

LEMMA ControlEventsFacts ==
  ASSUME NEW t \in Nat
  PROVE  ControlEvents(t) =
           IF EvalStart < t /\ t < EvalEnd THEN <<"sample", "bridge">>
           ELSE IF t \in Sampled THEN <<"sample">> ELSE <<>>
<1>1. /\ <<"sample">> \o <<"bridge">> = <<"sample", "bridge">>
      /\ <<"sample">> \o <<>> = <<"sample">> /\ <<>> \o <<>> = <<>>
  BY TwoEvents
<1>2. EvalStart < t /\ t < EvalEnd => t \in Sampled
  BY AlignmentAssumption DEF Sampled
<1>3. ControlEvents(t) = (IF t \in Sampled THEN <<"sample">> ELSE <<>>)
                           \o (IF EvalStart < t /\ t < EvalEnd THEN <<"bridge">> ELSE <<>>)
  BY Zenon DEF ControlEvents
<1>4. CASE EvalStart < t /\ t < EvalEnd
  BY <1>1, <1>2, <1>3, <1>4
<1>5. CASE ~(EvalStart < t /\ t < EvalEnd) /\ t \in Sampled
  BY <1>1, <1>3, <1>5
<1>6. CASE ~(EvalStart < t /\ t < EvalEnd) /\ t \notin Sampled
  BY <1>1, <1>3, <1>6
<1>. QED
  BY <1>4, <1>5, <1>6

-----------------------------------------------------------------------------
(* Every action keeps the invariant. *)

LEMMA InitAlignInv == Init => AlignInv
<1> SUFFICES ASSUME Init PROVE AlignInv
  OBVIOUS
<1>1. /\ phase = "training" /\ schedule \in [Scheduled -> Powers]
      /\ agenda = TrainingEvents(0) /\ now = 0 /\ currentP = InitPower /\ uePower = InitPower
      /\ aired = <<>> /\ rows = <<>> /\ columns = <<>> /\ samples = <<>> /\ requests = <<>>
      /\ Training
  BY DEF Init, Training
<1>2. 0 \notin Sampled /\ 0 # SimEnd /\ SimEnd \in Nat /\ PastHorizon \in Nat
  BY AlignmentAssumption DEF Sampled
<1>3. agenda = IF 0 \in Scheduled THEN <<"input">> ELSE <<>>
  BY <1>1, <1>2, TrainingEventsFacts
<1>4. AirInv
  BY <1>1, <1>2, AlignmentAssumption DEF AirInv
<1>5. TrainingAgenda /\ ~SamplePending
  BY <1>1, <1>2, <1>3 DEF TrainingAgenda, SamplePending
<1>6. RowsInv
  BY <1>1, <1>2, <1>5 DEF RowsInv
<1>7. ColumnsInv
  BY <1>1 DEF ColumnsInv, ColumnsRespond
<1>8. ControlAgenda
  BY <1>1 DEF ControlAgenda
<1>9. SamplesInv
  BY <1>1, <1>2 DEF SamplesInv
<1>10. RequestsInv
  BY <1>1 DEF RequestsInv
<1>. QED
  BY <1>4, <1>5, <1>6, <1>7, <1>8, <1>9, <1>10 DEF AlignInv

(* Clean, and so the condition on the columns, depends on the rows only. *)
LEMMA SameRows ==
  ASSUME ColumnsInv, rows' = rows, columns' = columns, Training' => Training
  PROVE  ColumnsInv'
<1>1. Clean' = Clean
  BY DEF Clean
<1>2. ColumnsRespond'
  BY <1>1, Zenon DEF ColumnsInv, ColumnsRespond
<1>. QED
  BY <1>2, Zenon DEF ColumnsInv

LEMMA ApplyKeepsAlignInv == ASSUME AlignInv, ApplyInputsAtTime PROVE AlignInv'
<1>1. /\ phase = "training" /\ agenda # <<>> /\ Head(agenda) = "input"
      /\ currentP' = schedule[now] /\ uePower' = schedule[now] /\ agenda' = Tail(agenda)
      /\ phase' = phase /\ schedule' = schedule /\ now' = now /\ aired' = aired
      /\ rows' = rows /\ columns' = columns
      /\ latestSample' = latestSample /\ samples' = samples /\ requests' = requests
  BY DEF ApplyInputsAtTime, bridgeVars
<1>2. Training /\ Training' /\ now \in Nat
  BY <1>1 DEF Training, AlignInv, AirInv
<1>3. /\ agenda = <<"input">> \/ agenda = <<"input", "sample">>
      /\ now \in Scheduled
  BY <1>1, <1>2 DEF AlignInv, TrainingAgenda
<1>4. \/ agenda = <<"input">> /\ agenda' = <<>> /\ now \notin Sampled
      \/ agenda = <<"input", "sample">> /\ agenda' = <<"sample">> /\ now \in Sampled
  <2>1. /\ agenda = <<"input">> => now \notin Sampled
        /\ SamplePending => now \in Sampled
    BY <1>2 DEF AlignInv, TrainingAgenda
  <2>2. CASE agenda = <<"input">>
    BY <1>1, <2>1, <2>2
  <2>3. CASE agenda = <<"input", "sample">>
    <3>1. SamplePending /\ Tail(agenda) = <<"sample">>
      BY <2>3 DEF SamplePending
    <3>. QED
      BY <1>1, <2>1, <2>3, <3>1
  <2>. QED
    BY <1>3, <2>2, <2>3
<1>5. SamplePending' = SamplePending
  BY <1>4 DEF SamplePending
<1>6. AirInv'
  BY <1>1, <1>3 DEF AlignInv, AirInv
<1>7. TrainingAgenda'
  BY <1>1, <1>4 DEF TrainingAgenda, SamplePending
<1>8. RowsInv'
  <2>1. /\ Len(rows) = IF SamplePending \/ now = SimEnd THEN now - 1 ELSE now
        /\ \A i \in 1..Len(rows) :
             /\ rows[i].time = i /\ OutputsOf(rows[i], i, aired)
             /\ rows[i].p = IF i < now THEN aired[i + 1] ELSE uePower
    BY <1>2 DEF AlignInv, RowsInv
  <2>2. \A i \in 1..Len(rows) : i < now
    <3>1. CASE now \in Sampled
      <4>1. SamplePending
        BY <1>4, <3>1 DEF SamplePending
      <4>. QED
        BY <1>2, <2>1, <4>1
    <3>2. CASE now \notin Sampled
      <4>1. now = 0 \/ now = SimEnd
        BY <1>2, <3>2, AlignmentAssumption DEF AlignInv, AirInv, Sampled
      <4>. QED
        BY <1>2, <2>1, <4>1
    <3>. QED
      BY <3>1, <3>2
  <2>3. \A i \in 1..Len(rows) :
          rows[i].p = IF i < now THEN aired[i + 1] ELSE uePower'
    BY <2>1, <2>2
  <2>. QED
    BY <1>1, <1>5, <2>1, <2>3, Zenon DEF RowsInv
<1>9. ColumnsInv'
  BY <1>1, <1>2, SameRows DEF AlignInv
<1>10. ControlAgenda' /\ SamplesInv' /\ RequestsInv'
  BY <1>1, <1>2, Zenon DEF AlignInv, ControlAgenda, SamplesInv, RequestsInv
<1>. QED
  BY <1>6, <1>7, <1>8, <1>9, <1>10 DEF AlignInv

(* The row of this instant *)
LEMMA RowFacts ==
  ASSUME AirInv
  PROVE  /\ Row \in Rows /\ Row.time = now /\ Row.p = uePower /\ OutputsOf(Row, now, aired)
<1>1. /\ now \in Nat /\ aired \in Seq(Powers) /\ now = Len(aired) /\ uePower \in Powers
      /\ currentP = uePower
  BY DEF AirInv
<1>2. PICK y : y = Kpi
  OBVIOUS
<1>3. y = SubSeq(aired, Max({EvalStart, now - KpiWindow}) + 1, now)
  BY <1>2 DEF Kpi
<1>4. /\ y \in Seq(Powers)
      /\ EvalStart + KpiWindow <= now => y = [i \in 1..KpiWindow |-> aired[now - KpiWindow + i]]
  <2>1. PICK a : a = aired
    OBVIOUS
  <2>2. PICK t \in Nat : t = now
    BY <1>1
  <2>3. a \in Seq(Powers) /\ t = Len(a) /\ y = SubSeq(a, Max({EvalStart, t - KpiWindow}) + 1, t)
    BY <1>1, <1>3, <2>1, <2>2
  <2>4. /\ y \in Seq(Powers)
        /\ EvalStart + KpiWindow <= t => y = [i \in 1..KpiWindow |-> a[t - KpiWindow + i]]
    BY <2>3, KpiFacts
  <2>. QED
    BY <2>1, <2>2, <2>4
<1>5. Row = [time |-> now, p |-> currentP, y |-> y]
  BY <1>2 DEF Row
<1>6. Row \in Rows /\ Row.time = now /\ Row.p = uePower /\ Row.y = y
  BY <1>1, <1>4, <1>5 DEF Rows
<1>. QED
  BY <1>4, <1>6 DEF OutputsOf

LEMMA SampleKeepsAlignInv == ASSUME AlignInv, SampleAndWrite PROVE AlignInv'
<1>1. /\ phase = "training" /\ agenda # <<>> /\ Head(agenda) = "sample"
      /\ rows' = Append(rows, Row) /\ agenda' = Tail(agenda)
      /\ phase' = phase /\ schedule' = schedule /\ now' = now /\ aired' = aired
      /\ currentP' = currentP /\ uePower' = uePower /\ columns' = columns
      /\ latestSample' = latestSample /\ samples' = samples /\ requests' = requests
  BY DEF SampleAndWrite, bridgeVars
<1>2. Training /\ Training' /\ now \in Nat /\ rows \in Seq(Rows) /\ columns = <<>>
  BY <1>1 DEF Training, AlignInv, AirInv, ColumnsInv
<1>3. agenda = <<"sample">> /\ agenda' = <<>>
  <2>1. \/ agenda = <<>> \/ agenda = <<"input">> \/ agenda = <<"sample">>
        \/ agenda = <<"input", "sample">>
    BY <1>2 DEF AlignInv, TrainingAgenda
  <2>2. agenda = <<"sample">>
    BY <1>1, <2>1
  <2>. QED
    BY <1>1, <2>2
<1>4. SamplePending /\ ~SamplePending' /\ now \in Sampled /\ now # SimEnd
  <2>1. SamplePending /\ ~SamplePending'
    BY <1>3 DEF SamplePending
  <2>2. now \in Sampled
    BY <1>2, <2>1 DEF AlignInv, TrainingAgenda
  <2>. QED
    BY <2>1, <2>2, AlignmentAssumption DEF Sampled
<1>5. /\ Row \in Rows /\ Row.time = now /\ Row.p = uePower /\ OutputsOf(Row, now, aired)
  BY RowFacts DEF AlignInv
<1>6. /\ Len(rows) = now - 1
      /\ \A i \in 1..Len(rows) :
           /\ rows[i].time = i /\ OutputsOf(rows[i], i, aired)
           /\ rows[i].p = IF i < now THEN aired[i + 1] ELSE uePower
  <2>1. /\ Len(rows) = IF SamplePending \/ now = SimEnd THEN now - 1 ELSE now
        /\ \A i \in 1..Len(rows) :
             /\ rows[i].time = i /\ OutputsOf(rows[i], i, aired)
             /\ rows[i].p = IF i < now THEN aired[i + 1] ELSE uePower
    BY <1>2, Zenon DEF AlignInv, RowsInv
  <2>. QED
    BY <1>4, <2>1, Zenon
<1>7. /\ rows' \in Seq(Rows) /\ Len(rows') = now /\ rows'[now] = Row
      /\ \A i \in 1..Len(rows) : rows'[i] = rows[i]
      /\ \A i \in 1..now : i \in 1..Len(rows) \/ i = now
  <2>1. /\ rows' \in Seq(Rows) /\ Len(rows') = Len(rows) + 1 /\ rows'[Len(rows) + 1] = Row
        /\ \A i \in 1..Len(rows) : rows'[i] = rows[i]
    BY <1>1, <1>2, <1>5, AppendProperties
  <2>2. Len(rows) + 1 = now /\ \A i \in 1..now : i \in 1..Len(rows) \/ i = now
    BY <1>2, <1>6
  <2>. QED
    BY <2>1, <2>2
<1>8. AirInv'
  BY <1>1, Zenon DEF AlignInv, AirInv
<1>9. TrainingAgenda'
  BY <1>1, <1>3, <1>4 DEF TrainingAgenda
<1>10. RowsInv'
  <2>1. ~(now < now)
    BY <1>2
  <2>2. \A i \in 1..now :
          /\ rows'[i].time = i /\ OutputsOf(rows'[i], i, aired)
          /\ rows'[i].p = IF i < now THEN aired[i + 1] ELSE uePower
    BY <1>5, <1>6, <1>7, <2>1
  <2>3. Len(rows') = IF SamplePending' \/ now' = SimEnd THEN now' - 1 ELSE now'
    BY <1>1, <1>4, <1>7
  <2>4. \A i \in 1..Len(rows') :
          /\ rows'[i].time = i /\ OutputsOf(rows'[i], i, aired')
          /\ rows'[i].p = IF i < now' THEN aired'[i + 1] ELSE uePower'
    BY <1>1, <1>7, <2>2, Zenon
  <2>. QED
    BY <2>3, <2>4, Zenon DEF RowsInv
<1>11. ColumnsInv'
  BY <1>1, <1>2, <1>7 DEF ColumnsInv, ColumnsRespond
<1>12. ControlAgenda' /\ SamplesInv' /\ RequestsInv'
  BY <1>1, <1>2, Zenon DEF AlignInv, ControlAgenda, SamplesInv, RequestsInv
<1>. QED
  BY <1>8, <1>9, <1>10, <1>11, <1>12 DEF AlignInv

LEMMA StopTrainingKeepsAlignInv == ASSUME AlignInv, StopTraining PROVE AlignInv'
<1>1. /\ phase = "training" /\ agenda = <<>> /\ phase' = "build"
      /\ agenda' = agenda /\ schedule' = schedule /\ now' = now /\ aired' = aired
      /\ currentP' = currentP /\ uePower' = uePower /\ columns' = columns /\ rows' = rows
      /\ latestSample' = latestSample /\ samples' = samples /\ requests' = requests
  BY DEF StopTraining, bridgeVars, simVars
<1>2. Training /\ Training'
  BY <1>1 DEF Training
<1>3. SamplePending' = SamplePending
  BY <1>1 DEF SamplePending
<1>4. AirInv'
  BY <1>1 DEF AlignInv, AirInv
<1>5. TrainingAgenda'
  BY <1>1, <1>2, <1>3 DEF AlignInv, TrainingAgenda
<1>6. RowsInv'
  BY <1>1, <1>2, <1>3, Zenon DEF AlignInv, RowsInv
<1>7. ColumnsInv'
  BY <1>1, <1>2, SameRows DEF AlignInv
<1>8. ControlAgenda' /\ SamplesInv' /\ RequestsInv'
  BY <1>1, <1>2, Zenon DEF AlignInv, ControlAgenda, SamplesInv, RequestsInv
<1>. QED
  BY <1>4, <1>5, <1>6, <1>7, <1>8 DEF AlignInv

LEMMA StopControlKeepsAlignInv == ASSUME AlignInv, StopControl PROVE AlignInv'
<1>1. /\ phase = "control" /\ phase' = "done"
      /\ agenda' = agenda /\ schedule' = schedule /\ now' = now /\ aired' = aired
      /\ currentP' = currentP /\ uePower' = uePower /\ columns' = columns /\ rows' = rows
      /\ latestSample' = latestSample /\ samples' = samples /\ requests' = requests
  BY DEF StopControl, bridgeVars, simVars
<1>2. ~Training /\ ~Training'
  BY <1>1 DEF Training
<1>3. BridgePending' = BridgePending /\ LastStep' = LastStep
  BY <1>1 DEF BridgePending, LastStep
<1>4. AirInv'
  BY <1>1 DEF AlignInv, AirInv
<1>5. TrainingAgenda' /\ RowsInv'
  BY <1>2 DEF TrainingAgenda, RowsInv
<1>6. ColumnsInv'
  BY <1>1, <1>2, SameRows DEF AlignInv
<1>7. ControlAgenda'
  BY <1>1, <1>2, <1>3, Zenon DEF AlignInv, ControlAgenda
<1>8. SamplesInv' /\ RequestsInv'
  BY <1>1, <1>2, <1>3, Zenon DEF AlignInv, SamplesInv, RequestsInv
<1>. QED
  BY <1>4, <1>5, <1>6, <1>7, <1>8 DEF AlignInv

LEMMA AdvanceKeepsAlignInv == ASSUME AlignInv, Advance PROVE AlignInv'
<1>1. /\ phase \in {"training", "control"} /\ agenda = <<>> /\ now < SimEnd
      /\ now' = now + 1 /\ aired' = Append(aired, uePower)
      /\ agenda' = IF phase = "training" THEN TrainingEvents(now + 1)
                                         ELSE ControlEvents(now + 1)
      /\ phase' = phase /\ schedule' = schedule /\ currentP' = currentP
      /\ uePower' = uePower /\ columns' = columns /\ rows' = rows
      /\ latestSample' = latestSample /\ samples' = samples /\ requests' = requests
  BY DEF Advance, bridgeVars
<1>2. /\ now \in Nat /\ SimEnd \in Nat /\ EvalStart \in Nat /\ EvalEnd \in Nat
      /\ EvalStart < EvalEnd /\ EvalEnd <= SimEnd
      /\ aired \in Seq(Powers) /\ Len(aired) = now /\ uePower \in Powers
      /\ Training' = Training /\ now + 1 \in Nat /\ now + 1 > 0
      /\ ~SamplePending /\ ~BridgePending
  <2>1. /\ now \in Nat /\ aired \in Seq(Powers) /\ Len(aired) = now /\ uePower \in Powers
    BY DEF AlignInv, AirInv
  <2>2. Training' = Training /\ ~SamplePending /\ ~BridgePending
    BY <1>1 DEF Training, SamplePending, BridgePending
  <2>. QED
    BY <2>1, <2>2, AlignmentAssumption
<1>3. /\ aired' \in Seq(Powers) /\ Len(aired') = now + 1 /\ aired'[now + 1] = uePower
      /\ \A i \in 1..now : aired'[i] = aired[i]
      /\ \A t \in 1..now : \A r : OutputsOf(r, t, aired) => OutputsOf(r, t, aired')
      /\ \A t \in 1..now : \A r : SampleOf(r, t, aired) => SampleOf(r, t, aired')
  <2>1. PICK a : a = aired
    OBVIOUS
  <2>6. PICK e \in Powers : e = uePower
    BY <1>2
  <2>2. PICK b : b = Append(a, e)
    OBVIOUS
  <2>3. a \in Seq(Powers) /\ Len(a) = now
    BY <1>2, <2>1
  <2>4. /\ b \in Seq(Powers) /\ Len(b) = Len(a) + 1 /\ b[Len(a) + 1] = e
        /\ \A i \in 1..Len(a) : b[i] = a[i]
        /\ \A t \in 1..Len(a) : \A r : OutputsOf(r, t, a) => OutputsOf(r, t, b)
        /\ \A t \in 1..Len(a) : \A r : SampleOf(r, t, a) => SampleOf(r, t, b)
    <3>1. \A x \in Seq(Powers) : \A y \in Powers : \A z : z = Append(x, y) =>
            /\ z \in Seq(Powers) /\ Len(z) = Len(x) + 1 /\ z[Len(x) + 1] = y
            /\ \A i \in 1..Len(x) : z[i] = x[i]
            /\ \A t \in 1..Len(x) : \A r : OutputsOf(r, t, x) => OutputsOf(r, t, z)
            /\ \A t \in 1..Len(x) : \A r : SampleOf(r, t, x) => SampleOf(r, t, z)
      BY AirKept, Zenon
    <3>2. a \in Seq(Powers)
      BY <2>3
    <3>3. \A z : z = Append(a, e) =>
            /\ z \in Seq(Powers) /\ Len(z) = Len(a) + 1 /\ z[Len(a) + 1] = e
            /\ \A i \in 1..Len(a) : z[i] = a[i]
            /\ \A t \in 1..Len(a) : \A r : OutputsOf(r, t, a) => OutputsOf(r, t, z)
            /\ \A t \in 1..Len(a) : \A r : SampleOf(r, t, a) => SampleOf(r, t, z)
      BY <3>1, <3>2, Zenon
    <3>. QED
      BY <2>2, <3>3, Zenon
  <2>5. aired' = b
    BY <1>1, <2>1, <2>2, <2>6
  <2>. QED
    BY <2>1, <2>3, <2>4, <2>5, <2>6, Zenon
<1>4. AirInv'
  <2>1. now + 1 <= SimEnd
    BY <1>1, <1>2
  <2>. QED
    BY <1>1, <1>2, <1>3, <2>1, Zenon DEF AlignInv, AirInv
<1>5. TrainingAgenda'
  <2> SUFFICES ASSUME Training' PROVE TrainingAgenda'
    BY DEF TrainingAgenda
  <2>1. phase = "training"
    BY <1>1, <1>2 DEF Training
  <2>2. agenda' = IF now + 1 \in Scheduled
                  THEN IF now + 1 \in Sampled THEN <<"input", "sample">> ELSE <<"input">>
                  ELSE IF now + 1 \in Sampled THEN <<"sample">> ELSE <<>>
    BY <1>1, <2>1, TrainingEventsFacts
  <2>3. phase' # "build" /\ now' = now + 1
    BY <1>1, <2>1
  <2>. QED
    BY <2>2, <2>3 DEF TrainingAgenda, SamplePending
<1>6. RowsInv'
  <2> SUFFICES ASSUME Training' PROVE RowsInv'
    BY DEF RowsInv
  <2>1. phase = "training" /\ Training
    BY <1>1, <1>2 DEF Training
  <2>2. /\ Len(rows) = now
        /\ \A i \in 1..Len(rows) :
             /\ rows[i].time = i /\ OutputsOf(rows[i], i, aired)
             /\ rows[i].p = IF i < now THEN aired[i + 1] ELSE uePower
    <3>1. now # SimEnd
      BY <1>1, <1>2
    <3>2. /\ Len(rows) = IF SamplePending \/ now = SimEnd THEN now - 1 ELSE now
          /\ \A i \in 1..Len(rows) :
               /\ rows[i].time = i /\ OutputsOf(rows[i], i, aired)
               /\ rows[i].p = IF i < now THEN aired[i + 1] ELSE uePower
      BY <2>1, Zenon DEF AlignInv, RowsInv
    <3>. QED
      BY <1>2, <3>1, <3>2, Zenon
  <2>3. SamplePending' <=> now + 1 \in Sampled
    <3>1. agenda' = IF now + 1 \in Scheduled
                    THEN IF now + 1 \in Sampled THEN <<"input", "sample">> ELSE <<"input">>
                    ELSE IF now + 1 \in Sampled THEN <<"sample">> ELSE <<>>
      BY <1>1, <2>1, TrainingEventsFacts
    <3>. QED
      BY <3>1 DEF SamplePending
  <2>4. SamplePending' \/ now' = SimEnd
    BY <1>1, <1>2, <2>3 DEF Sampled
  <2>5. Len(rows') = now' - 1
    BY <1>1, <1>2, <2>2
  <2>6. ASSUME NEW i \in 1..Len(rows)
        PROVE  /\ rows[i].time = i /\ OutputsOf(rows[i], i, aired')
               /\ rows[i].p = aired'[i + 1] /\ i < now + 1
    <3>1. i \in 1..now /\ (i < now => i + 1 \in 1..now) /\ (~(i < now) => i = now)
          /\ i < now + 1
      BY <1>2, <2>2
    <3>2. rows[i].time = i /\ OutputsOf(rows[i], i, aired')
      BY <1>3, <2>2, <3>1, Zenon
    <3>3. CASE i < now
      BY <1>3, <2>2, <3>1, <3>2, <3>3
    <3>4. CASE ~(i < now)
      BY <1>3, <2>2, <3>1, <3>2, <3>4
    <3>. QED
      BY <3>3, <3>4
  <2>7. \A i \in 1..Len(rows') :
          /\ rows'[i].time = i /\ OutputsOf(rows'[i], i, aired')
          /\ rows'[i].p = IF i < now' THEN aired'[i + 1] ELSE uePower'
    BY <1>1, <2>6, Zenon
  <2>. QED
    BY <2>4, <2>5, <2>7, Zenon DEF RowsInv
<1>7. ColumnsInv'
  BY <1>1, <1>2, SameRows DEF AlignInv
<1>8. ~Training => /\ phase = "control"
                   /\ agenda' = IF EvalStart < now + 1 /\ now + 1 < EvalEnd
                                THEN <<"sample", "bridge">>
                                ELSE IF now + 1 \in Sampled THEN <<"sample">> ELSE <<>>
                   /\ BridgePending' <=> EvalStart < now + 1 /\ now + 1 < EvalEnd
  <2> SUFFICES ASSUME ~Training
               PROVE  /\ phase = "control"
                      /\ agenda' = IF EvalStart < now + 1 /\ now + 1 < EvalEnd
                                   THEN <<"sample", "bridge">>
                                   ELSE IF now + 1 \in Sampled THEN <<"sample">> ELSE <<>>
                      /\ BridgePending' <=> EvalStart < now + 1 /\ now + 1 < EvalEnd
    OBVIOUS
  <2>1. phase = "control"
    BY <1>1 DEF Training
  <2>2. agenda' = IF EvalStart < now + 1 /\ now + 1 < EvalEnd
                  THEN <<"sample", "bridge">>
                  ELSE IF now + 1 \in Sampled THEN <<"sample">> ELSE <<>>
    BY <1>1, <1>2, <2>1, ControlEventsFacts
  <2>. QED
    BY <2>1, <2>2 DEF BridgePending
<1>9. ControlAgenda'
  <2> SUFFICES ASSUME ~Training' PROVE ControlAgenda'
    BY DEF ControlAgenda
  <2>1. ~Training
    BY <1>2
  <2>2. uePower' = aired'[now'] /\ now' > 0
    BY <1>1, <1>2, <1>3
  <2>3. agenda' # <<"bridge">>
    BY <1>8, <2>1
  <2>4. agenda' \in {<<>>, <<"sample">>, <<"sample", "bridge">>, <<"bridge">>}
    BY <1>8, <2>1
  <2>5. BridgePending' => EvalStart < now' /\ now' < EvalEnd
    BY <1>1, <1>8, <2>1
  <2>6. agenda' = <<"sample">> => ~(EvalStart < now' /\ now' < EvalEnd)
    <3>1. <<"sample">> # <<"sample", "bridge">>
      OBVIOUS
    <3>. QED
      BY <1>1, <1>8, <2>1, <3>1, Zenon
  <2>. QED
    BY <2>2, <2>3, <2>4, <2>5, <2>6, Zenon DEF ControlAgenda
<1>10. SamplesInv'
  <2>1. samples \in Seq(Rows) /\ Len(samples) <= PastHorizon /\ Len(samples) \in Nat
    BY LenProperties DEF AlignInv, SamplesInv
  <2>2. ASSUME Training' \/ now' <= EvalStart PROVE samples = <<>>
    <3>1. Training \/ now <= EvalStart
      BY <1>1, <1>2, <2>2
    <3>. QED
      BY <3>1, Zenon DEF AlignInv, SamplesInv
  <2>3. ASSUME ~Training', now' > EvalStart
        PROVE  /\ EvalStart <= LastStep' - Len(samples)
               /\ \A j \in 1..Len(samples) :
                    SampleOf(samples[j], LastStep' - Len(samples) + j, aired')
    <3>1. LastStep' = IF now < EvalEnd THEN now ELSE EvalEnd - 1
      <4>1. BridgePending' <=> EvalStart < now + 1 /\ now + 1 < EvalEnd
        BY <1>2, <1>8, <2>3
      <4>2. LastStep' = IF BridgePending' THEN now' - 1
                        ELSE IF now' < EvalEnd THEN now' ELSE EvalEnd - 1
        BY DEF LastStep
      <4>. QED
        BY <1>1, <1>2, <2>3, <4>1, <4>2
    <3>2. CASE now <= EvalStart
      <4>1. samples = <<>>
        BY <3>2, Zenon DEF AlignInv, SamplesInv
      <4>2. now = EvalStart /\ Len(samples) = 0
        BY <1>1, <1>2, <2>3, <3>2, <4>1
      <4>. QED
        BY <1>2, <3>1, <4>2
    <3>3. CASE now > EvalStart
      <4>1. LastStep' = LastStep
        BY <1>2, <3>1 DEF LastStep
      <4>2. /\ EvalStart <= LastStep - Len(samples)
            /\ \A j \in 1..Len(samples) :
                 SampleOf(samples[j], LastStep - Len(samples) + j, aired)
        BY <1>2, <2>3, <3>3, Zenon DEF AlignInv, SamplesInv
      <4>3. PICK l \in Nat : l = LastStep /\ l <= now
        BY <1>2, <3>1, <4>1
      <4>4. ASSUME NEW j \in 1..Len(samples)
            PROVE  SampleOf(samples[j], l - Len(samples) + j, aired')
        <5>1. l - Len(samples) + j \in 1..now
          BY <1>2, <2>1, <4>2, <4>3
        <5>2. SampleOf(samples[j], l - Len(samples) + j, aired)
          BY <4>2, <4>3
        <5>. QED
          BY <1>3, <5>1, <5>2, Zenon
      <4>. QED
        BY <4>1, <4>2, <4>3, <4>4, Zenon
    <3>. QED
      BY <1>2, <3>2, <3>3
  <2>. QED
    BY <1>1, <2>1, <2>2, <2>3, Zenon DEF SamplesInv
<1>11. RequestsInv'
  BY <1>1, Zenon DEF AlignInv, RequestsInv
<1>. QED
  BY <1>4, <1>5, <1>6, <1>7, <1>9, <1>10, <1>11 DEF AlignInv

LEMMA ControlSampleKeepsAlignInv == ASSUME AlignInv, ControlSample PROVE AlignInv'
<1>1. /\ phase = "control" /\ agenda # <<>> /\ Head(agenda) = "sample"
      /\ latestSample' = Row /\ agenda' = Tail(agenda)
      /\ phase' = phase /\ schedule' = schedule /\ now' = now /\ aired' = aired
      /\ currentP' = currentP /\ uePower' = uePower /\ columns' = columns /\ rows' = rows
      /\ samples' = samples /\ requests' = requests
  BY DEF ControlSample
<1>2. ~Training /\ ~Training'
  BY <1>1 DEF Training
<1>3. \/ agenda = <<"sample">> /\ agenda' = <<>>
      \/ agenda = <<"sample", "bridge">> /\ agenda' = <<"bridge">>
  <2>1. \/ agenda = <<>> \/ agenda = <<"sample">> \/ agenda = <<"sample", "bridge">>
        \/ agenda = <<"bridge">>
    BY <1>2 DEF AlignInv, ControlAgenda
  <2>2. agenda = <<"sample">> \/ agenda = <<"sample", "bridge">>
    BY <1>1, <2>1
  <2>3. Tail(<<"sample">>) = <<>> /\ Tail(<<"sample", "bridge">>) = <<"bridge">>
    OBVIOUS
  <2>. QED
    BY <1>1, <2>2, <2>3, Zenon
<1>4. BridgePending' = BridgePending
  BY <1>3 DEF BridgePending
<1>5. LastStep' = LastStep
  BY <1>1, <1>4 DEF LastStep
<1>6. uePower = aired[now]
  BY <1>2, <1>3 DEF AlignInv, ControlAgenda
<1>7. SampleOf(Row, now, aired)
  <2>1. Row \in Rows /\ Row.time = now /\ Row.p = uePower /\ OutputsOf(Row, now, aired)
    BY RowFacts DEF AlignInv
  <2>. QED
    BY <1>6, <2>1 DEF SampleOf
<1>8. AirInv'
  BY <1>1, Zenon DEF AlignInv, AirInv
<1>9. TrainingAgenda' /\ RowsInv'
  BY <1>2 DEF TrainingAgenda, RowsInv
<1>10. ColumnsInv'
  BY <1>1, <1>2, SameRows DEF AlignInv
<1>11. ControlAgenda'
  <2>1. BridgePending => EvalStart < now /\ now < EvalEnd
    BY <1>2 DEF AlignInv, ControlAgenda
  <2>2. /\ agenda' \in {<<>>, <<"sample">>, <<"sample", "bridge">>, <<"bridge">>}
        /\ agenda' \notin {<<"sample">>, <<"sample", "bridge">>} /\ agenda' # <<"sample">>
    BY <1>3
  <2>. QED
    BY <1>1, <1>4, <1>7, <2>1, <2>2, Zenon DEF ControlAgenda
<1>12. SamplesInv' /\ RequestsInv'
  BY <1>1, <1>2, <1>5, Zenon DEF AlignInv, SamplesInv, RequestsInv
<1>. QED
  BY <1>8, <1>9, <1>10, <1>11, <1>12 DEF AlignInv

(* PushSample: the history stays a run of consecutive samples. *)
LEMMA PushFacts ==
  ASSUME NEW a, NEW t \in Nat, NEW ss \in Seq(Rows), NEW r, SampleOf(r, t, a),
         NEW L \in Nat, L = Len(ss), L <= PastHorizon, EvalStart <= t - 1 - L,
         \A j \in 1..L : SampleOf(ss[j], t - 1 - L + j, a),
         NEW x, x = IF L < PastHorizon THEN Append(ss, r) ELSE Tail(Append(ss, r))
  PROVE  /\ x \in Seq(Rows) /\ Len(x) \in Nat /\ Len(x) <= PastHorizon
         /\ EvalStart <= t - Len(x)
         /\ \A j \in 1..Len(x) : SampleOf(x[j], t - Len(x) + j, a)
<1>0. PastHorizon \in Nat /\ PastHorizon > 0 /\ EvalStart \in Nat
  BY AlignmentAssumption
<1>1. PICK z : z = Append(ss, r)
  OBVIOUS
<1>2. r \in Rows
  BY DEF SampleOf
<1>3. /\ z \in Seq(Rows) /\ Len(z) = L + 1 /\ z[L + 1] = r
      /\ \A j \in 1..L : z[j] = ss[j]
  BY <1>1, <1>2, AppendProperties
<1>4. ASSUME NEW j \in 1..(L + 1) PROVE SampleOf(z[j], t - 1 - L + j, a)
  <2>1. CASE j = L + 1
    <3>1. t - 1 - L + j = t
      BY <2>1
    <3>. QED
      BY <1>3, <2>1, <3>1
  <2>2. CASE j # L + 1
    <3>1. j \in 1..L
      BY <2>2
    <3>. QED
      BY <1>3, <3>1
  <2>. QED
    BY <2>1, <2>2
<1>5. CASE L < PastHorizon
  <2>1. x = z
    BY <1>1, <1>5
  <2>2. L + 1 \in Nat /\ L + 1 <= PastHorizon /\ EvalStart <= t - (L + 1)
        /\ \A j \in 1..(L + 1) : t - (L + 1) + j = t - 1 - L + j
    BY <1>0, <1>5
  <2>3. \A j \in 1..(L + 1) : SampleOf(z[j], t - (L + 1) + j, a)
    BY <1>4, <2>2
  <2>. QED
    BY <1>3, <2>1, <2>2, <2>3
<1>6. CASE ~(L < PastHorizon)
  <2>1. x = Tail(z) /\ L = PastHorizon /\ z # <<>>
    BY <1>0, <1>1, <1>3, <1>6, SMTT(40)
  <2>2. x \in Seq(Rows) /\ Len(x) = L /\ \A j \in 1..L : x[j] = z[j + 1]
    <3>1. /\ Tail(z) \in Seq(Rows) /\ Len(Tail(z)) = Len(z) - 1
          /\ \A j \in 1..Len(Tail(z)) : Tail(z)[j] = z[j + 1]
      BY <1>3, <2>1, HeadTailProperties
    <3>2. Len(z) - 1 = L
      BY <1>3
    <3>. QED
      BY <2>1, <3>1, <3>2
  <2>3. ASSUME NEW j \in 1..L PROVE SampleOf(x[j], t - L + j, a)
    <3>1. j + 1 \in 1..(L + 1) /\ t - 1 - L + (j + 1) = t - L + j
      OBVIOUS
    <3>2. SampleOf(z[j + 1], t - 1 - L + (j + 1), a)
      BY <1>4, <3>1
    <3>. QED
      BY <2>2, <3>1, <3>2
  <2>4. EvalStart <= t - L
    BY <1>0
  <2>. QED
    BY <2>1, <2>2, <2>3, <2>4
<1>. QED
  BY <1>5, <1>6

LEMMA BridgeKeepsAlignInv == ASSUME AlignInv, BridgeStep PROVE AlignInv'
<1>1. /\ phase = "control" /\ agenda # <<>> /\ Head(agenda) = "bridge" /\ agenda' = Tail(agenda)
      /\ phase' = phase /\ schedule' = schedule /\ now' = now /\ aired' = aired
      /\ columns' = columns /\ rows' = rows /\ latestSample' = latestSample
      /\ samples' = IF Len(samples) < PastHorizon THEN Append(samples, latestSample)
                    ELSE Tail(Append(samples, latestSample))
  BY DEF BridgeStep, PushSample
<1>2. /\ \/ /\ Len(samples') = PastHorizon /\ requests' = Append(requests, samples')
            /\ currentP' \in Powers /\ uePower' = currentP'
         \/ requests' = requests /\ currentP' = currentP /\ uePower' = uePower
  BY DEF BridgeStep
<1>3. ~Training /\ ~Training' /\ now \in Nat /\ AirInv
  BY <1>1 DEF Training, AlignInv, AirInv
<1>4. agenda = <<"bridge">> /\ agenda' = <<>>
  <2>1. \/ agenda = <<>> \/ agenda = <<"sample">> \/ agenda = <<"sample", "bridge">>
        \/ agenda = <<"bridge">>
    BY <1>3 DEF AlignInv, ControlAgenda
  <2>2. agenda = <<"bridge">>
    BY <1>1, <2>1
  <2>. QED
    BY <1>1, <2>2
<1>5. /\ BridgePending /\ ~BridgePending' /\ EvalStart < now /\ now < EvalEnd
      /\ SampleOf(latestSample, now, aired)
  <2>1. BridgePending /\ ~BridgePending'
    BY <1>4 DEF BridgePending
  <2>. QED
    BY <1>3, <1>4, <2>1 DEF AlignInv, ControlAgenda
<1>6. LastStep = now - 1 /\ LastStep' = now
  <2>1. now' < EvalEnd
    BY <1>1, <1>5
  <2>. QED
    BY <1>1, <1>5, <2>1 DEF LastStep
<1>7. /\ samples' \in Seq(Rows) /\ Len(samples') \in Nat /\ Len(samples') <= PastHorizon
      /\ EvalStart <= now - Len(samples')
      /\ \A j \in 1..Len(samples') : SampleOf(samples'[j], now - Len(samples') + j, aired)
  <2>1. /\ samples \in Seq(Rows) /\ Len(samples) <= PastHorizon
        /\ EvalStart <= LastStep - Len(samples)
        /\ \A j \in 1..Len(samples) : SampleOf(samples[j], LastStep - Len(samples) + j, aired)
    <3>1. now > EvalStart
      BY <1>3, <1>5, AlignmentAssumption
    <3>. QED
      BY <1>3, <3>1, Zenon DEF AlignInv, SamplesInv
  <2>2. PICK a : a = aired
    OBVIOUS
  <2>3. PICK r : r = latestSample
    OBVIOUS
  <2>4. PICK ss \in Seq(Rows) : ss = samples
    BY <2>1
  <2>5. PICK t \in Nat : t = now
    BY <1>3
  <2>6. PICK L \in Nat : L = Len(ss)
    BY LenProperties
  <2>7. PICK x : x = samples'
    OBVIOUS
  <2>8. /\ SampleOf(r, t, a) /\ L <= PastHorizon /\ EvalStart <= t - 1 - L
        /\ \A j \in 1..L : SampleOf(ss[j], t - 1 - L + j, a)
        /\ x = IF L < PastHorizon THEN Append(ss, r) ELSE Tail(Append(ss, r))
    BY <1>1, <1>5, <1>6, <2>1, <2>2, <2>3, <2>4, <2>5, <2>6, <2>7
  <2>9. /\ x \in Seq(Rows) /\ Len(x) \in Nat /\ Len(x) <= PastHorizon
        /\ EvalStart <= t - Len(x)
        /\ \A j \in 1..Len(x) : SampleOf(x[j], t - Len(x) + j, a)
    BY <2>6, <2>8, PushFacts
  <2>. QED
    BY <2>2, <2>5, <2>7, <2>9, Zenon
<1>8. AirInv'
  BY <1>1, <1>2, <1>3 DEF AirInv
<1>9. TrainingAgenda' /\ RowsInv'
  BY <1>3 DEF TrainingAgenda, RowsInv
<1>10. ColumnsInv'
  BY <1>1, <1>3, SameRows DEF AlignInv
<1>11. ControlAgenda'
  BY <1>4, <1>5 DEF ControlAgenda
<1>12. SamplesInv'
  <2>1. ~(now' <= EvalStart)
    BY <1>1, <1>3, <1>5, AlignmentAssumption
  <2>. QED
    BY <1>1, <1>3, <1>6, <1>7, <2>1, Zenon DEF SamplesInv
<1>13. RequestsInv'
  <2>1. /\ requests \in Seq(Seq(Rows))
        /\ \A i \in 1..Len(requests) :
             Len(requests[i]) = PastHorizon /\ Responds(requests[i], 0)
    BY DEF AlignInv, RequestsInv
  <2>2. CASE requests' = requests
    BY <2>1, <2>2, Zenon DEF RequestsInv
  <2>3. CASE Len(samples') = PastHorizon /\ requests' = Append(requests, samples')
    <3>1. PICK x : x = samples'
      OBVIOUS
    <3>2. Responds(x, 0)
      <4>1. PICK a : a = aired
        OBVIOUS
      <4>2. PICK q \in Nat : q = now - Len(x) /\ q >= EvalStart
        <5>1. Len(x) \in Nat /\ EvalStart <= now - Len(x) /\ EvalStart \in Nat
          BY <1>7, <3>1, AlignmentAssumption
        <5>2. now - Len(x) \in Nat /\ now - Len(x) >= EvalStart
          BY <1>3, <5>1
        <5>. QED
          BY <5>2
      <4>3. PICK L \in Nat : L = Len(x) /\ DOMAIN x = 1..L
        BY <1>7, <3>1, LenProperties
      <4>4. \A j \in 1..L : SampleOf(x[j], q + j, a)
        BY <1>7, <3>1, <4>1, <4>2, <4>3
      <4>. QED
        BY <4>2, <4>3, <4>4, SamplesRespond
    <3>3. x \in Seq(Rows) /\ Len(x) = PastHorizon /\ requests' = Append(requests, x)
      BY <1>7, <2>3, <3>1
    <3>4. /\ requests' \in Seq(Seq(Rows)) /\ Len(requests') = Len(requests) + 1
          /\ requests'[Len(requests) + 1] = x
          /\ \A i \in 1..Len(requests) : requests'[i] = requests[i]
          /\ Len(requests) \in Nat
      BY <2>1, <3>3, AppendProperties, LenProperties
    <3>5. \A i \in 1..Len(requests') : i \in 1..Len(requests) \/ i = Len(requests) + 1
      BY <3>4
    <3>. QED
      BY <2>1, <3>2, <3>3, <3>4, <3>5, Zenon DEF RequestsInv
  <2>. QED
    BY <1>2, <2>2, <2>3
<1>. QED
  BY <1>8, <1>9, <1>10, <1>11, <1>12, <1>13 DEF AlignInv

(* The columns that build_hankel_dataset.py cuts from the training rows *)
LEMMA BuildKeepsAlignInv == ASSUME AlignInv, BuildHankel PROVE AlignInv'
<1>1. /\ phase = "build" /\ phase' = "control" /\ now' = 0 /\ agenda' = ControlEvents(0)
      /\ currentP' = InitPower /\ uePower' = InitPower /\ aired' = <<>>
      /\ columns' = [i \in 1..Windows |-> Column(Train, i)]
      /\ schedule' = schedule /\ rows' = rows
      /\ latestSample' = latestSample /\ samples' = samples /\ requests' = requests
      /\ TrainEnd(Len(Clean)) > 0 /\ ValEnd(Len(Clean)) > TrainEnd(Len(Clean))
      /\ ValEnd(Len(Clean)) < Len(Clean) /\ Windows > 0
  BY DEF BuildHankel, bridgeVars
<1>2. Training /\ ~Training' /\ rows \in Seq(Rows)
  BY <1>1 DEF Training, AlignInv, ColumnsInv
<1>3. /\ samples = <<>> /\ EvalStart \in Nat /\ SimEnd \in Nat /\ PastHorizon \in Nat
      /\ FutureHorizon \in Nat
  BY <1>2, AlignmentAssumption DEF AlignInv, SamplesInv
<1>4. agenda' = <<>>
  <2>1. 0 \notin Sampled /\ ~(EvalStart < 0)
    BY <1>3 DEF Sampled
  <2>. QED
    BY <1>1, <2>1, ControlEventsFacts
<1>5. AirInv'
  BY <1>1, <1>3, AlignmentAssumption DEF AlignInv, AirInv
<1>6. TrainingAgenda' /\ RowsInv'
  BY <1>2 DEF TrainingAgenda, RowsInv
<1>7. ControlAgenda'
  BY <1>4 DEF ControlAgenda, BridgePending
<1>8. SamplesInv'
  <2>1. 0 <= EvalStart /\ ~(0 > EvalStart) /\ Len(<<>>) <= PastHorizon
    BY <1>3
  <2>. QED
    BY <1>1, <1>3, <2>1 DEF SamplesInv
<1>9. RequestsInv'
  BY <1>1, Zenon DEF AlignInv, RequestsInv
<1>10. ColumnsInv'
  <2>1. PICK N \in Nat : N = Len(rows)
    BY <1>2, LenProperties
  <2>2. \A i \in 1..N : /\ rows[i].time = i /\ OutputsOf(rows[i], i, aired)
                        /\ i < N => rows[i].p = aired[i + 1]
    <3>1. /\ Len(rows) = IF SamplePending \/ now = SimEnd THEN now - 1 ELSE now
          /\ \A i \in 1..Len(rows) :
               /\ rows[i].time = i /\ OutputsOf(rows[i], i, aired)
               /\ rows[i].p = IF i < now THEN aired[i + 1] ELSE uePower
      BY <1>2, Zenon DEF AlignInv, RowsInv
    <3>2. now \in Nat
      BY DEF AlignInv, AirInv
    <3>3. \A i \in 1..N : i < N => i < now
      BY <2>1, <3>1, <3>2
    <3>. QED
      BY <2>1, <3>1, <3>3
  <2>3. PICK b \in Nat, n \in Nat :
          /\ Clean \in Seq(Rows) /\ Len(Clean) = n /\ b + n <= N
          /\ n > 0 => b + 1 >= EvalStart
          /\ \A k \in 1..n : Clean[k] = rows[b + k]
    BY <1>2, <2>1, <2>2, CleanFacts
  <2>4. PICK e \in Nat : e = TrainEnd(n) /\ 0 < e /\ e < n
    BY <1>1, <2>3 DEF TrainEnd, ValEnd
  <2>5. PICK d : d = Train
    OBVIOUS
  <2>6. d \in Seq(Rows) /\ Len(d) = e /\ \A k \in 1..e : d[k] = rows[b + k]
    <3>1. d = SubSeq(Clean, 1, e)
      BY <2>3, <2>4, <2>5 DEF Train
    <3>2. \A k \in 1..e : Clean[k] \in Rows
      BY <2>3, <2>4, ElementOfSeq
    <3>3. /\ SubSeq(Clean, 1, e) \in Seq(Rows)
          /\ Len(SubSeq(Clean, 1, e)) = IF 1 <= e THEN e - 1 + 1 ELSE 0
          /\ \A k \in 1..(e - 1 + 1) : SubSeq(Clean, 1, e)[k] = Clean[1 + k - 1]
      BY <3>2, SubSeqProperties
    <3>4. 1 <= e /\ e - 1 + 1 = e /\ \A k \in 1..e : 1 + k - 1 = k /\ k \in 1..n
      BY <2>4
    <3>. QED
      BY <2>3, <3>1, <3>3, <3>4
  <2>7. PICK h \in Nat : h = PastHorizon + FutureHorizon
    BY <1>3
  <2>8. Windows = e - h + 1
    BY <2>5, <2>6, <2>7 DEF Windows
  <2>9. ASSUME NEW i \in 1..Windows, NEW c, c = Trajectory(columns'[i])
        PROVE  /\ DOMAIN c = 1..h /\ \A j \in 1..h : c[j] = rows[(b + i - 1) + j]
               /\ i - 1 + h <= e /\ i \in Nat /\ i >= 1
    <3>1. i \in Nat /\ i >= 1 /\ i - 1 + h <= e
      BY <2>7, <2>8
    <3>2. columns'[i] = Column(d, i)
      BY <1>1, <2>5
    <3>3. c = Trajectory(Column(d, i))
      BY <2>9, <3>2
    <3>4. i + PastHorizon + FutureHorizon - 1 <= Len(d)
      BY <1>3, <2>6, <2>7, <3>1
    <3>5. DOMAIN c = 1..h /\ \A j \in 1..h : c[j] = d[i + j - 1]
      <4>1. d \in Seq(Rows)
        BY <2>6
      <4>2. /\ DOMAIN c = 1..(PastHorizon + FutureHorizon)
            /\ \A j \in 1..(PastHorizon + FutureHorizon) : c[j] = d[i + j - 1]
        <5>1. \A z : z = Trajectory(Column(d, i)) =>
                /\ DOMAIN z = 1..(PastHorizon + FutureHorizon)
                /\ \A j \in 1..(PastHorizon + FutureHorizon) : z[j] = d[i + j - 1]
          BY <3>1, <3>4, <4>1, ColumnFacts, Zenon
        <5>. QED
          BY <3>3, <5>1, Zenon
      <4>. QED
        BY <2>7, <4>2
    <3>6. \A j \in 1..h : i + j - 1 \in 1..e /\ b + (i + j - 1) = (b + i - 1) + j
      BY <3>1
    <3>. QED
      BY <2>6, <3>1, <3>5, <3>6
  <2>10. Clean' = Clean
    BY <1>1 DEF Clean
  <2>11. ASSUME NEW i \in 1..Windows, NEW c, c = Trajectory(columns'[i])
         PROVE  /\ Responds(c, 1)
                /\ \A j \in DOMAIN c, k \in DOMAIN Clean :
                     k > TrainEnd(Len(Clean)) => c[j].time < Clean[k].time
    <3>1. /\ DOMAIN c = 1..h /\ \A j \in 1..h : c[j] = rows[(b + i - 1) + j]
          /\ i - 1 + h <= e /\ i \in Nat /\ i >= 1
      BY <2>9, <2>11
    <3>2. PICK q \in Nat : q = b + i - 1
      BY <3>1
    <3>3. q + 1 >= EvalStart /\ q + h <= N /\ q + h <= b + e
      BY <1>3, <2>3, <2>4, <3>1, <3>2
    <3>4. Responds(c, 1)
      <4>1. PICK a, rs : a = aired /\ rs = rows
        OBVIOUS
      <4>2. /\ \A k \in 1..N : OutputsOf(rs[k], k, a) /\ (k < N => rs[k].p = a[k + 1])
            /\ \A j \in 1..h : c[j] = rs[q + j]
        BY <2>2, <3>1, <3>2, <4>1
      <4>3. DOMAIN c = 1..h
        BY <3>1
      <4>4. RowsReport(rs, N, a) /\ SliceOf(c, rs, q, h)
        BY <4>2, <4>3 DEF RowsReport, SliceOf
      <4>5. EvalStart <= q + 1
        BY <1>3, <3>3
      <4>. QED
        BY <3>3, <4>4, <4>5, RowsRespond
    <3>5. ASSUME NEW j \in DOMAIN c, NEW k \in DOMAIN Clean, k > TrainEnd(Len(Clean))
          PROVE  c[j].time < Clean[k].time
      <4>1. j \in 1..h /\ k \in 1..n /\ k > e
        BY <2>3, <2>4, <3>1, <3>5, LenProperties
      <4>2. q + j \in 1..N /\ b + k \in 1..N /\ q + j < b + k
        BY <2>3, <3>3, <4>1
      <4>3. c[j].time = q + j
        BY <2>2, <3>1, <3>2, <4>1, <4>2
      <4>4. Clean[k].time = b + k
        BY <2>2, <2>3, <4>1, <4>2
      <4>. QED
        BY <4>2, <4>3, <4>4
    <3>. QED
      BY <3>4, <3>5
  <2>12. DOMAIN columns' = 1..Windows
    BY <1>1
  <2>13. ColumnsRespond'
    BY <2>10, <2>11, <2>12, Zenon DEF ColumnsRespond
  <2>. QED
    BY <1>1, <1>2, <2>13 DEF ColumnsInv
<1>. QED
  BY <1>5, <1>6, <1>7, <1>8, <1>9, <1>10 DEF AlignInv

-----------------------------------------------------------------------------
(* Theorems *)

(* Rows, columns and histories stay tied to the powers that were on the    *)
(* air, from the first scheduled input of the training run to the end of   *)
(* the closed loop.                                                        *)
THEOREM AlignmentInvariant == Spec => []AlignInv
<1>1. AlignInv /\ [Next]_vars => AlignInv'
  <2> SUFFICES ASSUME AlignInv, [Next]_vars PROVE AlignInv'
    OBVIOUS
  <2>1. CASE Advance
    BY <2>1, AdvanceKeepsAlignInv
  <2>2. CASE ApplyInputsAtTime
    BY <2>2, ApplyKeepsAlignInv
  <2>3. CASE SampleAndWrite
    BY <2>3, SampleKeepsAlignInv
  <2>4. CASE StopTraining
    BY <2>4, StopTrainingKeepsAlignInv
  <2>5. CASE BuildHankel
    BY <2>5, BuildKeepsAlignInv
  <2>6. CASE ControlSample
    BY <2>6, ControlSampleKeepsAlignInv
  <2>7. CASE BridgeStep
    BY <2>7, BridgeKeepsAlignInv
  <2>8. CASE StopControl
    BY <2>8, StopControlKeepsAlignInv
  <2>9. CASE UNCHANGED vars
    <3>1. /\ phase' = phase /\ agenda' = agenda /\ schedule' = schedule /\ now' = now
          /\ aired' = aired /\ currentP' = currentP /\ uePower' = uePower
          /\ columns' = columns /\ rows' = rows
          /\ latestSample' = latestSample /\ samples' = samples /\ requests' = requests
      BY <2>9 DEF vars, simVars, bridgeVars
    <3>2. /\ Training' = Training /\ SamplePending' = SamplePending
          /\ BridgePending' = BridgePending /\ LastStep' = LastStep
      BY <3>1 DEF Training, SamplePending, BridgePending, LastStep
    <3>3. AirInv' /\ TrainingAgenda' /\ RowsInv'
      BY <3>1, <3>2, Zenon DEF AlignInv, AirInv, TrainingAgenda, RowsInv
    <3>4. ColumnsInv'
      BY <3>1, <3>2, SameRows DEF AlignInv
    <3>5. ControlAgenda' /\ SamplesInv' /\ RequestsInv'
      BY <3>1, <3>2, Zenon DEF AlignInv, ControlAgenda, SamplesInv, RequestsInv
    <3>. QED
      BY <3>3, <3>4, <3>5 DEF AlignInv
  <2>. QED
    BY <2>1, <2>2, <2>3, <2>4, <2>5, <2>6, <2>7, <2>8, <2>9 DEF Next
<1>. QED
  BY <1>1, InitAlignInv, PTL DEF Spec

(* The input of a training row is the power on the air after its sample,   *)
(* whatever the update period: ApplyInputsAtTime runs before the sample of *)
(* the same instant.                                                       *)
THEOREM AlignmentRowInputFollows == Spec => []RowInputFollows
<1>1. AlignInv => RowInputFollows
  <2> SUFFICES ASSUME AlignInv, phase = "training", NEW i \in DOMAIN rows
               PROVE  rows[i].time = i /\ (i < Len(aired) => rows[i].p = aired[i + 1])
    BY DEF RowInputFollows
  <2>1. Training /\ Len(aired) = now
    BY DEF Training, AlignInv, AirInv
  <2>2. i \in 1..Len(rows)
    BY LenProperties DEF AlignInv, ColumnsInv
  <2>. QED
    BY <2>1, <2>2 DEF AlignInv, RowsInv
<1>. QED
  BY <1>1, AlignmentInvariant, PTL

(* Every Hankel column, for any horizons and split sizes, is a piece of    *)
(* one causal trajectory, and no column holds a row that was kept for      *)
(* validation or test.                                                     *)
THEOREM AlignmentColumnsRespond == Spec => []ColumnsRespond
<1>1. AlignInv => ColumnsRespond
  BY DEF AlignInv, ColumnsInv
<1>. QED
  BY <1>1, AlignmentInvariant, PTL

(* Every history that the closed loop sends is full and relates its own    *)
(* inputs and outputs without a lag.                                       *)
THEOREM AlignmentHistoriesRespond == Spec => []HistoriesRespond
<1>1. AlignInv => HistoriesRespond
  <2>1. AlignInv => DOMAIN requests = 1..Len(requests)
    BY LenProperties DEF AlignInv, RequestsInv
  <2>. QED
    BY <2>1, Zenon DEF AlignInv, RequestsInv, HistoriesRespond
<1>. QED
  BY <1>1, AlignmentInvariant, PTL

=============================================================================
