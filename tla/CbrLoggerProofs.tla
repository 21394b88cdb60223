--------------------------- MODULE CbrLoggerProofs --------------------------
(***************************************************************************)
(* Proofs about CbrLogger for every set of UEs, window, sampling step,     *)
(* evaluation period and longest occupation.                               *)
(*                                                                         *)
(* The deques are ordered by start, since an interval is recorded when it  *)
(* starts: what a fresh interval at the front shields has started later.   *)
(* The front was fresh at the last sampler instant, which is at most one   *)
(* step ago.  Between the two samplers of an instant only the PHYs act,    *)
(* and an interval that starts now has no part in the window that ends     *)
(* now.                                                                    *)
(*                                                                         *)
(* The busy time is a fold over a sequence and the ratio a sum over a set: *)
(* what they compute is shown by induction, on how many intervals the loop *)
(* has merged and on how many UEs have been added.                         *)
(***************************************************************************)
EXTENDS CbrLogger, SequenceTheorems, FiniteSetTheorems, WellFoundedInduction, TLAPS

Interval == [start : Nat, end : Nat]

OrderedStarts(d) == \A i, j \in 1..Len(d) : i <= j => d[i].start <= d[j].start

Deque(d, t) ==
  /\ d \in Seq(Interval) /\ OrderedStarts(d)
  /\ \A i \in 1..Len(d) : /\ d[i].start <= t /\ d[i].start < d[i].end
                          /\ d[i].end <= d[i].start + MaxDuration

DequeInv ==
  /\ now \in Nat /\ counted \subseteq Nodes
  /\ busyIntervals = [n \in Nodes |-> busyIntervals[n]]
  /\ \A n \in Nodes : Deque(busyIntervals[n], now)

(* The agendas on which the CBR sampler, or only the KPI logger, waits *)
CbrPending == agenda \in {<<"cbr", "pool", "kpi">>, <<"pool", "cbr", "kpi">>,
                          <<"cbr", "kpi">>}
KpiPending == agenda \in {<<"pool", "kpi">>, <<"kpi">>}

AgendaInv ==
  /\ CbrPending \/ KpiPending \/ agenda \in {<<>>, <<"pool">>}
  /\ CbrPending => now % Step = 0
  /\ agenda # <<>> => now > 0
  /\ agenda \in {<<"cbr", "pool", "kpi">>, <<"pool", "kpi">>} => now = Step

LastPrune == IF CbrPending THEN now - Step ELSE now - (now % Step)

BacklogInv ==
  \A n \in Nodes : \A i \in 1..Len(busyIntervals[n]) :
    busyIntervals[n][i].start >= LastPrune - Window - MaxDuration

(* Until the KPI logger has had its turn, the row of the CBR file for this *)
(* instant, if there is one, is what the KPI logger would compute.         *)
ReportInv ==
  /\ cbrRow.time \in Nat /\ cbrRow.time <= now
  /\ kpiCbr.time \in Nat /\ kpiCbr.time <= now
  /\ cbrRow.time = 0 \/ cbrRow.time >= EvalStart
  /\ CbrPending => cbrRow.time < now
  /\ CbrPending \/ KpiPending => kpiCbr.time < now
  /\ agenda = <<"kpi">> /\ cbrRow.time = now =>
       cbrRow = Row(ComputeChannelOccupiedCbr(Pruned))
  /\ ReportsAgree

(* heard and the deques hold the same intervals, up to the ones that lie   *)
(* wholly before the window.                                               *)
HeardInv ==
  /\ \A h \in heard :
       /\ h.node \in Nodes /\ h.iv.end > now - Window
       /\ \E i \in 1..Len(busyIntervals[h.node]) : busyIntervals[h.node][i] = h.iv
  /\ \A n \in Nodes : \A i \in 1..Len(busyIntervals[n]) :
       busyIntervals[n][i].end > now - Window =>
         \E h \in heard : h.node = n /\ h.iv = busyIntervals[n][i]

CbrInv == DequeInv /\ AgendaInv /\ BacklogInv /\ ReportInv /\ HeardInv

-----------------------------------------------------------------------------
(* Facts about data *)

(* The least number of a set is found by Min. *)
LEMMA MinIsLeast ==
  ASSUME NEW S, S \subseteq Nat, S # {}
  PROVE  Min(S) \in S /\ \A y \in S : Min(S) <= y
<1>1. PICK m \in S : \A y \in S : ~(<<y, m>> \in OpToRel(<, Nat))
  BY NatLessThanWellFounded, WFMin, Zenon
<1>2. ASSUME NEW y \in S PROVE m <= y
  <2>1. <<y, m>> \in Nat \X Nat /\ <<y, m>>[1] = y /\ <<y, m>>[2] = m
    OBVIOUS
  <2>2. ~(y < m)
    BY <1>1, <2>1, Zenon DEF OpToRel
  <2>. QED
    BY <2>2
<1>3. \E x \in S : \A y \in S : x <= y
  BY <1>2
<1>. QED
  BY <1>3, Zenon DEF Min

(* pop_front while the front is too old: m entries leave, all of them too  *)
(* old, and the next one, if there is one, is not.                         *)
LEMMA DropOldFacts ==
  ASSUME NEW S, NEW d \in Seq(S), NEW c \in Int, \A x \in S : x.end \in Nat
  PROVE  \E m \in 0..Len(d) :
           /\ DropOld(d, c) \in Seq(S) /\ Len(DropOld(d, c)) = Len(d) - m
           /\ \A i \in 1..(Len(d) - m) : DropOld(d, c)[i] = d[i + m]
           /\ \A i \in 1..m : d[i].end < c
           /\ m < Len(d) => d[m + 1].end >= c
<1> DEFINE keep == {i \in DOMAIN d : d[i].end >= c}
<1>1. /\ Len(d) \in Nat /\ DOMAIN d = 1..Len(d)
      /\ \A i \in 1..Len(d) : d[i] \in S /\ d[i].end \in Nat
  BY LenProperties, ElementOfSeq
<1>2. CASE keep = {}
  <2>1. DropOld(d, c) = <<>>
    BY <1>2 DEF DropOld
  <2>2. \A i \in 1..Len(d) : d[i].end < c
    BY <1>1, <1>2
  <2>3. Len(d) \in 0..Len(d) /\ Len(d) - Len(d) = 0 /\ ~(Len(d) < Len(d))
    BY <1>1
  <2>4. <<>> \in Seq(S) /\ Len(<<>>) = 0
    OBVIOUS
  <2>5. \A i \in 1..(Len(d) - Len(d)) : FALSE
    BY <1>1
  <2>. QED
    BY <2>1, <2>2, <2>3, <2>4, <2>5
<1>3. CASE keep # {}
  <2>1. Min(keep) \in keep /\ \A y \in keep : Min(keep) <= y
    <3>1. keep \subseteq Nat
      BY <1>1
    <3> HIDE DEF keep
    <3>. QED
      BY <1>3, <3>1, MinIsLeast
  <2>2. PICK k : k = Min(keep)
    OBVIOUS
  <2>3. /\ k \in 1..Len(d) /\ d[k].end >= c
        /\ \A i \in 1..Len(d) : d[i].end >= c => k <= i
    BY <1>1, <2>1, <2>2
  <2>4. DropOld(d, c) = SubSeq(d, k, Len(d))
    BY <1>3, <2>2 DEF DropOld
  <2>5. /\ SubSeq(d, k, Len(d)) \in Seq(S)
        /\ Len(SubSeq(d, k, Len(d))) = Len(d) - k + 1
        /\ \A i \in 1..(Len(d) - k + 1) : SubSeq(d, k, Len(d))[i] = d[k + i - 1]
    BY <1>1, <2>3, SubSeqProperties
  <2>6. PICK m \in 0..Len(d) : k = m + 1
    BY <1>1, <2>3
  <2>7. /\ DropOld(d, c) \in Seq(S) /\ Len(DropOld(d, c)) = Len(d) - m
    <3>1. Len(d) - k + 1 = Len(d) - m
      BY <1>1, <2>6
    <3>. QED
      BY <2>4, <2>5, <3>1
  <2>8. ASSUME NEW i \in 1..(Len(d) - m) PROVE DropOld(d, c)[i] = d[i + m]
    <3>1. i \in 1..(Len(d) - k + 1) /\ k + i - 1 = i + m
      BY <1>1, <2>6
    <3>. QED
      BY <2>4, <2>5, <3>1
  <2>9. ASSUME NEW i \in 1..m PROVE d[i].end < c
    <3>1. i \in 1..Len(d) /\ ~(k <= i) /\ d[i].end \in Nat
      BY <1>1, <2>6
    <3>. QED
      BY <2>3, <3>1
  <2>. QED
    BY <2>3, <2>6, <2>7, <2>8, <2>9
<1>. QED
  BY <1>2, <1>3

(* The entries after push_back *)
LEMMA AppendFacts ==
  ASSUME NEW S, NEW d \in Seq(S), NEW e \in S
  PROVE  /\ Append(d, e) \in Seq(S) /\ Len(d) \in Nat
         /\ Len(Append(d, e)) = Len(d) + 1
         /\ Append(d, e)[Len(d) + 1] = e /\ Len(d) + 1 \in 1..Len(Append(d, e))
         /\ \A i \in 1..Len(d) : i \in 1..Len(Append(d, e)) /\ Append(d, e)[i] = d[i]
         /\ \A i \in 1..Len(Append(d, e)) :
              \/ i \in 1..Len(d)
              \/ i = Len(d) + 1
<1>1. /\ Append(d, e) \in Seq(S) /\ Len(d) \in Nat /\ Len(Append(d, e)) = Len(d) + 1
      /\ \A i \in 1..Len(d) : Append(d, e)[i] = d[i]
      /\ Append(d, e)[Len(d) + 1] = e
  BY AppendProperties, LenProperties
<1>. QED
  BY <1>1

(* The j-th index of K exists: counting the indices up to each one is      *)
(* injective, so by its size it reaches every number.                      *)
Nth(K) == [j \in 1..Cardinality(K) |-> CHOOSE i \in K : Cardinality({k \in K : k <= i}) = j]

LEMMA NthFacts ==
  ASSUME NEW N \in Nat, NEW K \in SUBSET (1..N)
  PROVE  /\ Cardinality(K) \in Nat /\ IsFiniteSet(K)
         /\ Nth(K) \in [1..Cardinality(K) -> K]
         /\ \A i \in K : \E j \in 1..Cardinality(K) : Nth(K)[j] = i
         /\ \A j, l \in 1..Cardinality(K) : j < l => Nth(K)[j] < Nth(K)[l]
<1> DEFINE upTo(i) == {k \in K : k <= i}
           n == Cardinality(K)
           rank == [i \in K |-> Cardinality(upTo(i))]
<1>1. IsFiniteSet(1..N) /\ \A i \in K : i \in Nat
  BY FS_Interval
<1>2. IsFiniteSet(K) /\ n \in Nat
  BY <1>1, FS_Subset, FS_CardinalityType
<1>3. ASSUME NEW i \in K
      PROVE  /\ IsFiniteSet(upTo(i)) /\ upTo(i) \subseteq K
             /\ Cardinality(upTo(i)) \in 1..n
  <2>1. upTo(i) \subseteq K /\ i \in upTo(i)
    BY <1>1
  <2>2. IsFiniteSet(upTo(i)) /\ Cardinality(upTo(i)) <= n
    BY <1>2, <2>1, FS_Subset
  <2>3. Cardinality(upTo(i)) \in Nat /\ Cardinality(upTo(i)) # 0
    BY <2>1, <2>2, FS_CardinalityType, FS_EmptySet
  <2>. QED
    BY <1>2, <2>1, <2>2, <2>3
<1>4. ASSUME NEW i \in K, NEW k \in K, i < k
      PROVE  Cardinality(upTo(i)) < Cardinality(upTo(k))
  <2>1. upTo(i) \subseteq upTo(k) /\ upTo(i) # upTo(k)
    <3>1. ASSUME NEW x \in K, x <= i PROVE x <= k
      BY <1>1, <1>4, <3>1
    <3>2. k <= k /\ ~(k <= i)
      BY <1>1, <1>4
    <3>. QED
      BY <3>1, <3>2, Zenon
  <2>2. /\ Cardinality(upTo(i)) <= Cardinality(upTo(k))
        /\ Cardinality(upTo(i)) # Cardinality(upTo(k))
    BY <1>3, <2>1, FS_Subset
  <2>3. Cardinality(upTo(i)) \in Nat /\ Cardinality(upTo(k)) \in Nat
    BY <1>3, FS_CardinalityType
  <2> HIDE DEF upTo
  <2>. QED
    BY <2>2, <2>3
<1>5. \A i, k \in K : rank[i] < rank[k] => i < k
  <2> SUFFICES ASSUME NEW i \in K, NEW k \in K, Cardinality(upTo(i)) < Cardinality(upTo(k))
               PROVE  i < k
    OBVIOUS
  <2>1. Cardinality(upTo(i)) \in Nat /\ Cardinality(upTo(k)) \in Nat
    BY <1>3, FS_CardinalityType
  <2>2. CASE k < i
    <3>1. Cardinality(upTo(k)) < Cardinality(upTo(i))
      BY <1>4, <2>2
    <3> HIDE DEF upTo
    <3>. QED
      BY <2>1, <3>1
  <2>3. CASE k = i
    <3> HIDE DEF upTo
    <3>. QED
      BY <2>1, <2>3
  <2>. QED
    BY <1>1, <2>2, <2>3
<1>6. rank \in [K -> 1..n]
  BY <1>3
<1>7. \A i, k \in K : rank[i] = rank[k] => i = k
  <2> SUFFICES ASSUME NEW i \in K, NEW k \in K, i # k
               PROVE  Cardinality(upTo(i)) # Cardinality(upTo(k))
    OBVIOUS
  <2>1. i < k \/ k < i
    BY <1>1
  <2>2. Cardinality(upTo(i)) \in Nat /\ Cardinality(upTo(k)) \in Nat
    BY <1>3, FS_CardinalityType
  <2>3. \/ Cardinality(upTo(i)) < Cardinality(upTo(k))
        \/ Cardinality(upTo(k)) < Cardinality(upTo(i))
    BY <1>4, <2>1
  <2> HIDE DEF upTo
  <2>. QED
    BY <2>2, <2>3
<1> HIDE DEF upTo, n
<1>8. rank \in Injection(K, 1..n)
  BY <1>6, <1>7, Zenon DEF Injection, IsInjective
<1>9. IsFiniteSet(1..n) /\ Cardinality(1..n) = n
  BY <1>2, FS_Interval
<1>10. rank \in Surjection(K, 1..n)
  BY <1>8, <1>9, FS_Injection DEF n
<1>11. \A j \in 1..n : \E i \in K : Cardinality(upTo(i)) = j
  BY <1>10 DEF Surjection
<1> DEFINE f == [j \in 1..n |-> CHOOSE i \in K : Cardinality(upTo(i)) = j]
<1>12. Nth(K) = f
  BY DEF Nth, n, upTo
<1>13. ASSUME NEW j \in 1..n PROVE f[j] \in K /\ rank[f[j]] = j
  BY <1>11
<1>14. f \in [1..n -> K]
  BY <1>11
<1> HIDE DEF f
<1>15. ASSUME NEW i \in K PROVE \E j \in 1..n : f[j] = i
  <2>1. rank[i] \in 1..n
    BY <1>6
  <2>2. f[rank[i]] \in K /\ rank[f[rank[i]]] = rank[i]
    BY <1>13, <2>1
  <2>. QED
    BY <1>7, <2>1, <2>2
<1>16. ASSUME NEW j \in 1..n, NEW l \in 1..n, j < l PROVE f[j] < f[l]
  <2> HIDE DEF rank
  <2>. QED
    BY <1>5, <1>13, <1>16
<1>. QED
  BY <1>2, <1>12, <1>14, <1>15, <1>16 DEF n

(* Either the next instant is one of the samplers, and the last one was a  *)
(* step before it, or the last one stays the same.                         *)
LEMMA LastSampler ==
  ASSUME NEW t \in Nat, NEW s \in Nat \ {0}
  PROVE  /\ t % s \in Nat /\ t % s < s /\ (t + 1) % s \in Nat
         /\ (t + 1) % s = 0 => t + 1 - s = t - (t % s)
         /\ (t + 1) % s # 0 => (t + 1) - ((t + 1) % s) = t - (t % s)
<1>0. \A x \in Nat : \E q \in Int, r \in 0..(s - 1) : x = s * q + r /\ r = x % s
  OBVIOUS
<1>1. PICK q \in Int, r \in 0..(s - 1) : t = s * q + r /\ r = t % s
  BY <1>0
<1>2. PICK p \in Int, u \in 0..(s - 1) : t + 1 = s * p + u /\ u = (t + 1) % s
  <2>1. t + 1 \in Nat
    OBVIOUS
  <2>. QED
    BY <1>0, <2>1
<1>3. PICK d \in Int : d = p - q
  OBVIOUS
<1>4. s * p = s * q + s * d
  BY <1>3
<1>5. s * d = r + 1 - u
  BY <1>1, <1>2, <1>4
<1>6. d = 0 \/ d = 1
  <2>1. s * d > - s /\ s * d < s + 1
    BY <1>5
  <2>2. ~(d <= -1)
    <3>1. d <= -1 => s * d <= - s
      OBVIOUS
    <3>. QED
      BY <2>1, <3>1
  <2>3. ~(d >= 2)
    <3>1. d >= 2 => s * d >= s + s
      OBVIOUS
    <3>. QED
      BY <2>1, <3>1
  <2>. QED
    BY <2>2, <2>3
<1>7. CASE d = 0
  <2>1. u = r + 1
    BY <1>5, <1>7
  <2>. QED
    BY <1>1, <1>2, <2>1
<1>8. CASE d = 1
  <2>1. s = r + 1 - u
    BY <1>5, <1>8
  <2>2. u = 0 /\ r = s - 1
    BY <2>1
  <2>3. (t + 1) % s = 0 /\ t % s = s - 1
    BY <1>1, <1>2, <2>2
  <2>. QED
    BY <2>3
<1>. QED
  BY <1>6, <1>7, <1>8

(* The pruning loop stops at once when the front is fresh. *)
LEMMA DropOldFresh ==
  ASSUME NEW S, NEW d \in Seq(S), NEW c \in Int, \A x \in S : x.end \in Nat,
         d = <<>> \/ d[1].end >= c
  PROVE  DropOld(d, c) = d
<1>1. PICK m \in 0..Len(d) :
        /\ DropOld(d, c) \in Seq(S) /\ Len(DropOld(d, c)) = Len(d) - m
        /\ \A i \in 1..(Len(d) - m) : DropOld(d, c)[i] = d[i + m]
        /\ \A i \in 1..m : d[i].end < c
  BY DropOldFacts
<1>2. Len(d) \in Nat
  BY LenProperties
<1>3. m = 0
  <2>1. CASE d = <<>>
    BY <2>1
  <2>2. CASE d # <<>>
    <3>1. Len(d) >= 1
      BY <1>2, <2>2, EmptySeq
    <3>2. d[1] \in S
      BY <1>2, <3>1, ElementOfSeq
    <3>3. d[1].end \in Nat /\ ~(d[1].end < c)
      BY <2>2, <3>2
    <3>4. 1 \notin 1..m
      BY <1>1, <3>3
    <3>. QED
      BY <3>4
  <2>. QED
    BY <2>1, <2>2
<1>4. Len(DropOld(d, c)) = Len(d) /\ \A i \in 1..Len(d) : DropOld(d, c)[i] = d[i]
  <2>1. Len(d) - m = Len(d) /\ \A i \in 1..Len(d) : i + m = i
    BY <1>2, <1>3
  <2>. QED
    BY <1>1, <2>1
<1>. QED
  BY <1>1, <1>4, SeqEqual

(* What Prune leaves of a deque *)
LEMMA PruneFacts ==
  ASSUME NEW t \in Nat, NEW d, Deque(d, t), NEW p, p = DropOld(d, t - Window)
  PROVE  /\ Deque(p, t)
         /\ \A i \in 1..Len(p) :
              /\ \E k \in 1..Len(d) : p[i] = d[k]
              /\ p[i].start >= t - Window - MaxDuration
         /\ \A k \in 1..Len(d) :
              d[k].end >= t - Window => \E i \in 1..Len(p) : p[i] = d[k]
         /\ p = <<>> \/ p[1].end >= t - Window
<1>0. PICK c : c = t - Window
  OBVIOUS
<1>2. /\ d \in Seq(Interval) /\ OrderedStarts(d) /\ Len(d) \in Nat /\ c \in Int
      /\ \A x \in Interval : x.end \in Nat /\ x.start \in Nat
      /\ \A i \in 1..Len(d) : d[i] \in Interval /\ d[i].end <= d[i].start + MaxDuration
  <2>1. d \in Seq(Interval) /\ OrderedStarts(d)
    BY DEF Deque
  <2>2. \A i \in 1..Len(d) : d[i].end <= d[i].start + MaxDuration
    BY DEF Deque
  <2>3. Len(d) \in Nat /\ \A i \in 1..Len(d) : d[i] \in Interval
    BY <2>1, LenProperties, ElementOfSeq
  <2>4. c \in Int
    BY <1>0, CbrAssumption
  <2>. QED
    BY <2>1, <2>2, <2>3, <2>4 DEF Interval
<1>3. p = DropOld(d, c)
  BY <1>0
<1>4. PICK m \in 0..Len(d) :
        /\ p \in Seq(Interval) /\ Len(p) = Len(d) - m
        /\ \A i \in 1..(Len(d) - m) : p[i] = d[i + m]
        /\ \A i \in 1..m : d[i].end < c
        /\ m < Len(d) => d[m + 1].end >= c
  <2>1. \A x \in Interval : x.end \in Nat
    BY <1>2
  <2>2. d \in Seq(Interval) /\ c \in Int
    BY <1>2
  <2>3. \E m \in 0..Len(d) :
          /\ DropOld(d, c) \in Seq(Interval) /\ Len(DropOld(d, c)) = Len(d) - m
          /\ \A i \in 1..(Len(d) - m) : DropOld(d, c)[i] = d[i + m]
          /\ \A i \in 1..m : d[i].end < c
          /\ m < Len(d) => d[m + 1].end >= c
    BY <2>1, <2>2, DropOldFacts
  <2>. QED
    BY <1>3, <2>3, Zenon
<1>5. \A i \in 1..Len(p) : p[i] = d[i + m] /\ i + m \in 1..Len(d)
  BY <1>2, <1>4
<1>6. OrderedStarts(p)
  <2> SUFFICES ASSUME NEW i \in 1..Len(p), NEW j \in 1..Len(p), i <= j
               PROVE  p[i].start <= p[j].start
    BY DEF OrderedStarts
  <2>1. i + m <= j + m
    BY <1>2, <1>4
  <2>. QED
    BY <1>2, <1>5, <2>1 DEF OrderedStarts
<1>7. ASSUME NEW i \in 1..Len(p) PROVE p[i].start >= c - MaxDuration
  <2>1. m + 1 \in 1..Len(d) /\ m + 1 <= i + m /\ m < Len(d)
    BY <1>2, <1>4
  <2>2. d[m + 1].start <= d[i + m].start /\ d[m + 1].end >= c
        /\ d[m + 1].end <= d[m + 1].start + MaxDuration
    BY <1>2, <1>4, <1>5, <2>1 DEF OrderedStarts
  <2>3. d[m + 1].start \in Nat /\ d[m + 1].end \in Nat /\ d[i + m].start \in Nat
    BY <1>2, <1>5, <2>1
  <2>4. d[i + m].start >= c - MaxDuration
    <3>1. c \in Int /\ MaxDuration \in Nat
      BY <1>2, CbrAssumption
    <3>2. \A x, y, z \in Nat : x <= z /\ y >= c /\ y <= x + MaxDuration => z >= c - MaxDuration
      BY <3>1
    <3>. QED
      BY <2>2, <2>3, <3>2, Zenon
  <2>5. p[i] = d[i + m]
    BY <1>5
  <2>. QED
    BY <2>4, <2>5, Zenon
<1>8. ASSUME NEW k \in 1..Len(d), d[k].end >= c PROVE \E i \in 1..Len(p) : p[i] = d[k]
  <2>1. d[k].end \in Nat /\ ~(d[k].end < c)
    BY <1>2, <1>8
  <2>2. k \notin 1..m
    BY <1>4, <2>1
  <2>3. k \in Nat /\ m \in Nat /\ k > m /\ k <= Len(d)
    BY <1>2, <2>2
  <2>4. k - m \in 1..(Len(d) - m) /\ (k - m) + m = k
    BY <1>2, <2>3
  <2>. QED
    BY <1>4, <2>4
<1>9. p = <<>> \/ p[1].end >= c
  <2>1. CASE m = Len(d)
    <3>1. Len(p) = 0
      BY <1>2, <1>4, <2>1
    <3>. QED
      BY <1>4, <3>1, EmptySeq
  <2>2. CASE m # Len(d)
    <3>1. m < Len(d) /\ 1 \in 1..(Len(d) - m) /\ 1 + m = m + 1
      BY <1>2, <2>2
    <3>. QED
      BY <1>4, <3>1
  <2>. QED
    BY <2>1, <2>2
<1>10. /\ \A i \in 1..Len(p) :
            /\ \E k \in 1..Len(d) : p[i] = d[k]
            /\ p[i].start >= c - MaxDuration
       /\ \A k \in 1..Len(d) : d[k].end >= c => \E i \in 1..Len(p) : p[i] = d[k]
  BY <1>5, <1>7, <1>8
<1>11. Deque(p, t)
  BY <1>4, <1>5, <1>6, Zenon DEF Deque
<1>. QED
  BY <1>0, <1>9, <1>10, <1>11, Zenon

(* An interval that begins at the end of the window has no part in it. *)
LEMMA ClippedOfNew ==
  ASSUME NEW d \in Seq(Interval), NEW t \in Nat, NEW iv \in Interval, iv.start = t
  PROVE  Clipped(Append(d, iv), t) = Clipped(d, t)
<1> DEFINE cut(x) == [i \in DOMAIN x |-> [start |-> Later(x[i].start, t - Window),
                                         end   |-> Sooner(x[i].end, t)]]
           K(x) == {i \in DOMAIN x : cut(x)[i].end > cut(x)[i].start}
           a == Append(d, iv)
           n == Len(d)
<1>1. /\ n \in Nat /\ DOMAIN d = 1..n /\ DOMAIN a = 1..(n + 1) /\ a[n + 1] = iv
      /\ \A i \in 1..n : i \in 1..(n + 1) /\ a[i] = d[i]
      /\ \A i \in 1..(n + 1) : i \in 1..n \/ i = n + 1
  BY AppendFacts, LenProperties
<1>2. n + 1 \notin K(a)
  <2>1. cut(a)[n + 1] = [start |-> Later(t, t - Window), end |-> Sooner(iv.end, t)]
    BY <1>1
  <2>2. ~(Sooner(iv.end, t) > Later(t, t - Window))
    <3>1. iv.end \in Nat
      BY DEF Interval
    <3>. QED
      BY <3>1, CbrAssumption DEF Later, Sooner
  <2>. QED
    BY <2>1, <2>2
<1>3. \A i \in 1..n : cut(a)[i] = cut(d)[i]
  BY <1>1
<1>4. K(a) = K(d) /\ K(d) \subseteq 1..n
  BY <1>1, <1>2, <1>3
<1>5. PICK k : k = K(d)
  OBVIOUS
<1>6. Clipped(a, t) = Kept(cut(a), k) /\ Clipped(d, t) = Kept(cut(d), k)
  BY <1>4, <1>5 DEF Clipped
<1>7. k \in SUBSET (1..n)
  BY <1>4, <1>5
<1> HIDE DEF K, cut, a, n
<1>8. Nth(k) \in [1..Cardinality(k) -> k]
  BY <1>1, <1>7, NthFacts
<1>9. \A x : Kept(x, k) = [j \in 1..Cardinality(k) |-> x[Nth(k)[j]]]
  BY DEF Kept, Nth
<1>10. \A j \in 1..Cardinality(k) : cut(a)[Nth(k)[j]] = cut(d)[Nth(k)[j]]
  BY <1>3, <1>7, <1>8
<1>11. Kept(cut(a), k) = Kept(cut(d), k)
  BY <1>9, <1>10
<1>. QED
  BY <1>6, <1>11 DEF a

-----------------------------------------------------------------------------
(* The agendas of an instant, and what is left of them after a turn *)
LEMMA AgendaFacts ==
  ASSUME AgendaInv
  PROVE  /\ agenda = <<>> \/ agenda = <<"pool">> => ~CbrPending /\ ~KpiPending
         /\ KpiPending => ~CbrPending
         /\ Turn("pool") => /\ CbrPending' = CbrPending
                            /\ KpiPending' = KpiPending
                            /\ agenda' = <<"kpi">> => agenda = <<"pool", "kpi">>
                            /\ agenda' # <<"pool", "kpi">>
                            /\ agenda' # <<"cbr", "pool", "kpi">>
                            /\ CbrPending' \/ KpiPending' \/ agenda' \in {<<>>, <<"pool">>}
         /\ Turn("cbr") => /\ CbrPending /\ ~CbrPending' /\ KpiPending'
                           /\ agenda' # <<"kpi">> => now = Step
                           /\ agenda' # <<"cbr", "pool", "kpi">>
         /\ Turn("kpi") => /\ agenda = <<"kpi">> /\ agenda' = <<>>
                           /\ ~CbrPending' /\ ~KpiPending'
<1>1. \/ agenda = <<>> \/ agenda = <<"pool">> \/ agenda = <<"pool", "kpi">>
      \/ agenda = <<"kpi">> \/ agenda = <<"cbr", "pool", "kpi">>
      \/ agenda = <<"pool", "cbr", "kpi">> \/ agenda = <<"cbr", "kpi">>
  BY DEF AgendaInv, CbrPending, KpiPending
<1>2. CASE agenda = <<>>
  BY <1>2 DEF Turn, CbrPending, KpiPending
<1>3. CASE agenda = <<"pool">>
  BY <1>3 DEF Turn, CbrPending, KpiPending
<1>4. CASE agenda = <<"pool", "kpi">>
  BY <1>4 DEF Turn, CbrPending, KpiPending
<1>5. CASE agenda = <<"kpi">>
  BY <1>5 DEF Turn, CbrPending, KpiPending
<1>6. CASE agenda = <<"cbr", "pool", "kpi">>
  BY <1>6 DEF Turn, CbrPending, KpiPending, AgendaInv
<1>7. CASE agenda = <<"pool", "cbr", "kpi">>
  BY <1>7 DEF Turn, CbrPending, KpiPending
<1>8. CASE agenda = <<"cbr", "kpi">>
  BY <1>8 DEF Turn, CbrPending, KpiPending
<1>. QED
  BY <1>1, <1>2, <1>3, <1>4, <1>5, <1>6, <1>7, <1>8

LEMMA InitCbrInv == Init => CbrInv
<1> SUFFICES ASSUME Init PROVE CbrInv
  OBVIOUS
<1>1. DequeInv
  <2>1. Deque(<<>>, 0)
    BY DEF Deque, OrderedStarts
  <2>. QED
    BY <2>1 DEF Init, DequeInv
<1>2. AgendaInv
  BY DEF Init, AgendaInv, CbrPending, KpiPending
<1>3. BacklogInv
  BY DEF Init, BacklogInv
<1>4. ReportInv
  <2>1. cbrRow.time = 0 /\ kpiCbr.time = 0 /\ cbrRow = kpiCbr /\ agenda = <<>> /\ now = 0
    BY DEF Init
  <2>. QED
    BY <2>1 DEF ReportInv, ReportsAgree, CbrPending, KpiPending
<1>5. HeardInv
  BY DEF Init, HeardInv
<1>. QED
  BY <1>1, <1>2, <1>3, <1>4, <1>5 DEF CbrInv

LEMMA TickKeepsCbrInv == ASSUME CbrInv, Tick PROVE CbrInv'
<1>1. /\ now \in Nat /\ now' = now + 1 /\ agenda = <<>> /\ agenda' = AgendaAt(now + 1)
      /\ busyIntervals' = busyIntervals /\ cbrRow' = cbrRow /\ kpiCbr' = kpiCbr
      /\ counted' \in SUBSET Nodes
      /\ heard' = {h \in heard : h.iv.end > now + 1 - Window}
  BY DEF Tick, CbrInv, DequeInv
<1>2. /\ \A n \in Nodes : busyIntervals[n] \in Seq(Interval)
      /\ \A n \in Nodes : \A i \in 1..Len(busyIntervals[n]) :
           /\ busyIntervals[n][i].start \in Nat /\ busyIntervals[n][i].end \in Nat
  <2>1. \A n \in Nodes : busyIntervals[n] \in Seq(Interval)
    BY DEF CbrInv, DequeInv, Deque
  <2>2. \A n \in Nodes : \A i \in 1..Len(busyIntervals[n]) : busyIntervals[n][i] \in Interval
    BY <2>1, ElementOfSeq
  <2>. QED
    BY <2>1, <2>2 DEF Interval
<1>3. DequeInv'
  <2>1. ASSUME NEW n \in Nodes PROVE Deque(busyIntervals[n], now + 1)
    <3>1. Deque(busyIntervals[n], now)
      BY DEF CbrInv, DequeInv
    <3>2. \A i \in 1..Len(busyIntervals[n]) : busyIntervals[n][i].start <= now + 1
      BY <1>1, <1>2, <3>1 DEF Deque
    <3>. QED
      BY <3>1, <3>2, Zenon DEF Deque
  <2>2. now + 1 \in Nat
    BY <1>1
  <2>3. busyIntervals = [n \in Nodes |-> busyIntervals[n]]
    BY DEF CbrInv, DequeInv
  <2>. QED
    BY <1>1, <2>1, <2>2, <2>3, Zenon DEF DequeInv
<1>4. /\ Step \in Nat \ {0} /\ now + 1 > 0
      /\ ~CbrPending /\ ~KpiPending
      /\ ~KpiPending' /\ agenda' # <<"kpi">> /\ agenda' # <<"pool", "kpi">>
      /\ CbrPending' <=> (now + 1) % Step = 0
      /\ CbrPending' \/ agenda' = <<"pool">>
      /\ agenda' = <<"cbr", "pool", "kpi">> => now' = Step
  BY <1>1, CbrAssumption DEF AgendaAt, CbrPending, KpiPending
<1>5. AgendaInv'
  BY <1>1, <1>4 DEF AgendaInv
<1>6. LastPrune' = LastPrune
  <2>1. /\ (now + 1) % Step = 0 => now + 1 - Step = now - (now % Step)
        /\ (now + 1) % Step # 0 => (now + 1) - ((now + 1) % Step) = now - (now % Step)
    BY <1>1, <1>4, LastSampler
  <2>2. /\ LastPrune = now - (now % Step)
        /\ LastPrune' = IF CbrPending' THEN now' - Step ELSE now' - (now' % Step)
    BY <1>4 DEF LastPrune
  <2>. QED
    BY <1>1, <1>4, <2>1, <2>2
<1>7. BacklogInv'
  BY <1>1, <1>6, Zenon DEF CbrInv, BacklogInv
<1>8. ReportInv'
  <2>1. /\ cbrRow.time \in Nat /\ cbrRow.time <= now
        /\ kpiCbr.time \in Nat /\ kpiCbr.time <= now
        /\ cbrRow.time = 0 \/ cbrRow.time >= EvalStart
    BY DEF CbrInv, ReportInv
  <2>2. cbrRow.time <= now + 1 /\ kpiCbr.time <= now + 1
        /\ cbrRow.time < now + 1 /\ kpiCbr.time < now + 1
    BY <1>1, <2>1
  <2>3. ReportsAgree'
    BY <1>1, Zenon DEF CbrInv, ReportInv, ReportsAgree
  <2>. QED
    BY <1>1, <1>4, <2>1, <2>2, <2>3, Zenon DEF ReportInv
<1>9. HeardInv'
  <2>1. /\ busyIntervals' = busyIntervals
        /\ \A h : h \in heard' <=> h \in heard /\ h.iv.end > now' - Window
    BY <1>1, CbrAssumption
  <2>2. ASSUME NEW h \in heard'
        PROVE  /\ h.node \in Nodes /\ h.iv.end > now' - Window
               /\ \E i \in 1..Len(busyIntervals[h.node]) : busyIntervals[h.node][i] = h.iv
    <3>1. h \in heard /\ h.iv.end > now' - Window
      BY <2>1
    <3>. QED
      BY <3>1, Zenon DEF CbrInv, HeardInv
  <2>3. ASSUME NEW n \in Nodes, NEW i \in 1..Len(busyIntervals[n]),
               busyIntervals[n][i].end > now' - Window
        PROVE  \E h \in heard' : h.node = n /\ h.iv = busyIntervals[n][i]
    <3>1. busyIntervals[n][i].end > now - Window
      <4>1. \A x \in Nat : x > now' - Window => x > now - Window
        BY <1>1, CbrAssumption
      <4>. QED
        BY <1>2, <2>3, <4>1
    <3>2. PICK h \in heard : h.node = n /\ h.iv = busyIntervals[n][i]
      BY <3>1, Zenon DEF CbrInv, HeardInv
    <3>3. h \in heard'
      BY <2>1, <2>3, <3>2
    <3>. QED
      BY <3>2, <3>3
  <2>. QED
    BY <2>1, <2>2, <2>3, Zenon DEF HeardInv
<1>. QED
  BY <1>3, <1>5, <1>7, <1>8, <1>9 DEF CbrInv

LEMMA AssignKeepsCbrInv == ASSUME CbrInv, AssignVehicles PROVE CbrInv'
<1>1. /\ Turn("pool") /\ now' = now /\ busyIntervals' = busyIntervals /\ cbrRow' = cbrRow
      /\ kpiCbr' = kpiCbr /\ heard' = heard /\ now \in Nat /\ AgendaInv
      /\ counted' \subseteq Nodes
  BY DEF AssignVehicles, CbrInv, DequeInv
<1>2. /\ CbrPending' = CbrPending /\ KpiPending' = KpiPending
      /\ agenda' = <<"kpi">> => agenda = <<"pool", "kpi">>
      /\ agenda' # <<"pool", "kpi">> /\ agenda' # <<"cbr", "pool", "kpi">>
      /\ CbrPending' \/ KpiPending' \/ agenda' \in {<<>>, <<"pool">>}
      /\ agenda # <<>>
  BY <1>1, AgendaFacts DEF Turn
<1>3. DequeInv'
  BY <1>1, Zenon DEF CbrInv, DequeInv
<1>4. AgendaInv'
  BY <1>1, <1>2 DEF AgendaInv
<1>5. BacklogInv'
  <2>1. LastPrune' = LastPrune
    BY <1>1, <1>2 DEF LastPrune
  <2>. QED
    BY <1>1, <2>1, Zenon DEF CbrInv, BacklogInv
<1>6. ReportInv'
  <2>1. ~(agenda' = <<"kpi">> /\ cbrRow.time = now)
    <3> SUFFICES ASSUME agenda' = <<"kpi">>, cbrRow.time = now PROVE FALSE
      OBVIOUS
    <3>1. now = Step
      BY <1>1, <1>2 DEF AgendaInv
    <3>2. cbrRow.time \in Nat /\ (cbrRow.time = 0 \/ cbrRow.time >= EvalStart)
      BY DEF CbrInv, ReportInv
    <3>. QED
      BY <3>1, <3>2, CbrAssumption
  <2>2. ReportsAgree'
    BY <1>1, Zenon DEF CbrInv, ReportInv, ReportsAgree
  <2>3. /\ cbrRow.time \in Nat /\ cbrRow.time <= now
        /\ kpiCbr.time \in Nat /\ kpiCbr.time <= now
        /\ cbrRow.time = 0 \/ cbrRow.time >= EvalStart
        /\ CbrPending => cbrRow.time < now
        /\ CbrPending \/ KpiPending => kpiCbr.time < now
    BY DEF CbrInv, ReportInv
  <2>. QED
    BY <1>1, <1>2, <2>1, <2>2, <2>3, Zenon DEF ReportInv
<1>7. HeardInv'
  BY <1>1, Zenon DEF CbrInv, HeardInv
<1>. QED
  BY <1>3, <1>4, <1>5, <1>6, <1>7 DEF CbrInv

(* What a step that prunes leaves, before anything is appended *)
LEMMA PrunedFacts ==
  ASSUME DequeInv, HeardInv, NEW n \in Nodes, NEW p, p = Pruned[n]
  PROVE  /\ Deque(p, now)
         /\ \A i \in 1..Len(p) : p[i].start >= now - Window - MaxDuration
         /\ \A h \in heard : h.node = n => \E i \in 1..Len(p) : p[i] = h.iv
         /\ \A i \in 1..Len(p) : p[i].end > now - Window =>
              \E h \in heard : h.node = n /\ h.iv = p[i]
         /\ p = <<>> \/ p[1].end >= now - Window
<1>1. PICK d : d = busyIntervals[n]
  OBVIOUS
<1>3. p = DropOld(d, now - Window)
  BY <1>1 DEF Pruned
<1>4. Deque(d, now) /\ now \in Nat
  BY <1>1 DEF DequeInv
<1>5. /\ Deque(p, now)
      /\ \A i \in 1..Len(p) :
           /\ \E k \in 1..Len(d) : p[i] = d[k]
           /\ p[i].start >= now - Window - MaxDuration
      /\ \A k \in 1..Len(d) :
           d[k].end >= now - Window => \E i \in 1..Len(p) : p[i] = d[k]
      /\ p = <<>> \/ p[1].end >= now - Window
  BY <1>3, <1>4, PruneFacts
<1>6. ASSUME NEW h \in heard, h.node = n PROVE \E i \in 1..Len(p) : p[i] = h.iv
  <2>1. PICK k \in 1..Len(d) : d[k] = h.iv
    BY <1>1, <1>6, Zenon DEF HeardInv
  <2>2. d[k] \in Interval
    BY <1>4, ElementOfSeq DEF Deque
  <2>3. d[k].end > now - Window
    BY <2>1, Zenon DEF HeardInv
  <2>4. d[k].end >= now - Window
    BY <1>4, <2>2, <2>3, CbrAssumption DEF Interval
  <2>5. PICK i \in 1..Len(p) : p[i] = d[k]
    BY <1>5, <2>4
  <2>. QED
    BY <2>1, <2>5
<1>7. ASSUME NEW i \in 1..Len(p), p[i].end > now - Window
      PROVE  \E h \in heard : h.node = n /\ h.iv = p[i]
  <2>1. PICK k \in 1..Len(d) : p[i] = d[k]
    BY <1>5, Zenon
  <2>2. d[k].end > now - Window
    BY <1>7, <2>1, Zenon
  <2>3. PICK h \in heard : h.node = n /\ h.iv = d[k]
    BY <1>1, <2>2, Zenon DEF HeardInv
  <2>. QED
    BY <2>1, <2>3, Zenon
<1>. QED
  BY <1>5, <1>6, <1>7, Zenon

(* A turn of a sampler prunes every deque and nothing else. *)
LEMMA PruneStep ==
  ASSUME DequeInv, HeardInv, now' = now, counted' = counted, heard' = heard,
         busyIntervals' = Pruned
  PROVE  /\ DequeInv' /\ HeardInv'
         /\ \A n \in Nodes : \A i \in 1..Len(busyIntervals'[n]) :
              busyIntervals'[n][i].start >= now - Window - MaxDuration
         /\ Pruned' = Pruned
<1>1. now \in Nat /\ counted \subseteq Nodes
  BY DEF DequeInv
<1>2. ASSUME NEW n \in Nodes
      PROVE  /\ Deque(Pruned[n], now)
             /\ \A i \in 1..Len(Pruned[n]) : Pruned[n][i].start >= now - Window - MaxDuration
             /\ \A h \in heard : h.node = n => \E i \in 1..Len(Pruned[n]) : Pruned[n][i] = h.iv
             /\ \A i \in 1..Len(Pruned[n]) : Pruned[n][i].end > now - Window =>
                  \E h \in heard : h.node = n /\ h.iv = Pruned[n][i]
             /\ Pruned[n] = <<>> \/ Pruned[n][1].end >= now - Window
  BY PrunedFacts
<1>3. Pruned = [n \in Nodes |-> Pruned[n]]
  BY DEF Pruned
<1>4. DequeInv'
  BY <1>1, <1>2, <1>3, Zenon DEF DequeInv
<1>5. HeardInv'
  <2>1. \A h \in heard : h.node \in Nodes /\ h.iv.end > now - Window
    BY DEF HeardInv
  <2>2. ASSUME NEW h \in heard
        PROVE  \E i \in 1..Len(Pruned[h.node]) : Pruned[h.node][i] = h.iv
    <3>1. PICK m \in Nodes : m = h.node
      BY <2>1
    <3>2. \E i \in 1..Len(Pruned[m]) : Pruned[m][i] = h.iv
      BY <1>2, <3>1, Zenon
    <3>. QED
      BY <3>1, <3>2, Zenon
  <2>3. \A n \in Nodes : \A i \in 1..Len(Pruned[n]) :
          Pruned[n][i].end > now - Window => \E h \in heard : h.node = n /\ h.iv = Pruned[n][i]
    BY <1>2
  <2>4. \A h \in heard' :
          /\ h.node \in Nodes /\ h.iv.end > now' - Window
          /\ \E i \in 1..Len(busyIntervals'[h.node]) : busyIntervals'[h.node][i] = h.iv
    BY <2>1, <2>2, Zenon
  <2>5. \A n \in Nodes : \A i \in 1..Len(busyIntervals'[n]) :
          busyIntervals'[n][i].end > now' - Window =>
            \E h \in heard' : h.node = n /\ h.iv = busyIntervals'[n][i]
    BY <2>3, Zenon
  <2>. QED
    BY <2>4, <2>5, Zenon DEF HeardInv
<1>6. Pruned' = Pruned
  <2>1. ASSUME NEW n \in Nodes PROVE DropOld(Pruned[n], now - Window) = Pruned[n]
    <3>1. /\ Pruned[n] \in Seq(Interval)
          /\ Pruned[n] = <<>> \/ Pruned[n][1].end >= now - Window
      BY <1>2 DEF Deque
    <3>2. now - Window \in Int /\ \A x \in Interval : x.end \in Nat
      BY <1>1, CbrAssumption DEF Interval
    <3>. QED
      BY <3>1, <3>2, DropOldFresh
  <2>2. Pruned' = [n \in Nodes |-> DropOld(Pruned[n], now - Window)]
    BY Zenon DEF Pruned
  <2>3. [n \in Nodes |-> DropOld(Pruned[n], now - Window)] = [n \in Nodes |-> Pruned[n]]
    BY <2>1
  <2>. QED
    BY <1>3, <2>2, <2>3, Zenon
<1>. QED
  BY <1>2, <1>4, <1>5, <1>6, Zenon

(* A bound that holds now holds for an earlier instant. *)
LEMMA EarlierBound ==
  ASSUME NEW t \in Nat, NEW l \in Int, l <= t
  PROVE  \A x \in Nat : x >= t - Window - MaxDuration => x >= l - Window - MaxDuration
<1>1. PICK w \in Nat, m \in Nat : w = Window /\ m = MaxDuration
  BY CbrAssumption
<1>2. \A x \in Nat : x >= t - w - m => x >= l - w - m
  OBVIOUS
<1>. QED
  BY <1>1, <1>2

(* Right after a pruning step nothing older than window and longest        *)
(* occupation is held, whenever the samplers last had their turn.          *)
LEMMA FreshBacklog ==
  ASSUME DequeInv',
         \A n \in Nodes : \A i \in 1..Len(busyIntervals'[n]) :
           busyIntervals'[n][i].start >= now' - Window - MaxDuration
  PROVE  BacklogInv'
<1>1. now' \in Nat /\ \A n \in Nodes : Deque(busyIntervals'[n], now')
  BY DEF DequeInv
<1>2. ASSUME NEW n \in Nodes, NEW i \in 1..Len(busyIntervals'[n])
      PROVE  busyIntervals'[n][i].start \in Nat
  <2>1. busyIntervals'[n] \in Seq(Interval)
    BY <1>1 DEF Deque
  <2>2. busyIntervals'[n][i] \in Interval
    BY <2>1, ElementOfSeq
  <2>. QED
    BY <2>2 DEF Interval
<1>3. PICK t \in Nat : t = now'
  BY <1>1
<1>4. PICK l \in Int : l = LastPrune' /\ l <= t
  <2>1. t % Step \in Nat /\ Step \in Nat
    BY LastSampler, CbrAssumption
  <2>2. LastPrune' = t - Step \/ LastPrune' = t - (t % Step)
    BY <1>3 DEF LastPrune
  <2>3. /\ t - Step \in Int /\ t - Step <= t
        /\ t - (t % Step) \in Int /\ t - (t % Step) <= t
    BY <2>1
  <2>. QED
    BY <2>2, <2>3
<1>5. \A x \in Nat : x >= now' - Window - MaxDuration => x >= l - Window - MaxDuration
  BY <1>3, <1>4, EarlierBound
<1>6. \A n \in Nodes : \A i \in 1..Len(busyIntervals'[n]) :
        busyIntervals'[n][i].start >= l - Window - MaxDuration
  BY <1>2, <1>5, Zenon
<1>. QED
  BY <1>4, <1>6, Zenon DEF BacklogInv

LEMMA SampleKeepsCbrInv == ASSUME CbrInv, Sample PROVE CbrInv'
<1>1. /\ Turn("cbr") /\ now' = now /\ counted' = counted /\ heard' = heard
      /\ busyIntervals' = Pruned /\ kpiCbr' = kpiCbr
      /\ DequeInv /\ HeardInv /\ AgendaInv /\ now \in Nat
  BY DEF Sample, CbrInv, DequeInv
<1>2. /\ CbrPending /\ ~CbrPending' /\ KpiPending'
      /\ agenda' # <<"kpi">> => now = Step
      /\ agenda' # <<"cbr", "pool", "kpi">> /\ agenda # <<>>
  BY <1>1, AgendaFacts DEF Turn
<1>3. /\ DequeInv' /\ HeardInv'
      /\ \A n \in Nodes : \A i \in 1..Len(busyIntervals'[n]) :
           busyIntervals'[n][i].start >= now - Window - MaxDuration
      /\ Pruned' = Pruned
  BY <1>1, PruneStep
<1>4. BacklogInv'
  BY <1>1, <1>3, FreshBacklog
<1>5. AgendaInv'
  <2>1. agenda' = <<"kpi">> => agenda' # <<"pool", "kpi">> /\ agenda' # <<>>
    OBVIOUS
  <2>. QED
    BY <1>1, <1>2, <2>1 DEF AgendaInv
<1>6. ReportInv'
  <2>1. /\ cbrRow.time \in Nat /\ cbrRow.time < now
        /\ kpiCbr.time \in Nat /\ kpiCbr.time < now
        /\ cbrRow.time = 0 \/ cbrRow.time >= EvalStart
        /\ ReportsAgree
    BY <1>2 DEF CbrInv, ReportInv
  <2>2. PICK row : row = Row(ComputeChannelOccupiedCbr(Pruned))
    OBVIOUS
  <2>3. row.time = now
    BY <2>2 DEF Row
  <2>4. Row(ComputeChannelOccupiedCbr(Pruned))' = row
    BY <1>1, <1>3, <2>2, Zenon DEF Row, ComputeChannelOccupiedCbr
  <2>5. CASE IsInsideEvaluationWindow
    <3>1. cbrRow' = row
      BY <2>2, <2>5 DEF Sample
    <3>2. now >= EvalStart /\ now <= now /\ kpiCbr.time <= now
      BY <1>1, <2>1, <2>5, CbrAssumption DEF IsInsideEvaluationWindow
    <3>3. kpiCbr.time # now
      BY <1>1, <2>1
    <3>4. ReportsAgree'
      BY <1>1, <2>3, <3>1, <3>3, Zenon DEF ReportsAgree
    <3>. QED
      BY <1>1, <1>2, <2>1, <2>3, <2>4, <3>1, <3>2, <3>4, Zenon DEF ReportInv
  <2>6. CASE ~IsInsideEvaluationWindow
    <3>1. cbrRow' = cbrRow
      BY <2>6 DEF Sample
    <3>2. cbrRow.time <= now /\ kpiCbr.time <= now /\ cbrRow.time # now
      BY <1>1, <2>1
    <3>3. ReportsAgree'
      BY <1>1, <2>1, <3>1, Zenon DEF ReportsAgree
    <3>. QED
      BY <1>1, <1>2, <2>1, <3>1, <3>2, <3>3, Zenon DEF ReportInv
  <2>. QED
    BY <2>5, <2>6
<1>. QED
  BY <1>3, <1>4, <1>5, <1>6 DEF CbrInv

LEMMA ComputeCbrKeepsCbrInv == ASSUME CbrInv, ComputeCbr PROVE CbrInv'
<1>1. /\ Turn("kpi") /\ now' = now /\ counted' = counted /\ heard' = heard
      /\ busyIntervals' = Pruned /\ cbrRow' = cbrRow
      /\ kpiCbr' = Row(ComputeChannelOccupiedCbr(Pruned))
      /\ DequeInv /\ HeardInv /\ AgendaInv /\ now \in Nat
  BY DEF ComputeCbr, CbrInv, DequeInv
<1>2. agenda = <<"kpi">> /\ agenda' = <<>> /\ ~CbrPending' /\ ~KpiPending'
  BY <1>1, AgendaFacts
<1>3. /\ DequeInv' /\ HeardInv'
      /\ \A n \in Nodes : \A i \in 1..Len(busyIntervals'[n]) :
           busyIntervals'[n][i].start >= now - Window - MaxDuration
  BY <1>1, PruneStep
<1>4. BacklogInv'
  BY <1>1, <1>3, FreshBacklog
<1>5. AgendaInv'
  BY <1>2 DEF AgendaInv
<1>6. ReportInv'
  <2>1. /\ cbrRow.time \in Nat /\ cbrRow.time <= now
        /\ cbrRow.time = 0 \/ cbrRow.time >= EvalStart
        /\ cbrRow.time = now => cbrRow = Row(ComputeChannelOccupiedCbr(Pruned))
    BY <1>2 DEF CbrInv, ReportInv
  <2>2. kpiCbr'.time = now /\ now <= now
    BY <1>1 DEF Row
  <2>3. ReportsAgree'
    BY <1>1, <2>1, <2>2, Zenon DEF ReportsAgree
  <2>4. agenda' # <<"kpi">>
    BY <1>2
  <2>. QED
    BY <1>1, <1>2, <2>1, <2>2, <2>3, <2>4, Zenon DEF ReportInv
<1>. QED
  BY <1>3, <1>4, <1>5, <1>6 DEF CbrInv

(* The deque of the UE whose PHY reports: pruned, with the interval that   *)
(* starts now behind what is left.                                         *)
LEMMA PushedDeque ==
  ASSUME NEW t \in Nat, NEW p, Deque(p, t), p = <<>> \/ p[1].end >= t - Window,
         NEW duration \in 1..MaxDuration, NEW iv,
         iv = [start |-> t, end |-> t + duration], NEW q, q = Append(p, iv)
  PROVE  /\ Deque(q, t) /\ DropOld(q, t - Window) = q
         /\ BusyTime(q, t) = BusyTime(p, t)
<1>0. MaxDuration \in Nat /\ Window \in Nat
  BY CbrAssumption
<1>1. /\ p \in Seq(Interval) /\ iv \in Interval /\ OrderedStarts(p)
      /\ iv.start = t /\ iv.end = t + duration
  BY <1>0 DEF Deque, Interval
<1>2. /\ q \in Seq(Interval) /\ Len(p) \in Nat /\ q[Len(p) + 1] = iv
      /\ Len(q) = Len(p) + 1
      /\ \A i \in 1..Len(p) : q[i] = p[i]
      /\ \A i \in 1..Len(q) : i \in 1..Len(p) \/ i = Len(p) + 1
  BY <1>1, AppendFacts
<1>3. \A i \in 1..Len(p) : /\ p[i].start <= t /\ p[i].start < p[i].end
                           /\ p[i].end <= p[i].start + MaxDuration
  BY DEF Deque
<1>4. iv.start <= t /\ iv.start < iv.end /\ iv.end <= iv.start + MaxDuration
  BY <1>0, <1>1
<1>5. \A i \in 1..Len(q) : /\ q[i].start <= t /\ q[i].start < q[i].end
                           /\ q[i].end <= q[i].start + MaxDuration
  BY <1>2, <1>3, <1>4, Zenon
<1>6. OrderedStarts(q)
  <2> SUFFICES ASSUME NEW i \in 1..Len(q), NEW j \in 1..Len(q), i <= j
               PROVE  q[i].start <= q[j].start
    BY DEF OrderedStarts
  <2>1. CASE j = Len(p) + 1
    BY <1>1, <1>2, <1>5, <2>1
  <2>2. CASE j \in 1..Len(p)
    <3>1. i \in 1..Len(p)
      BY <1>2, <2>2
    <3>. QED
      BY <1>1, <1>2, <2>2, <3>1 DEF OrderedStarts
  <2>. QED
    BY <1>2, <2>1, <2>2
<1>7. Deque(q, t)
  BY <1>2, <1>5, <1>6, Zenon DEF Deque
<1>8. q[1].end >= t - Window
  <2>1. CASE p = <<>>
    <3>1. q[1] = iv
      BY <1>2, <2>1
    <3>. QED
      BY <1>0, <1>1, <3>1
  <2>2. CASE p # <<>>
    <3>1. 1 \in 1..Len(p)
      BY <1>1, <1>2, <2>2, EmptySeq
    <3>2. q[1] = p[1]
      BY <1>2, <3>1
    <3>. QED
      BY <2>2, <3>2
  <2>. QED
    BY <2>1, <2>2
<1>9. DropOld(q, t - Window) = q
  <2>1. t - Window \in Int /\ \A x \in Interval : x.end \in Nat
    BY <1>0 DEF Interval
  <2>. QED
    BY <1>2, <1>8, <2>1, DropOldFresh
<1>10. Clipped(q, t) = Clipped(p, t)
  BY <1>1, ClippedOfNew
<1>11. BusyTime(q, t) = BusyTime(p, t)
  BY <1>10, Zenon DEF BusyTime
<1>. QED
  BY <1>7, <1>9, <1>11

LEMMA RecordKeepsCbrInv ==
  ASSUME CbrInv, NEW n \in Nodes, NEW duration \in 0..MaxDuration,
         RecordChannelOccupied(n, duration)
  PROVE  CbrInv'
<1> DEFINE iv == [start |-> now, end |-> now + duration]
           q == Append(Pruned[n], iv)
<1>1. /\ now' = now /\ counted' = counted /\ agenda' = agenda /\ cbrRow' = cbrRow
      /\ kpiCbr' = kpiCbr /\ DequeInv /\ HeardInv /\ now \in Nat /\ counted \subseteq Nodes
      /\ duration > 0
      /\ busyIntervals' = [Pruned EXCEPT ![n] = Append(@, iv)]
      /\ heard' = heard \cup {[node |-> n, iv |-> iv]}
  BY DEF RecordChannelOccupied, CbrInv, DequeInv
<1>2. duration \in 1..MaxDuration /\ Window \in Nat \ {0} /\ MaxDuration \in Nat
  BY <1>1, CbrAssumption
<1>3. ASSUME NEW m \in Nodes
      PROVE  /\ Deque(Pruned[m], now)
             /\ \A i \in 1..Len(Pruned[m]) : Pruned[m][i].start >= now - Window - MaxDuration
             /\ \A h \in heard : h.node = m => \E i \in 1..Len(Pruned[m]) : Pruned[m][i] = h.iv
             /\ \A i \in 1..Len(Pruned[m]) : Pruned[m][i].end > now - Window =>
                  \E h \in heard : h.node = m /\ h.iv = Pruned[m][i]
             /\ Pruned[m] = <<>> \/ Pruned[m][1].end >= now - Window
  BY <1>1, PrunedFacts
<1>4. DOMAIN Pruned = Nodes /\ Pruned = [m \in Nodes |-> Pruned[m]]
  BY DEF Pruned
<1>5. /\ busyIntervals' = [m \in Nodes |-> busyIntervals'[m]]
      /\ busyIntervals'[n] = q
      /\ \A m \in Nodes : m # n => busyIntervals'[m] = Pruned[m]
  <2> HIDE DEF iv
  <2>. QED
    BY <1>1, <1>4
<1>6. /\ Deque(q, now) /\ DropOld(q, now - Window) = q
      /\ BusyTime(q, now) = BusyTime(Pruned[n], now)
  <2>1. PICK t \in Nat : t = now
    BY <1>1
  <2>4. PICK p : p = Pruned[n]
    OBVIOUS
  <2>5. PICK v : v = iv
    OBVIOUS
  <2>2. /\ Deque(p, t) /\ (p = <<>> \/ p[1].end >= t - Window)
        /\ v = [start |-> t, end |-> t + duration]
    BY <1>3, <2>1, <2>4, <2>5
  <2>3. /\ Deque(Append(p, v), t) /\ DropOld(Append(p, v), t - Window) = Append(p, v)
        /\ BusyTime(Append(p, v), t) = BusyTime(p, t)
    BY <1>2, <2>2, PushedDeque
  <2> HIDE DEF iv
  <2>. QED
    BY <2>1, <2>3, <2>4, <2>5, Zenon
<1>7. /\ Len(Pruned[n]) \in Nat /\ iv \in Interval /\ iv.start = now
      /\ iv.end = now + duration
      /\ q[Len(Pruned[n]) + 1] = iv /\ Len(Pruned[n]) + 1 \in 1..Len(q)
      /\ \A i \in 1..Len(Pruned[n]) : i \in 1..Len(q) /\ q[i] = Pruned[n][i]
      /\ \A i \in 1..Len(q) : i \in 1..Len(Pruned[n]) \/ i = Len(Pruned[n]) + 1
  <2>1. iv \in Interval /\ iv.start = now /\ iv.end = now + duration
    BY <1>1, <1>2 DEF Interval
  <2>2. Pruned[n] \in Seq(Interval)
    BY <1>3 DEF Deque
  <2> HIDE DEF iv
  <2>. QED
    BY <2>1, <2>2, AppendFacts
<1> HIDE DEF iv, q
<1>8. DequeInv'
  <2>1. \A m \in Nodes : Deque(busyIntervals'[m], now)
    BY <1>3, <1>5, <1>6, Zenon
  <2>. QED
    BY <1>1, <1>5, <2>1, Zenon DEF DequeInv
<1>9. BacklogInv'
  <2>1. now >= now - Window - MaxDuration
    BY <1>1, <1>2
  <2>2. \A i \in 1..Len(q) : q[i].start >= now - Window - MaxDuration
    BY <1>3, <1>7, <2>1, Zenon
  <2>3. \A m \in Nodes : \A i \in 1..Len(busyIntervals'[m]) :
          busyIntervals'[m][i].start >= now' - Window - MaxDuration
    <3> SUFFICES ASSUME NEW m \in Nodes, NEW i \in 1..Len(busyIntervals'[m])
                 PROVE  busyIntervals'[m][i].start >= now - Window - MaxDuration
      BY <1>1, Zenon
    <3>1. PICK d : d = busyIntervals'[m]
      OBVIOUS
    <3>2. \A k \in 1..Len(d) : d[k].start >= now - Window - MaxDuration
      <4>1. CASE m = n
        BY <1>5, <2>2, <3>1, <4>1, Zenon
      <4>2. CASE m # n
        BY <1>3, <1>5, <3>1, <4>2, Zenon
      <4>. QED
        BY <4>1, <4>2
    <3>. QED
      BY <3>1, <3>2, Zenon
  <2>. QED
    BY <1>8, <2>3, FreshBacklog
<1>10. AgendaInv'
  BY <1>1, Zenon DEF CbrInv, AgendaInv, CbrPending, KpiPending
<1>11. ReportInv'
  <2>1. \A m \in Nodes : /\ DropOld(busyIntervals'[m], now - Window) = busyIntervals'[m]
                         /\ BusyTime(busyIntervals'[m], now) = BusyTime(Pruned[m], now)
    <3>1. ASSUME NEW m \in Nodes, m # n
          PROVE  DropOld(Pruned[m], now - Window) = Pruned[m]
      <4>1. /\ Pruned[m] \in Seq(Interval)
            /\ Pruned[m] = <<>> \/ Pruned[m][1].end >= now - Window
        BY <1>3 DEF Deque
      <4>2. now - Window \in Int /\ \A x \in Interval : x.end \in Nat
        BY <1>1, <1>2 DEF Interval
      <4>. QED
        BY <4>1, <4>2, DropOldFresh
    <3>. QED
      BY <1>5, <1>6, <3>1, Zenon
  <2>2. \A m \in Nodes : Pruned'[m] = busyIntervals'[m]
    BY <1>1, <2>1 DEF Pruned
  <2>3. [m \in Nodes |-> BusyTime(Pruned[m], now)]' = [m \in Nodes |-> BusyTime(Pruned[m], now)]
    BY <1>1, <2>1, <2>2
  <2>4. ComputeChannelOccupiedCbr(Pruned)' = ComputeChannelOccupiedCbr(Pruned)
    BY <1>1, <2>3, Zenon DEF ComputeChannelOccupiedCbr
  <2>5. Row(ComputeChannelOccupiedCbr(Pruned))' = Row(ComputeChannelOccupiedCbr(Pruned))
    BY <1>1, <2>4, Zenon DEF Row
  <2>6. ReportInv
    BY DEF CbrInv
  <2>. QED
    BY <1>1, <2>5, <2>6, Zenon DEF ReportInv, ReportsAgree, CbrPending, KpiPending
<1>12. HeardInv'
  <2>1. PICK e : e = [node |-> n, iv |-> iv]
    OBVIOUS
  <2>2. /\ e.node = n /\ e.iv = iv /\ iv.end > now - Window
        /\ \A h : h \in heard' <=> h \in heard \/ h = e
    BY <1>1, <1>2, <1>7, <2>1
  <2>3. \A h \in heard : h.node \in Nodes /\ h.iv.end > now - Window
    BY <1>1 DEF HeardInv
  <2>4. ASSUME NEW h \in heard'
        PROVE  \E i \in 1..Len(busyIntervals'[h.node]) : busyIntervals'[h.node][i] = h.iv
    <3>1. CASE h = e
      BY <1>5, <1>7, <2>2, <3>1
    <3>2. CASE h \in heard
      <4>1. PICK m \in Nodes : m = h.node
        BY <2>3, <3>2
      <4>2. PICK i \in 1..Len(Pruned[m]) : Pruned[m][i] = h.iv
        BY <1>3, <3>2, <4>1, Zenon
      <4>3. CASE m = n
        <5>1. i \in 1..Len(q) /\ q[i] = h.iv
          BY <1>7, <4>2, <4>3
        <5>2. busyIntervals'[h.node] = q
          BY <1>5, <4>1, <4>3
        <5>. QED
          BY <5>1, <5>2
      <4>4. CASE m # n
        <5>1. busyIntervals'[h.node] = Pruned[m]
          BY <1>5, <4>1, <4>4
        <5>. QED
          BY <4>2, <5>1
      <4>. QED
        BY <4>3, <4>4
    <3>. QED
      BY <2>2, <3>1, <3>2
  <2>5. \A h \in heard' : h.node \in Nodes /\ h.iv.end > now - Window
    BY <2>2, <2>3, Zenon
  <2>7. \A h \in heard' :
          /\ h.node \in Nodes /\ h.iv.end > now' - Window
          /\ \E i \in 1..Len(busyIntervals'[h.node]) : busyIntervals'[h.node][i] = h.iv
    BY <1>1, <2>4, <2>5, Zenon
  <2>8. \A m \in Nodes : \A i \in 1..Len(busyIntervals'[m]) :
          busyIntervals'[m][i].end > now' - Window =>
            \E h \in heard' : h.node = m /\ h.iv = busyIntervals'[m][i]
    <3> SUFFICES ASSUME NEW m \in Nodes, NEW i \in 1..Len(busyIntervals'[m]),
                        busyIntervals'[m][i].end > now' - Window
                 PROVE  \E h \in heard' : h.node = m /\ h.iv = busyIntervals'[m][i]
      BY Zenon
    <3>1. PICK d : d = busyIntervals'[m]
      OBVIOUS
    <3>2. i \in 1..Len(d) /\ d[i].end > now - Window
      BY <1>1, <3>1
    <3> SUFFICES \E h \in heard' : h.node = m /\ h.iv = d[i]
      BY <3>1, Zenon
    <3>4. \A x : (\E h \in heard : h.node = m /\ h.iv = x)
                    => \E h \in heard' : h.node = m /\ h.iv = x
      BY <2>2, Zenon
    <3>5. CASE m # n
      <4>1. d = Pruned[m]
        BY <1>5, <3>1, <3>5
      <4>2. \E h \in heard : h.node = m /\ h.iv = d[i]
        BY <1>3, <3>2, <4>1
      <4>. QED
        BY <3>4, <4>2, Zenon
    <3>6. CASE m = n
      <4>0. d = q
        BY <1>5, <3>1, <3>6
      <4>1. CASE i = Len(Pruned[n]) + 1
        <5>1. d[i] = e.iv /\ e.node = m /\ e \in heard'
          BY <1>7, <2>2, <3>6, <4>0, <4>1
        <5>. QED
          BY <5>1
      <4>2. CASE i \in 1..Len(Pruned[n])
        <5>1. d[i] = Pruned[n][i]
          BY <1>7, <4>0, <4>2
        <5>2. Pruned[n][i].end > now - Window
          BY <3>2, <5>1
        <5>3. \E h \in heard : h.node = n /\ h.iv = Pruned[n][i]
          BY <1>3, <4>2, <5>2
        <5>. QED
          BY <3>4, <3>6, <5>1, <5>3, Zenon
      <4>. QED
        BY <1>7, <3>2, <4>0, <4>1, <4>2
    <3>. QED
      BY <3>5, <3>6
  <2>. QED
    BY <2>7, <2>8, Zenon DEF HeardInv
<1>. QED
  BY <1>8, <1>9, <1>10, <1>11, <1>12 DEF CbrInv

-----------------------------------------------------------------------------
(* Sums over finite sets.  An induction is stated for the members of a     *)
(* set, Q, and rests on the least number outside Q.                        *)

(* Induction over the numbers, for the members of a set *)
LEMMA NumberInduction ==
  ASSUME NEW Q, 0 \in Q, \A k \in Nat : k \in Q => k + 1 \in Q
  PROVE  Nat \subseteq Q
<1> SUFFICES ASSUME Nat \ Q # {} PROVE FALSE
  OBVIOUS
<1>1. PICK m \in Nat \ Q : \A y \in Nat \ Q : ~(<<y, m>> \in OpToRel(<, Nat))
  BY NatLessThanWellFounded, WFMin, Zenon
<1>2. m # 0
  OBVIOUS
<1>3. m - 1 \in Nat /\ m - 1 < m /\ (m - 1) + 1 = m
  BY <1>2
<1>4. m - 1 \notin Q
  BY <1>3
<1>5. <<m - 1, m>> \in OpToRel(<, Nat)
  <2>1. <<m - 1, m>> \in Nat \X Nat /\ <<m - 1, m>>[1] = m - 1 /\ <<m - 1, m>>[2] = m
    BY <1>3
  <2>. QED
    BY <1>3, <2>1, Zenon DEF OpToRel
<1>. QED
  BY <1>1, <1>3, <1>4, <1>5, Zenon

(* Induction over the subsets of a finite set *)
LEMMA SubsetInduction ==
  ASSUME NEW S, IsFiniteSet(S), NEW Q, {} \in Q,
         \A T \in SUBSET S : T # {} /\ (\A x \in T : T \ {x} \in Q) => T \in Q
  PROVE  SUBSET S \subseteq Q
<1> DEFINE Upto == {k \in Nat : \A T \in SUBSET S : Cardinality(T) = k => T \in Q}
<1>0. \A T \in SUBSET S : IsFiniteSet(T) /\ Cardinality(T) \in Nat
  BY FS_Subset, FS_CardinalityType
<1>1. 0 \in Upto
  BY <1>0, FS_EmptySet
<1>2. ASSUME NEW k \in Nat, k \in Upto PROVE k + 1 \in Upto
  <2> SUFFICES ASSUME NEW T \in SUBSET S, Cardinality(T) = k + 1 PROVE T \in Q
    OBVIOUS
  <2>1. T # {}
    BY FS_EmptySet
  <2>2. ASSUME NEW x \in T PROVE T \ {x} \in Q
    <3>1. Cardinality(T \ {x}) = k /\ T \ {x} \in SUBSET S
      BY <1>0, FS_RemoveElement
    <3>. QED
      BY <1>2, <3>1
  <2>. QED
    BY <2>1, <2>2
<1> HIDE DEF Upto
<1>3. Nat \subseteq Upto
  BY <1>1, <1>2, NumberInduction
<1>. QED
  BY <1>0, <1>3 DEF Upto

(* The element that the library's folds take next *)
Pick(s) == CHOOSE x \in s : TRUE

(* The equation of the function that SumFunctionOnSet evaluates *)
IsSum(g, f, D) ==
  g = [s \in D |-> IF s = {} THEN 0 ELSE f[Pick(s)] + g[s \ {Pick(s)}]]

(* The sum of the library is the value of a function that satisfies it. *)
LEMMA SumUnfold ==
  ASSUME NEW f, NEW S
  PROVE  SumFunctionOnSet(f, S) = (CHOOSE g : IsSum(g, f, SUBSET S))[S]
BY Zenon DEF SumFunctionOnSet, FoldFunctionOnSet, MapThenFoldSet, Pick, IsSum

(* The element with which the library goes on is one of the set. *)
LEMMA PickIn == ASSUME NEW s, s # {} PROVE Pick(s) \in s
BY DEF Pick

(* On the subsets of a finite set there is such a function. *)
LEMMA SumExists ==
  ASSUME NEW f, NEW S, IsFiniteSet(S)
  PROVE  \E g : IsSum(g, f, SUBSET S)
<1> DEFINE D(k) == {s \in SUBSET S : Cardinality(s) <= k}
           Upto == {k \in Nat : \E g : IsSum(g, f, D(k))}
<1>0. \A T \in SUBSET S : IsFiniteSet(T) /\ Cardinality(T) \in Nat
  BY FS_Subset, FS_CardinalityType
<1>1. 0 \in Upto
  <2>1. \A s \in D(0) : s = {}
    BY <1>0, FS_EmptySet
  <2>2. IsSum([s \in D(0) |-> 0], f, D(0))
    BY <2>1 DEF IsSum
  <2>. QED
    BY <2>2
<1>2. ASSUME NEW k \in Nat, k \in Upto PROVE k + 1 \in Upto
  <2>1. PICK g : IsSum(g, f, D(k))
    BY <1>2
  <2> DEFINE h == [s \in D(k + 1) |-> IF s = {} THEN 0 ELSE f[Pick(s)] + g[s \ {Pick(s)}]]
  <2>2. ASSUME NEW s \in D(k) PROVE s \in D(k + 1) /\ h[s] = g[s]
    <3>1. s \in D(k + 1)
      BY <1>0
    <3>2. g[s] = IF s = {} THEN 0 ELSE f[Pick(s)] + g[s \ {Pick(s)}]
      BY <2>1, Zenon DEF IsSum
    <3>. QED
      BY <3>1, <3>2, Zenon
  <2>3. ASSUME NEW s \in D(k + 1), s # {} PROVE s \ {Pick(s)} \in D(k)
    <3>1. Pick(s) \in s
      BY <2>3, PickIn
    <3>2. Cardinality(s \ {Pick(s)}) = Cardinality(s) - 1 /\ Cardinality(s) \in Nat
      BY <1>0, <3>1, FS_RemoveElement
    <3>. QED
      BY <3>2
  <2> HIDE DEF D
  <2>4. h = [s \in D(k + 1) |-> IF s = {} THEN 0 ELSE f[Pick(s)] + h[s \ {Pick(s)}]]
    <3>1. ASSUME NEW s \in D(k + 1), s # {} PROVE h[s \ {Pick(s)}] = g[s \ {Pick(s)}]
      BY <2>2, <2>3, <3>1, Zenon
    <3>2. ASSUME NEW s \in D(k + 1)
          PROVE  (IF s = {} THEN 0 ELSE f[Pick(s)] + g[s \ {Pick(s)}])
                   = IF s = {} THEN 0 ELSE f[Pick(s)] + h[s \ {Pick(s)}]
      BY <3>1, Zenon
    <3>4. PICK v : v = h
      OBVIOUS
    <3>5. \A s \in D(k + 1) :
            (IF s = {} THEN 0 ELSE f[Pick(s)] + g[s \ {Pick(s)}])
              = IF s = {} THEN 0 ELSE f[Pick(s)] + v[s \ {Pick(s)}]
      BY <3>2, <3>4, Zenon
    <3>6. v = [s \in D(k + 1) |-> IF s = {} THEN 0 ELSE f[Pick(s)] + v[s \ {Pick(s)}]]
      BY <3>4, <3>5
    <3>. QED
      BY <3>4, <3>6, Zenon
  <2>5. IsSum(h, f, D(k + 1))
    BY <2>4 DEF IsSum
  <2>6. \E g1 : IsSum(g1, f, D(k + 1))
    BY <2>5, Zenon
  <2>. QED
    BY <2>6
<1> HIDE DEF Upto
<1>3. Cardinality(S) \in Upto
  BY <1>0, <1>1, <1>2, NumberInduction
<1>4. D(Cardinality(S)) = SUBSET S
  BY FS_Subset
<1>. QED
  BY <1>3, <1>4 DEF Upto

(* What a sum is: nothing for no element, and any element apart *)
LEMMA SumFacts ==
  ASSUME NEW S, IsFiniteSet(S), NEW f, \A x \in S : f[x] \in Int
  PROVE  /\ SumFunctionOnSet(f, {}) = 0
         /\ \A T \in SUBSET S : SumFunctionOnSet(f, T) \in Int
         /\ \A T \in SUBSET S : \A x \in T :
              SumFunctionOnSet(f, T) = f[x] + SumFunctionOnSet(f, T \ {x})
<1> DEFINE G(T) == CHOOSE g : IsSum(g, f, SUBSET T)
<1>1. ASSUME NEW T \in SUBSET S PROVE IsSum(G(T), f, SUBSET T)
  BY FS_Subset, SumExists
<1>2. ASSUME NEW T, NEW U \in SUBSET T, IsSum(G(T), f, SUBSET T)
      PROVE  G(T)[U] = IF U = {} THEN 0 ELSE f[Pick(U)] + G(T)[U \ {Pick(U)}]
  BY <1>2, Zenon DEF IsSum
<1> HIDE DEF G
<1>3. ASSUME NEW T \in SUBSET S PROVE \A U \in SUBSET T : G(T)[U] = G(S)[U]
  <2> DEFINE Q == {U \in SUBSET T : G(T)[U] = G(S)[U]}
  <2>0. S \in SUBSET S /\ {} \in SUBSET T /\ {} \in SUBSET S
    OBVIOUS
  <2>1. {} \in Q
    BY <1>1, <1>2, <2>0
  <2>2. ASSUME NEW U \in SUBSET T, U # {}, \A x \in U : U \ {x} \in Q PROVE U \in Q
    <3>1. Pick(U) \in U
      BY <2>2, PickIn
    <3>2. G(T)[U \ {Pick(U)}] = G(S)[U \ {Pick(U)}]
      BY <2>2, <3>1
    <3>3. G(T)[U] = f[Pick(U)] + G(T)[U \ {Pick(U)}]
      BY <1>1, <1>2, <2>2
    <3>4. G(S)[U] = f[Pick(U)] + G(S)[U \ {Pick(U)}]
      <4>1. U \in SUBSET S /\ IsSum(G(S), f, SUBSET S)
        BY <1>1
      <4>. QED
        BY <1>2, <2>2, <4>1
    <3>. QED
      BY <3>2, <3>3, <3>4, Zenon
  <2> HIDE DEF Q
  <2>3. SUBSET T \subseteq Q
    <3>1. IsFiniteSet(T)
      BY FS_Subset
    <3>. QED
      BY <2>1, <2>2, <3>1, SubsetInduction
  <2>. QED
    BY <2>3 DEF Q
<1>4. ASSUME NEW T \in SUBSET S PROVE SumFunctionOnSet(f, T) = G(S)[T]
  <2>1. SumFunctionOnSet(f, T) = G(T)[T] /\ T \in SUBSET T
    BY SumUnfold, Zenon DEF G
  <2>. QED
    BY <1>3, <2>1, Zenon
<1>5. \A T \in SUBSET S :
        G(S)[T] = IF T = {} THEN 0 ELSE f[Pick(T)] + G(S)[T \ {Pick(T)}]
  <2>1. IsSum(G(S), f, SUBSET S)
    BY <1>1
  <2>. QED
    BY <1>2, <2>1, Zenon
<1>6. \A T \in SUBSET S : G(S)[T] \in Int
  <2> DEFINE Q == {T \in SUBSET S : G(S)[T] \in Int}
  <2>1. {} \in Q
    BY <1>5
  <2>2. ASSUME NEW T \in SUBSET S, T # {}, \A x \in T : T \ {x} \in Q PROVE T \in Q
    <3>1. Pick(T) \in T
      BY <2>2, PickIn
    <3>2. f[Pick(T)] \in Int /\ G(S)[T \ {Pick(T)}] \in Int
      BY <2>2, <3>1
    <3>3. G(S)[T] = f[Pick(T)] + G(S)[T \ {Pick(T)}]
      BY <1>5, <2>2, Zenon
    <3>. QED
      BY <3>2, <3>3
  <2> HIDE DEF Q
  <2>3. SUBSET S \subseteq Q
    BY <2>1, <2>2, SubsetInduction
  <2>. QED
    BY <2>3 DEF Q
<1>7. \A T \in SUBSET S : \A x \in T : G(S)[T] = f[x] + G(S)[T \ {x}]
  <2> DEFINE Q == {T \in SUBSET S : \A x \in T : G(S)[T] = f[x] + G(S)[T \ {x}]}
  <2>1. {} \in Q
    OBVIOUS
  <2>2. ASSUME NEW T \in SUBSET S, T # {}, \A x \in T : T \ {x} \in Q PROVE T \in Q
    <3> SUFFICES ASSUME NEW x \in T PROVE G(S)[T] = f[x] + G(S)[T \ {x}]
      OBVIOUS
    <3>1. PICK c \in T : c = Pick(T)
      BY <2>2, PickIn
    <3>2. G(S)[T] = f[c] + G(S)[T \ {c}]
      BY <1>5, <2>2, <3>1
    <3>3. CASE x # c
      <4>1. G(S)[T \ {c}] = f[x] + G(S)[(T \ {c}) \ {x}]
        <5>1. T \ {c} \in Q /\ x \in T \ {c}
          BY <2>2, <3>3
        <5>. QED
          BY <5>1
      <4>2. G(S)[T \ {x}] = f[c] + G(S)[(T \ {x}) \ {c}]
        <5>1. T \ {x} \in Q /\ c \in T \ {x}
          BY <2>2, <3>3
        <5>. QED
          BY <5>1
      <4>3. (T \ {c}) \ {x} = (T \ {x}) \ {c} /\ (T \ {x}) \ {c} \in SUBSET S
        OBVIOUS
      <4>4. PICK v \in Int : v = G(S)[(T \ {x}) \ {c}] /\ v = G(S)[(T \ {c}) \ {x}]
        BY <1>6, <4>3
      <4>5. f[x] \in Int /\ f[c] \in Int
        OBVIOUS
      <4>. QED
        BY <3>2, <4>1, <4>2, <4>4, <4>5
    <3>. QED
      BY <3>2, <3>3
  <2> HIDE DEF Q
  <2>3. SUBSET S \subseteq Q
    BY <2>1, <2>2, SubsetInduction
  <2>. QED
    BY <2>3 DEF Q
<1>8. {} \in SUBSET S /\ \A T \in SUBSET S : \A x \in T : T \ {x} \in SUBSET S
  OBVIOUS
<1>9. SumFunctionOnSet(f, {}) = 0
  BY <1>4, <1>5, <1>8, Zenon
<1>10. ASSUME NEW T \in SUBSET S, NEW x \in T
       PROVE  SumFunctionOnSet(f, T) = f[x] + SumFunctionOnSet(f, T \ {x})
  <2>1. T \ {x} \in SUBSET S
    OBVIOUS
  <2>2. SumFunctionOnSet(f, T) = G(S)[T] /\ SumFunctionOnSet(f, T \ {x}) = G(S)[T \ {x}]
    BY <1>4, <2>1
  <2>. QED
    BY <1>7, <2>2
<1>. QED
  BY <1>4, <1>6, <1>9, <1>10

(* Numbers that are at most c *)
LEMMA SumBound ==
  ASSUME NEW S, IsFiniteSet(S), NEW c \in Nat, NEW f, \A x \in S : f[x] \in Int /\ f[x] <= c
  PROVE  SumFunctionOnSet(f, S) <= c * Cardinality(S)
<1> DEFINE Q == {T \in SUBSET S : SumFunctionOnSet(f, T) <= c * Cardinality(T)}
<1>1. {} \in Q
  <2>1. SumFunctionOnSet(f, {}) = 0 /\ Cardinality({}) = 0
    BY SumFacts, FS_EmptySet
  <2>. QED
    BY <2>1
<1>2. ASSUME NEW T \in SUBSET S, T # {}, \A x \in T : T \ {x} \in Q PROVE T \in Q
  <2>1. PICK x \in T : TRUE
    BY <1>2
  <2>2. PICK v \in Int, k \in Nat :
          v = SumFunctionOnSet(f, T \ {x}) /\ k = Cardinality(T \ {x}) /\ v <= c * k
    <3>1. T \ {x} \in SUBSET S /\ SumFunctionOnSet(f, T \ {x}) <= c * Cardinality(T \ {x})
      BY <1>2
    <3>2. SumFunctionOnSet(f, T \ {x}) \in Int /\ Cardinality(T \ {x}) \in Nat
      BY <3>1, SumFacts, FS_Subset, FS_CardinalityType
    <3>. QED
      BY <3>1, <3>2
  <2>3. SumFunctionOnSet(f, T) = f[x] + v
    BY <2>2, SumFacts
  <2>4. Cardinality(T) = k + 1
    <3>1. IsFiniteSet(T) /\ Cardinality(T) \in Nat
      BY FS_Subset, FS_CardinalityType
    <3>2. Cardinality(T \ {x}) = Cardinality(T) - 1
      BY <3>1, FS_RemoveElement
    <3>3. k = Cardinality(T) - 1
      BY <2>2, <3>2, Zenon
    <3>. QED
      BY <3>1, <3>3
  <2>5. PICK y \in Int : y = f[x] /\ y <= c
    OBVIOUS
  <2>6. c * (k + 1) = c * k + c /\ c * k \in Int
    OBVIOUS
  <2>7. y + v <= c * k + c
    BY <2>2, <2>5, <2>6
  <2>8. y + v <= c * (k + 1)
    BY <2>6, <2>7, Zenon
  <2>9. SumFunctionOnSet(f, T) <= c * Cardinality(T)
    BY <2>3, <2>4, <2>5, <2>8, Zenon
  <2>. QED
    BY <2>9
<1> HIDE DEF Q
<1>3. SUBSET S \subseteq Q
  BY <1>1, <1>2, SubsetInduction
<1>. QED
  BY <1>3 DEF Q

-----------------------------------------------------------------------------
(* The loop that merges intervals *)

(* The greatest number of a bounded set is found by Max. *)
LEMMA MaxIsGreatest ==
  ASSUME NEW n \in Nat, NEW S \in SUBSET (1..n), S # {}
  PROVE  Max(S) \in S /\ \A y \in S : y <= Max(S)
<1> DEFINE R == {n - y : y \in S}
<1>1. R \subseteq Nat /\ R # {}
  <2>1. \A y \in S : n - y \in Nat
    OBVIOUS
  <2>2. PICK y \in S : TRUE
    OBVIOUS
  <2>3. n - y \in R
    OBVIOUS
  <2>. QED
    BY <2>1, <2>3
<1>2. Min(R) \in R /\ \A r \in R : Min(R) <= r
  <2> HIDE DEF R
  <2>. QED
    BY <1>1, MinIsLeast
<1>3. PICK x \in S : Min(R) = n - x
  BY <1>2
<1>4. ASSUME NEW y \in S PROVE x >= y
  <2>1. n - y \in R
    OBVIOUS
  <2>2. n - x <= n - y
    BY <1>2, <1>3, <2>1
  <2>. QED
    BY <2>2
<1>5. \E z \in S : \A y \in S : z >= y
  BY <1>4
<1>6. Max(S) \in S /\ \A y \in S : Max(S) >= y
  BY <1>5, Zenon DEF Max
<1>. QED
  BY <1>6

(* The equation of the function with which FoldLeft walks through a        *)
(* sequence                                                                *)
IsFold(g, base, seq, D) ==
  g = [s \in D |-> IF s = {} THEN base ELSE Merge(g[s \ {Max(s)}], seq[Max(s)])]

(* The loop over the clipped intervals *)
MergedAll(base, seq) == FoldLeft(Merge, base, seq)

(* The loop's result is the value of a function that satisfies it. *)
LEMMA FoldUnfold ==
  ASSUME NEW base, NEW seq
  PROVE  MergedAll(base, seq)
           = (CHOOSE g : IsFold(g, base, seq, SUBSET (DOMAIN seq)))[DOMAIN seq]
BY Zenon DEF MergedAll, FoldLeft, MapThenFoldSet, IsFold

(* On sets of indices there is such a function. *)
LEMMA FoldExists ==
  ASSUME NEW n \in Nat, NEW base, NEW seq
  PROVE  \E g : IsFold(g, base, seq, SUBSET (1..n))
<1> DEFINE S == 1..n
           D(k) == {s \in SUBSET S : Cardinality(s) <= k}
           Upto == {k \in Nat : \E g : IsFold(g, base, seq, D(k))}
<1>00. IsFiniteSet(S)
  BY FS_Interval
<1>0. \A T \in SUBSET S : IsFiniteSet(T) /\ Cardinality(T) \in Nat
  BY <1>00, FS_Subset, FS_CardinalityType
<1>1. 0 \in Upto
  <2>1. \A s \in D(0) : s = {}
    BY <1>0, FS_EmptySet
  <2>2. IsFold([s \in D(0) |-> base], base, seq, D(0))
    BY <2>1 DEF IsFold
  <2>. QED
    BY <2>2
<1>2. ASSUME NEW k \in Nat, k \in Upto PROVE k + 1 \in Upto
  <2>1. PICK g : IsFold(g, base, seq, D(k))
    BY <1>2
  <2> DEFINE h == [s \in D(k + 1) |-> IF s = {} THEN base
                                      ELSE Merge(g[s \ {Max(s)}], seq[Max(s)])]
  <2>2. ASSUME NEW s \in D(k) PROVE s \in D(k + 1) /\ h[s] = g[s]
    <3>1. s \in D(k + 1)
      BY <1>0
    <3>2. g[s] = IF s = {} THEN base ELSE Merge(g[s \ {Max(s)}], seq[Max(s)])
      BY <2>1, Zenon DEF IsFold
    <3>. QED
      BY <3>1, <3>2, Zenon
  <2>3. ASSUME NEW s \in D(k + 1), s # {} PROVE s \ {Max(s)} \in D(k)
    <3>1. Max(s) \in s
      <4>1. s \in SUBSET (1..n)
        OBVIOUS
      <4>. QED
        BY <2>3, <4>1, MaxIsGreatest
    <3>2. Cardinality(s \ {Max(s)}) = Cardinality(s) - 1 /\ Cardinality(s) \in Nat
      <4>1. IsFiniteSet(s) /\ Cardinality(s) \in Nat
        BY <1>0
      <4>. QED
        BY <3>1, <4>1, FS_RemoveElement
    <3>3. s \ {Max(s)} \in SUBSET S /\ Cardinality(s) <= k + 1
      OBVIOUS
    <3>4. Cardinality(s) - 1 <= k
      BY <3>2, <3>3
    <3>. QED
      BY <3>2, <3>3, <3>4
  <2> HIDE DEF D
  <2>4. PICK v : v = h
    OBVIOUS
  <2>5. ASSUME NEW s \in D(k + 1)
        PROVE  (IF s = {} THEN base ELSE Merge(g[s \ {Max(s)}], seq[Max(s)]))
                 = IF s = {} THEN base ELSE Merge(v[s \ {Max(s)}], seq[Max(s)])
    <3>1. CASE s # {}
      <4>1. v[s \ {Max(s)}] = g[s \ {Max(s)}]
        BY <2>2, <2>3, <2>4, <3>1, Zenon
      <4>. QED
        BY <4>1, Zenon
    <3>. QED
      BY <3>1, Zenon
  <2>6. v = [s \in D(k + 1) |-> IF s = {} THEN base
                                ELSE Merge(v[s \ {Max(s)}], seq[Max(s)])]
    <3> HIDE DEF h
    <3>1. v = [s \in D(k + 1) |-> IF s = {} THEN base
                                  ELSE Merge(g[s \ {Max(s)}], seq[Max(s)])]
      BY <2>4 DEF h
    <3>. QED
      BY <2>5, <3>1
  <2>7. \E w : IsFold(w, base, seq, D(k + 1))
    BY <2>6, Zenon DEF IsFold
  <2>. QED
    BY <2>7
<1> HIDE DEF Upto
<1>3. n \in Upto
  BY <1>1, <1>2, NumberInduction
<1>4. D(n) = SUBSET S
  <2>1. Cardinality(S) = n
    BY FS_Interval
  <2>. QED
    BY <1>00, <2>1, FS_Subset
<1>. QED
  BY <1>3, <1>4 DEF Upto

(* The values that the loop over the clipped intervals goes through *)
LEMMA FoldFacts ==
  ASSUME NEW n \in Nat, NEW base, NEW seq, DOMAIN seq = 1..n
  PROVE  \E g : /\ g[0] = base
                /\ \A k \in 1..n : g[k] = Merge(g[k - 1], seq[k])
                /\ MergedAll(base, seq) = g[n]
<1>1. PICK f : IsFold(f, base, seq, SUBSET (1..n)) /\ MergedAll(base, seq) = f[1..n]
  <2>1. IsFold(CHOOSE g : IsFold(g, base, seq, SUBSET (1..n)), base, seq, SUBSET (1..n))
    BY FoldExists
  <2>2. MergedAll(base, seq) = (CHOOSE g : IsFold(g, base, seq, SUBSET (1..n)))[1..n]
    BY FoldUnfold
  <2>. QED
    BY <2>1, <2>2, Zenon
<1>2. \A s \in SUBSET (1..n) :
        f[s] = IF s = {} THEN base ELSE Merge(f[s \ {Max(s)}], seq[Max(s)])
  BY <1>1, Zenon DEF IsFold
<1> DEFINE g == [k \in 0..n |-> f[1..k]]
<1>3. g[0] = base
  <2>1. 1..0 = {} /\ {} \in SUBSET (1..n) /\ 0 \in 0..n
    OBVIOUS
  <2>2. f[{}] = base
    BY <1>2, <2>1, Zenon
  <2>. QED
    BY <2>1, <2>2
<1>4. ASSUME NEW k \in 1..n PROVE g[k] = Merge(g[k - 1], seq[k])
  <2>1. /\ 1..k \in SUBSET (1..n) /\ 1..k # {} /\ k \in 1..k /\ k - 1 \in 0..n /\ k \in 0..n
        /\ (1..k) \ {k} = 1..(k - 1)
    <3>1. \A x : x \in (1..k) \ {k} <=> x \in 1..(k - 1)
      OBVIOUS
    <3>2. (1..k) \ {k} = 1..(k - 1)
      BY <3>1, Zenon
    <3>3. k \in 1..k /\ k - 1 \in 0..n /\ k \in 0..n /\ \A x \in 1..k : x \in 1..n
      OBVIOUS
    <3>. QED
      BY <3>2, <3>3
  <2>2. Max(1..k) = k
    <3>1. Max(1..k) \in 1..k /\ k <= Max(1..k)
      BY <2>1, MaxIsGreatest
    <3>. QED
      BY <3>1
  <2>3. f[1..k] = Merge(f[(1..k) \ {Max(1..k)}], seq[Max(1..k)])
    BY <1>2, <2>1, Zenon
  <2>4. f[1..k] = Merge(f[1..(k - 1)], seq[k])
    BY <2>1, <2>2, <2>3, Zenon
  <2>5. g[k] = f[1..k] /\ g[k - 1] = f[1..(k - 1)]
    BY <2>1
  <2>. QED
    BY <2>4, <2>5, Zenon
<1>5. g[n] = f[1..n]
  OBVIOUS
<1> HIDE DEF g
<1>. QED
  BY <1>1, <1>3, <1>4, <1>5, Zenon

(* An interval cut to the window *)
Clip == [start : Int, end : Int]

(* One of the first k intervals of c covers the instant x. *)
Covers(c, k, x) == \E i \in 1..k : c[i].start <= x /\ x < c[i].end

(* What m says of the first k intervals of c, on the instants W: from      *)
(* m.start on exactly those before m.end are covered, and m.busy counts    *)
(* the ones before m.start.                                                *)
Merged(m, c, k, W) ==
  /\ m \in [busy : Nat, start : Int, end : Int]
  /\ m.start < m.end /\ m.start <= c[k].start
  /\ \A x \in m.start..(m.end - 1) : x \in W
  /\ \A x \in W : x >= m.start => (Covers(c, k, x) <=> x < m.end)
  /\ m.busy = Cardinality({x \in W : x < m.start /\ Covers(c, k, x)})

(* The clipped intervals of one UE *)
Clips(c, n, W) ==
  /\ \A i \in 1..n : /\ c[i] \in Clip /\ c[i].start < c[i].end
                     /\ \A x \in c[i].start..(c[i].end - 1) : x \in W
  /\ \A i, j \in 1..n : i <= j => c[i].start <= c[j].start

(* Counting a set in two parts *)
LEMMA CountInParts ==
  ASSUME NEW W, IsFiniteSet(W), NEW A \in SUBSET W, NEW B \in SUBSET W, A \cap B = {}
  PROVE  /\ Cardinality(A \cup B) = Cardinality(A) + Cardinality(B)
         /\ Cardinality(A) \in Nat /\ Cardinality(B) \in Nat
<1>1. IsFiniteSet(A) /\ IsFiniteSet(B)
  BY FS_Subset
<1>2. Cardinality(A) \in Nat /\ Cardinality(B) \in Nat
  BY <1>1, FS_CardinalityType
<1>3. Cardinality(A \cup B) = Cardinality(A) + Cardinality(B) - Cardinality(A \cap B)
  BY <1>1, FS_Union
<1>4. Cardinality(A \cap B) = 0
  BY FS_EmptySet
<1>. QED
  BY <1>2, <1>3, <1>4

(* Everything a merged state stands for *)
LEMMA MergedCount ==
  ASSUME NEW W \in SUBSET Int, IsFiniteSet(W), NEW c, NEW k, NEW m, Merged(m, c, k, W)
  PROVE  /\ Cardinality({x \in W : Covers(c, k, x)}) = m.busy + (m.end - m.start)
         /\ \A x \in W : Covers(c, k, x) => x < m.end
<1> DEFINE A == {x \in W : x < m.start /\ Covers(c, k, x)}
           B == m.start..(m.end - 1)
           C == {x \in W : Covers(c, k, x)}
<1>1. /\ m.busy \in Nat /\ m.start \in Int /\ m.end \in Int /\ m.start < m.end
      /\ \A x \in B : x \in W
      /\ \A x \in W : x >= m.start => (Covers(c, k, x) <=> x < m.end)
      /\ m.busy = Cardinality(A)
  BY DEF Merged
<1>2. \A x \in W : Covers(c, k, x) => x < m.end
  <2> SUFFICES ASSUME NEW x \in W, Covers(c, k, x) PROVE x < m.end
    OBVIOUS
  <2>1. CASE x >= m.start
    BY <1>1, <2>1
  <2>2. CASE x < m.start
    BY <1>1, <2>2
  <2>. QED
    BY <1>1, <2>1, <2>2
<1>3. \A x : x \in C <=> x \in A \cup B
  <2>1. ASSUME NEW x \in C PROVE x \in A \cup B
    <3>1. x \in Int /\ x \in W /\ Covers(c, k, x) /\ x < m.end
      BY <1>2
    <3>2. CASE x < m.start
      BY <3>1, <3>2
    <3>3. CASE x >= m.start
      BY <1>1, <3>1, <3>3
    <3>. QED
      BY <1>1, <3>1, <3>2, <3>3
  <2>2. ASSUME NEW x \in B PROVE x \in C
    <3>1. x \in W /\ x >= m.start /\ x < m.end
      BY <1>1
    <3>. QED
      BY <1>1, <3>1
  <2>. QED
    BY <2>1, <2>2
<1>4. A \in SUBSET W /\ B \in SUBSET W /\ A \cap B = {}
  <2>1. \A x \in B : ~(x < m.start)
    BY <1>1
  <2>. QED
    BY <1>1, <2>1
<1>5. Cardinality(B) = m.end - m.start
  <2>1. \A s, e \in Int : s < e => Cardinality(s..(e - 1)) = e - s
    <3> SUFFICES ASSUME NEW s \in Int, NEW e \in Int, s < e
                 PROVE  Cardinality(s..(e - 1)) = e - s
      OBVIOUS
    <3>1. Cardinality(s..(e - 1)) = (e - 1) - s + 1
      BY FS_Interval
    <3>. QED
      BY <3>1
  <2>. QED
    BY <1>1, <2>1
<1> HIDE DEF A, B, C
<1>6. C = A \cup B
  BY <1>3, Zenon
<1>7. Cardinality(C) = m.busy + (m.end - m.start)
  <2>1. Cardinality(A \cup B) = Cardinality(A) + Cardinality(B)
    BY <1>4, CountInParts, ZenonT(60)
  <2>. QED
    BY <1>1, <1>5, <1>6, <2>1, Zenon
<1>. QED
  BY <1>2, <1>7 DEF C

(* The loop body keeps that. *)
LEMMA MergeStep ==
  ASSUME NEW n \in Nat, NEW k \in 1..(n - 1), NEW c, NEW W \in SUBSET Int, IsFiniteSet(W),
         Clips(c, n, W), NEW m, Merged(m, c, k, W)
  PROVE  Merged(Merge(m, c[k + 1]), c, k + 1, W)
<1>0. k \in Nat /\ k + 1 \in 1..n /\ k \in 1..n /\ k <= k + 1
  OBVIOUS
<1>1. PICK s \in Int, e \in Int, b \in Nat :
        /\ m = [busy |-> b, start |-> s, end |-> e] /\ s < e /\ s <= c[k].start
        /\ \A x \in s..(e - 1) : x \in W
        /\ \A x \in W : x >= s => (Covers(c, k, x) <=> x < e)
        /\ b = Cardinality({x \in W : x < s /\ Covers(c, k, x)})
  <2>1. /\ m \in [busy : Nat, start : Int, end : Int]
        /\ m.start < m.end /\ m.start <= c[k].start
        /\ \A x \in m.start..(m.end - 1) : x \in W
        /\ \A x \in W : x >= m.start => (Covers(c, k, x) <=> x < m.end)
        /\ m.busy = Cardinality({x \in W : x < m.start /\ Covers(c, k, x)})
    BY DEF Merged
  <2>2. m = [busy |-> m.busy, start |-> m.start, end |-> m.end]
    BY <2>1
  <2>3. m.busy \in Nat /\ m.start \in Int /\ m.end \in Int
    BY <2>1
  <2>. QED
    BY <2>1, <2>2, <2>3, Zenon
<1>2. PICK u \in Int, v \in Int :
        /\ c[k + 1].start = u /\ c[k + 1].end = v /\ u < v
        /\ \A x \in u..(v - 1) : x \in W
        /\ s <= u
  <2>1. /\ c[k + 1] \in Clip /\ c[k + 1].start < c[k + 1].end
        /\ \A x \in c[k + 1].start..(c[k + 1].end - 1) : x \in W
        /\ c[k].start <= c[k + 1].start /\ c[k] \in Clip
    BY <1>0 DEF Clips
  <2>2. c[k + 1].start \in Int /\ c[k + 1].end \in Int /\ c[k].start \in Int
    BY <2>1 DEF Clip
  <2>3. s <= c[k + 1].start
    BY <1>1, <2>1, <2>2
  <2>. QED
    BY <2>1, <2>2, <2>3
<1>3. \A x : Covers(c, k + 1, x) <=> Covers(c, k, x) \/ (u <= x /\ x < v)
  <2>1. \A i : i \in 1..(k + 1) <=> i \in 1..k \/ i = k + 1
    BY <1>0
  <2>. QED
    BY <1>2, <2>1, Zenon DEF Covers
<1>4. /\ m.busy = b /\ m.start = s /\ m.end = e
  BY <1>1
<1>5. CASE u <= e
  <2>1. PICK r \in Int : r = (IF e > v THEN e ELSE v) /\ r >= e /\ r >= v /\ (r = e \/ r = v)
    OBVIOUS
  <2>2. PICK q : q = Merge(m, c[k + 1])
    OBVIOUS
  <2>3. q = [busy |-> b, start |-> s, end |-> r]
    BY <1>1, <1>2, <1>4, <1>5, <2>1, <2>2 DEF Merge, Later
  <2>4. s < r /\ s <= u
    BY <1>1, <1>2, <2>1
  <2>5. \A x \in s..(r - 1) : x \in W
    <3> SUFFICES ASSUME NEW x \in s..(r - 1) PROVE x \in W
      OBVIOUS
    <3>1. x \in s..(e - 1) \/ x \in u..(v - 1)
      BY <1>5, <2>1
    <3>. QED
      BY <1>1, <1>2, <3>1
  <2>6. ASSUME NEW x \in W, x >= s PROVE Covers(c, k + 1, x) <=> x < r
    <3>1. Covers(c, k, x) <=> x < e
      BY <1>1, <2>6
    <3>2. (x < e \/ (u <= x /\ x < v)) <=> x < r
      BY <1>5, <2>1
    <3>. QED
      BY <1>3, <3>1, <3>2
  <2>7. {x \in W : x < s /\ Covers(c, k + 1, x)} = {x \in W : x < s /\ Covers(c, k, x)}
    <3>1. \A x \in W : x < s => ~(u <= x /\ x < v)
      BY <1>2
    <3>. QED
      BY <1>3, <3>1, Zenon
  <2>8. b = Cardinality({x \in W : x < s /\ Covers(c, k + 1, x)})
    BY <1>1, <2>7, Zenon
  <2>9. Merged(q, c, k + 1, W)
    <3>1. q.busy = b /\ q.start = s /\ q.end = r /\ q \in [busy : Nat, start : Int, end : Int]
      BY <2>3
    <3>. QED
      BY <1>2, <2>4, <2>5, <2>6, <2>8, <3>1, Zenon DEF Merged
  <2>. QED
    BY <2>2, <2>9, Zenon
<1>6. CASE u > e
  <2>1. /\ Cardinality({x \in W : Covers(c, k, x)}) = b + (e - s)
        /\ \A x \in W : Covers(c, k, x) => x < e
    BY <1>4, MergedCount
  <2>2. PICK q : q = Merge(m, c[k + 1])
    OBVIOUS
  <2>3. q = [busy |-> b + e - s, start |-> u, end |-> v]
    BY <1>2, <1>4, <1>6, <2>2 DEF Merge
  <2>4. b + e - s \in Nat /\ b + e - s = b + (e - s)
    BY <1>1
  <2>5. ASSUME NEW x \in W, x >= u PROVE Covers(c, k + 1, x) <=> x < v
    <3>1. ~Covers(c, k, x)
      BY <1>6, <2>1, <2>5
    <3>. QED
      BY <1>3, <2>5, <3>1
  <2>6. {x \in W : x < u /\ Covers(c, k + 1, x)} = {x \in W : Covers(c, k, x)}
    <3>1. \A x \in W : Covers(c, k, x) => x < u
      BY <1>6, <2>1
    <3>2. \A x \in W : x < u => ~(u <= x /\ x < v)
      BY <1>2
    <3>. QED
      BY <1>3, <3>1, <3>2, Zenon
  <2>7. b + e - s = Cardinality({x \in W : x < u /\ Covers(c, k + 1, x)})
    BY <2>1, <2>4, <2>6, Zenon
  <2>8. Merged(q, c, k + 1, W)
    <3>1. /\ q.busy = b + e - s /\ q.start = u /\ q.end = v
          /\ q \in [busy : Nat, start : Int, end : Int]
      BY <2>3, <2>4
    <3>2. u <= u
      OBVIOUS
    <3>. QED
      BY <1>2, <2>5, <2>7, <3>1, <3>2, Zenon DEF Merged
  <2>. QED
    BY <2>2, <2>8, Zenon
<1>. QED
  BY <1>5, <1>6

(* The window that ends at t *)
InstantsBefore(t) == (t - Window)..(t - 1)

(* It has as many instants as the window is long. *)
LEMMA WindowFacts ==
  ASSUME NEW t \in Nat
  PROVE  /\ InstantsBefore(t) \in SUBSET Int /\ IsFiniteSet(InstantsBefore(t))
         /\ Cardinality(InstantsBefore(t)) = Window
         /\ \A x : x \in InstantsBefore(t) <=> x \in Int /\ t - Window <= x /\ x < t
<1>1. PICK a \in Int, b \in Int : a = t - Window /\ b = t - 1 /\ b - a + 1 = Window /\ ~(a > b)
  BY CbrAssumption
<1>2. InstantsBefore(t) = a..b
  BY <1>1 DEF InstantsBefore
<1>3. IsFiniteSet(a..b) /\ Cardinality(a..b) = b - a + 1
  BY <1>1, FS_Interval
<1>4. \A x : x \in a..b <=> x \in Int /\ t - Window <= x /\ x < t
  BY <1>1, CbrAssumption
<1>. QED
  BY <1>1, <1>2, <1>3, <1>4

(* What Clipped leaves: non-empty parts of the window in the order of      *)
(* their starts, which cover what the deque covers of the window.          *)
LEMMA ClippedFacts ==
  ASSUME NEW t \in Nat, NEW d, Deque(d, t), NEW c, c = Clipped(d, t)
  PROVE  \E n \in Nat :
           /\ c \in Seq(Clip) /\ Len(c) = n /\ Clips(c, n, InstantsBefore(t))
           /\ \A x \in InstantsBefore(t) :
                Covers(c, n, x) <=> \E i \in 1..Len(d) : d[i].start <= x /\ x < d[i].end
<1> DEFINE cut == [i \in 1..Len(d) |-> [start |-> Later(d[i].start, t - Window),
                                        end   |-> Sooner(d[i].end, t)]]
           K == {i \in 1..Len(d) : cut[i].end > cut[i].start}
           W == InstantsBefore(t)
<1>1. /\ d \in Seq(Interval) /\ Len(d) \in Nat /\ DOMAIN d = 1..Len(d)
      /\ \A i, j \in 1..Len(d) : i <= j => d[i].start <= d[j].start
      /\ \A i \in 1..Len(d) : d[i] \in Interval
  BY LenProperties, ElementOfSeq DEF Deque, OrderedStarts
<1>2. Window \in Nat /\ t - Window \in Int
  BY CbrAssumption
<1>3. ASSUME NEW i \in 1..Len(d)
      PROVE  /\ cut[i] \in Clip /\ d[i].start \in Nat /\ d[i].end \in Nat
             /\ cut[i].start >= d[i].start /\ cut[i].start >= t - Window
             /\ cut[i].start = d[i].start \/ cut[i].start = t - Window
             /\ cut[i].end <= d[i].end /\ cut[i].end <= t
             /\ cut[i].end = d[i].end \/ cut[i].end = t
  <2>1. PICK s \in Nat, e \in Nat : d[i].start = s /\ d[i].end = e
    BY <1>1 DEF Interval
  <2>2. PICK a \in Int : a = Later(s, t - Window) /\ a >= s /\ a >= t - Window
                           /\ (a = s \/ a = t - Window)
    <3>1. PICK w \in Int : w = t - Window
      BY <1>2
    <3>2. CASE s > w
      BY <3>1, <3>2 DEF Later
    <3>3. CASE ~(s > w)
      BY <3>1, <3>3 DEF Later
    <3>. QED
      BY <3>2, <3>3
  <2>3. PICK b \in Int : b = Sooner(e, t) /\ b <= e /\ b <= t /\ (b = e \/ b = t)
    BY DEF Sooner
  <2>4. cut[i] = [start |-> a, end |-> b]
    BY <2>1, <2>2, <2>3
  <2>. QED
    BY <2>1, <2>2, <2>3, <2>4 DEF Clip
<1>4. ASSUME NEW i \in 1..Len(d), NEW j \in 1..Len(d), i <= j
      PROVE  cut[i].start <= cut[j].start
  <2>1. /\ d[i].start \in Nat /\ d[j].start \in Nat /\ d[i].start <= d[j].start
    BY <1>1, <1>3, <1>4
  <2>2. cut[i].start = Later(d[i].start, t - Window) /\ cut[j].start = Later(d[j].start, t - Window)
    OBVIOUS
  <2>. QED
    BY <1>2, <2>1, <2>2 DEF Later
<1>5. K \in SUBSET (1..Len(d))
  OBVIOUS
<1>6. c = [j \in 1..Cardinality(K) |-> cut[Nth(K)[j]]]
  <2>1. c = Kept(cut, K)
    BY <1>1 DEF Clipped
  <2> HIDE DEF cut, K
  <2>2. Kept(cut, K) = [j \in 1..Cardinality(K) |-> cut[Nth(K)[j]]]
    BY DEF Kept, Nth
  <2>. QED
    BY <2>1, <2>2
<1>7. PICK n \in Nat : n = Cardinality(K) /\ Nth(K) \in [1..n -> K]
                       /\ (\A i \in K : \E j \in 1..n : Nth(K)[j] = i)
                       /\ (\A j, l \in 1..n : j < l => Nth(K)[j] < Nth(K)[l])
  <2> HIDE DEF K
  <2>. QED
    BY <1>1, <1>5, NthFacts
<1>8. PICK p : p = Nth(K)
  OBVIOUS
<1>9. /\ \A j \in 1..n : p[j] \in K /\ p[j] \in 1..Len(d)
      /\ \A i \in K : \E j \in 1..n : p[j] = i
      /\ \A j, l \in 1..n : j < l => p[j] < p[l]
  BY <1>7, <1>8
<1>10. c = [j \in 1..n |-> cut[p[j]]]
  BY <1>6, <1>7, <1>8, Zenon
<1>11. ASSUME NEW i \in K
       PROVE  /\ cut[i] \in Clip /\ cut[i].start < cut[i].end
              /\ \A x \in cut[i].start..(cut[i].end - 1) : x \in W
  <2>0. i \in 1..Len(d) /\ cut[i].end > cut[i].start
    OBVIOUS
  <2>1. PICK a \in Int, b \in Int : /\ a = cut[i].start /\ b = cut[i].end /\ a < b
                                    /\ a >= t - Window /\ b <= t
    <3>1. cut[i] \in Clip /\ cut[i].start >= t - Window /\ cut[i].end <= t
      BY <1>3, <2>0
    <3>2. cut[i].start \in Int /\ cut[i].end \in Int
      BY <3>1 DEF Clip
    <3> HIDE DEF cut
    <3>. QED
      BY <2>0, <3>1, <3>2
  <2>2. \A x \in a..(b - 1) : x \in Int /\ t - Window <= x /\ x < t
    BY <1>2, <2>1
  <2>3. \A x \in a..(b - 1) : x \in W
    BY <2>2, WindowFacts
  <2>4. cut[i] \in Clip
    BY <1>3, <2>0
  <2> HIDE DEF cut, W, K
  <2>. QED
    BY <2>1, <2>3, <2>4
<1>12. ASSUME NEW i \in 1..Len(d), NEW x \in W
       PROVE  d[i].start <= x /\ x < d[i].end <=> i \in K /\ cut[i].start <= x /\ x < cut[i].end
  <2>1. x \in Int /\ t - Window <= x /\ x < t
    BY WindowFacts
  <2>2. PICK s \in Nat, e \in Nat, a \in Int, b \in Int :
          /\ s = d[i].start /\ e = d[i].end /\ a = cut[i].start /\ b = cut[i].end
          /\ a >= s /\ a >= t - Window /\ (a = s \/ a = t - Window)
          /\ b <= e /\ b <= t /\ (b = e \/ b = t)
    <3>1. cut[i].start \in Int /\ cut[i].end \in Int
      <4>1. cut[i] \in Clip
        BY <1>3
      <4> HIDE DEF cut
      <4>. QED
        BY <4>1 DEF Clip
    <3>2. /\ d[i].start \in Nat /\ d[i].end \in Nat
             /\ cut[i].start >= d[i].start /\ cut[i].start >= t - Window
             /\ (cut[i].start = d[i].start \/ cut[i].start = t - Window)
             /\ cut[i].end <= d[i].end /\ cut[i].end <= t
             /\ (cut[i].end = d[i].end \/ cut[i].end = t)
      BY <1>3
    <3> HIDE DEF cut
    <3>. QED
      BY <3>1, <3>2, Zenon
  <2>3. i \in K <=> b > a
    BY <2>2
  <2>4. s <= x /\ x < e <=> b > a /\ a <= x /\ x < b
    BY <1>2, <2>1, <2>2, SMTT(30)
  <2> HIDE DEF cut, K, W
  <2>. QED
    BY <2>2, <2>3, <2>4, Zenon
<1> HIDE DEF cut, K, W
<1>13. /\ DOMAIN c = 1..n /\ \A j \in 1..n : c[j] = cut[p[j]]
  BY <1>10
<1>14. c \in Seq(Clip) /\ Len(c) = n
  <2>1. c \in [1..n -> Clip]
    BY <1>9, <1>10, <1>11
  <2>. QED
    BY <2>1, LenProperties, <1>13
<1>15. Clips(c, n, W)
  <2>1. ASSUME NEW j \in 1..n
        PROVE  /\ c[j] \in Clip /\ c[j].start < c[j].end
               /\ \A x \in c[j].start..(c[j].end - 1) : x \in W
    BY <1>9, <1>11, <1>13
  <2>2. ASSUME NEW j \in 1..n, NEW l \in 1..n, j <= l PROVE c[j].start <= c[l].start
    <3>1. p[j] \in 1..Len(d) /\ p[l] \in 1..Len(d) /\ p[j] <= p[l]
      <4>1. p[j] \in 1..Len(d) /\ p[l] \in 1..Len(d)
        BY <1>9
      <4>2. j < l \/ j = l
        BY <2>2
      <4>3. p[j] < p[l] \/ p[j] = p[l]
        BY <1>9, <4>2
      <4>. QED
        BY <1>1, <4>1, <4>3
    <3>2. cut[p[j]].start <= cut[p[l]].start
      BY <1>4, <3>1
    <3>. QED
      BY <1>13, <3>2, Zenon
  <2>. QED
    BY <2>1, <2>2, Zenon DEF Clips
<1>16. ASSUME NEW x \in W
       PROVE  Covers(c, n, x) <=> \E i \in 1..Len(d) : d[i].start <= x /\ x < d[i].end
  <2>1. ASSUME NEW j \in 1..n, c[j].start <= x, x < c[j].end
        PROVE  \E i \in 1..Len(d) : d[i].start <= x /\ x < d[i].end
    BY <1>9, <1>12, <1>13, <2>1, ZenonT(60)
  <2>2. ASSUME NEW i \in 1..Len(d), d[i].start <= x, x < d[i].end
        PROVE  \E j \in 1..n : c[j].start <= x /\ x < c[j].end
    <3>1. i \in K /\ cut[i].start <= x /\ x < cut[i].end
      BY <1>12, <2>2, Zenon
    <3>2. PICK j \in 1..n : p[j] = i
      BY <1>9, <3>1
    <3>3. c[j] = cut[i]
      BY <1>13, <3>2
    <3>. QED
      BY <3>1, <3>3, Zenon
  <2>. QED
    BY <2>1, <2>2, Zenon DEF Covers
<1>. QED
  BY <1>14, <1>15, <1>16 DEF W

(* ComputeBusyFractionForContext measures what the intervals cover of the  *)
(* window: sorting is not needed, nesting and overlaps do no harm, and the *)
(* final cap is never reached from above.                                  *)
LEMMA BusyTimeIsMeasure ==
  ASSUME NEW t \in Nat, NEW d, Deque(d, t)
  PROVE  /\ BusyTime(d, t) = Cardinality({x \in InstantsBefore(t) :
              \E i \in 1..Len(d) : d[i].start <= x /\ x < d[i].end})
         /\ BusyTime(d, t) \in Nat /\ BusyTime(d, t) <= Window
<1> DEFINE W == InstantsBefore(t)
           H == {x \in W : \E i \in 1..Len(d) : d[i].start <= x /\ x < d[i].end}
<1>1. PICK c : c = Clipped(d, t)
  OBVIOUS
<1>2. PICK n \in Nat :
        /\ c \in Seq(Clip) /\ Len(c) = n /\ Clips(c, n, W)
        /\ \A x \in W :
             Covers(c, n, x) <=> \E i \in 1..Len(d) : d[i].start <= x /\ x < d[i].end
  BY <1>1, ClippedFacts
<1>3. W \in SUBSET Int /\ IsFiniteSet(W) /\ Cardinality(W) = Window /\ Window \in Nat
  BY WindowFacts, CbrAssumption
<1> HIDE DEF W
<1>4. H = {x \in W : Covers(c, n, x)}
  BY <1>2
<1>5. Cardinality(H) \in Nat /\ Cardinality(H) <= Window
  <2>1. H \in SUBSET W
    OBVIOUS
  <2> HIDE DEF H
  <2>. QED
    BY <1>3, <2>1, FS_Subset, FS_CardinalityType
<1> HIDE DEF H
<1>6. CASE n = 0
  <2>1. c = <<>>
    BY <1>2, <1>6, EmptySeq
  <2>2. \A x : ~Covers(c, n, x)
    BY <1>6 DEF Covers
  <2>3. H = {}
    BY <1>4, <2>2
  <2>4. BusyTime(d, t) = 0
    BY <1>1, <2>1 DEF BusyTime
  <2>. QED
    <3>1. Cardinality(H) = 0 /\ 0 <= Window /\ 0 \in Nat
      BY <1>3, <2>3, FS_EmptySet
    <3>. QED
      BY <2>4, <3>1, Zenon DEF H, W
<1>7. CASE n # 0
  <2>1. c # <<>> /\ n - 1 \in Nat /\ 1 \in 1..n
    BY <1>2, <1>7, EmptySeq
  <2>2. /\ Tail(c) \in Seq(Clip) /\ Len(Tail(c)) = n - 1 /\ DOMAIN Tail(c) = 1..(n - 1)
        /\ \A i \in 1..(n - 1) : Tail(c)[i] = c[i + 1]
    BY <1>2, <2>1, HeadTailProperties, LenProperties
  <2>3. PICK base : base = [busy |-> 0, start |-> c[1].start, end |-> c[1].end]
    OBVIOUS
  <2>4. PICK g : /\ g[0] = base
                 /\ \A k \in 1..(n - 1) : g[k] = Merge(g[k - 1], Tail(c)[k])
                 /\ MergedAll(base, Tail(c)) = g[n - 1]
    <3>1. PICK N \in Nat : N = n - 1
      BY <2>1
    <3>2. PICK s : s = Tail(c)
      OBVIOUS
    <3>3. DOMAIN s = 1..N
      BY <2>2, <3>1, <3>2
    <3>4. \E g : /\ g[0] = base
                 /\ \A k \in 1..N : g[k] = Merge(g[k - 1], s[k])
                 /\ MergedAll(base, s) = g[N]
      BY <3>3, FoldFacts
    <3>. QED
      BY <3>1, <3>2, <3>4, Zenon
  <2> DEFINE Q == {k \in Nat : k < n => Merged(g[k], c, k + 1, W)}
  <2>5. 0 \in Q
    <3>1. PICK s \in Int, e \in Int : /\ c[1].start = s /\ c[1].end = e /\ s < e
                                      /\ \A x \in s..(e - 1) : x \in W
      <4>1. /\ c[1] \in Clip /\ c[1].start < c[1].end
            /\ \A x \in c[1].start..(c[1].end - 1) : x \in W
        BY <1>2, <2>1 DEF Clips
      <4>2. c[1].start \in Int /\ c[1].end \in Int
        BY <4>1 DEF Clip
      <4>. QED
        BY <4>1, <4>2
    <3>2. /\ base \in [busy : Nat, start : Int, end : Int]
          /\ base.busy = 0 /\ base.start = s /\ base.end = e
      BY <2>3, <3>1
    <3>3. \A x : Covers(c, 1, x) <=> s <= x /\ x < e
      <4>1. \A i : i \in 1..1 <=> i = 1
        OBVIOUS
      <4>. QED
        BY <3>1, <4>1, Zenon DEF Covers
    <3>4. \A x \in W : x >= s => (Covers(c, 1, x) <=> x < e)
      BY <1>3, <3>3
    <3>5. {x \in W : x < s /\ Covers(c, 1, x)} = {}
      <4>1. \A x \in W : x < s => ~(s <= x)
        BY <1>3
      <4>. QED
        BY <3>3, <4>1, Zenon
    <3>6. Cardinality({x \in W : x < s /\ Covers(c, 1, x)}) = 0
      BY <3>5, FS_EmptySet, Zenon
    <3>7. s <= s
      OBVIOUS
    <3>8. Merged(base, c, 1, W)
      BY <3>1, <3>2, <3>4, <3>6, <3>7, Zenon DEF Merged
    <3>9. 0 + 1 = 1
      OBVIOUS
    <3>. QED
      BY <2>4, <3>8, <3>9
  <2>6. ASSUME NEW k \in Nat, k \in Q PROVE k + 1 \in Q
    <3> SUFFICES ASSUME k + 1 < n PROVE Merged(g[k + 1], c, (k + 1) + 1, W)
      OBVIOUS
    <3>1. Merged(g[k], c, k + 1, W) /\ k + 1 \in 1..(n - 1) /\ (k + 1) - 1 = k
      BY <2>6
    <3>2. g[k + 1] = Merge(g[k], c[(k + 1) + 1])
      BY <2>2, <2>4, <3>1
    <3>3. Merged(Merge(g[k], c[(k + 1) + 1]), c, (k + 1) + 1, W)
      BY <1>2, <1>3, <3>1, MergeStep
    <3>. QED
      BY <3>2, <3>3, Zenon
  <2> HIDE DEF Q
  <2>7. Nat \subseteq Q
    BY <2>5, <2>6, NumberInduction
  <2>8. PICK m : m = g[n - 1] /\ Merged(m, c, n, W)
    <3>1. n - 1 \in Q /\ n - 1 < n /\ (n - 1) + 1 = n
      BY <2>1, <2>7
    <3>. QED
      BY <3>1 DEF Q
  <2>9. Cardinality(H) = m.busy + (m.end - m.start)
    BY <1>3, <1>4, <2>8, MergedCount
  <2>10. Cardinality(H) = m.busy + m.end - m.start
    <3>1. m.busy \in Int /\ m.end \in Int /\ m.start \in Int
      BY <2>8 DEF Merged
    <3>. QED
      BY <2>9, <3>1
  <2>11. BusyTime(d, t) = Sooner(Window, m.busy + m.end - m.start)
    BY <1>1, <2>1, <2>3, <2>4, <2>8, Zenon DEF BusyTime, MergedAll
  <2>12. BusyTime(d, t) = Sooner(Window, Cardinality(H))
    BY <2>10, <2>11, Zenon
  <2>13. Sooner(Window, Cardinality(H)) = Cardinality(H)
    BY <1>3, <1>5 DEF Sooner
  <2>. QED
    BY <1>5, <2>12, <2>13 DEF H, W
<1>. QED
  BY <1>6, <1>7

-----------------------------------------------------------------------------
(* Theorems *)

(* The deques, the agenda, the two reports and the history stay consistent *)
(* whatever the PHYs, the pool and the two samplers do.                    *)
THEOREM CbrInvariant == Spec => []CbrInv
<1>1. CbrInv /\ [Next]_vars => CbrInv'
  <2> SUFFICES ASSUME CbrInv, [Next]_vars PROVE CbrInv'
    OBVIOUS
  <2>1. CASE Tick
    BY <2>1, TickKeepsCbrInv
  <2>2. CASE AssignVehicles
    BY <2>2, AssignKeepsCbrInv
  <2>3. CASE Sample
    BY <2>3, SampleKeepsCbrInv
  <2>4. CASE ComputeCbr
    BY <2>4, ComputeCbrKeepsCbrInv
  <2>5. CASE \E n \in Nodes, duration \in 0..MaxDuration : RecordChannelOccupied(n, duration)
    BY <2>5, RecordKeepsCbrInv
  <2>6. CASE UNCHANGED vars
    <3>1. /\ now' = now /\ agenda' = agenda /\ counted' = counted
          /\ busyIntervals' = busyIntervals /\ cbrRow' = cbrRow /\ kpiCbr' = kpiCbr
          /\ heard' = heard
      BY <2>6 DEF vars
    <3>2. Pruned' = Pruned /\ LastPrune' = LastPrune
      BY <3>1, Zenon DEF Pruned, LastPrune, CbrPending
    <3>3. Row(ComputeChannelOccupiedCbr(Pruned))' = Row(ComputeChannelOccupiedCbr(Pruned))
      BY <3>1, <3>2, Zenon DEF Row, ComputeChannelOccupiedCbr
    <3>4. DequeInv' /\ AgendaInv' /\ HeardInv'
      BY <3>1, Zenon DEF CbrInv, DequeInv, AgendaInv, HeardInv, CbrPending, KpiPending
    <3>5. BacklogInv'
      BY <3>1, <3>2, Zenon DEF CbrInv, BacklogInv
    <3>6. ReportInv'
      BY <3>1, <3>3, Zenon DEF CbrInv, ReportInv, ReportsAgree, CbrPending, KpiPending
    <3>. QED
      BY <3>4, <3>5, <3>6 DEF CbrInv
  <2>. QED
    BY <2>1, <2>2, <2>3, <2>4, <2>5, <2>6 DEF Next
<1>. QED
  BY <1>1, InitCbrInv, PTL DEF Spec

(* No deque holds an interval that started more than window, longest       *)
(* occupation and one sample step ago, although only the front is pruned   *)
(* and a UE may have stopped hearing anything: Prune of every sampler turn *)
(* looks at all deques.                                                    *)
THEOREM CbrBacklogBounded == Spec => []BacklogBounded
<1>1. CbrInv => BacklogBounded
  <2> SUFFICES ASSUME CbrInv, NEW n \in Nodes, NEW i \in DOMAIN busyIntervals[n]
               PROVE  busyIntervals[n][i].start >= now - Window - MaxDuration - Step
    BY DEF BacklogBounded
  <2>1. busyIntervals[n] \in Seq(Interval) /\ now \in Nat
    BY DEF CbrInv, DequeInv, Deque
  <2>2. i \in 1..Len(busyIntervals[n]) /\ busyIntervals[n][i] \in Interval
    BY <2>1, LenProperties, ElementOfSeq
  <2>3. PICK x \in Nat : x = busyIntervals[n][i].start
    BY <2>2 DEF Interval
  <2>4. x >= LastPrune - Window - MaxDuration
    BY <2>2, <2>3 DEF CbrInv, BacklogInv
  <2>5. LastPrune = now - Step \/ LastPrune = now - (now % Step)
    BY DEF LastPrune
  <2>6. now % Step \in Nat /\ now % Step < Step /\ Step \in Nat
    BY <2>1, LastSampler, CbrAssumption
  <2>7. Window \in Nat /\ MaxDuration \in Nat
    BY CbrAssumption
  <2>8. x >= now - Window - MaxDuration - Step
    BY <2>1, <2>4, <2>5, <2>6, <2>7
  <2>. QED
    BY <2>3, <2>8
<1>. QED
  BY <1>1, CbrInvariant, PTL

(* CBR file and KPI file never report different ratios for one instant:    *)
(* after the first sampler the pool has no turn left within the evaluation *)
(* period, and what a PHY reports in between does not count yet.           *)
THEOREM CbrReportsAgree == Spec => []ReportsAgree
<1>1. CbrInv => ReportsAgree
  BY DEF CbrInv, ReportInv
<1>. QED
  BY <1>1, CbrInvariant, PTL

(* The busy time computed for a UE is exactly the time within the window   *)
(* during which it heard the channel occupied, and the ratio is a ratio.   *)
THEOREM CbrBusyTimeExact == Spec => []BusyTimeExact
<1>1. CbrInv => BusyTimeExact
  <2> SUFFICES ASSUME CbrInv PROVE BusyTimeExact
    OBVIOUS
  <2>0. now \in Nat /\ counted \subseteq Nodes /\ IsFiniteSet(counted) /\ Window \in Nat
    <3>1. now \in Nat /\ counted \in SUBSET Nodes
      BY DEF CbrInv, DequeInv
    <3>. QED
      BY <3>1, FS_Subset, CbrAssumption
  <2>1. ASSUME NEW n \in Nodes
        PROVE  /\ BusyTime(busyIntervals[n], now) = Cardinality(OccupiedInstants(n))
               /\ BusyTime(busyIntervals[n], now) \in Nat
               /\ BusyTime(busyIntervals[n], now) <= Window
    <3>1. PICK d : d = busyIntervals[n]
      OBVIOUS
    <3>2. Deque(d, now)
      BY <3>1 DEF CbrInv, DequeInv
    <3>3. /\ BusyTime(d, now) = Cardinality({x \in InstantsBefore(now) :
               \E i \in 1..Len(d) : d[i].start <= x /\ x < d[i].end})
          /\ BusyTime(d, now) \in Nat /\ BusyTime(d, now) <= Window
      BY <2>0, <3>2, BusyTimeIsMeasure
    <3>4. ASSUME NEW x \in InstantsBefore(now)
          PROVE  (\E i \in 1..Len(d) : d[i].start <= x /\ x < d[i].end)
                   <=> \E h \in heard : h.node = n /\ h.iv.start <= x /\ x < h.iv.end
      <4>1. x \in Int /\ now - Window <= x
        BY <2>0, WindowFacts
      <4>2. ASSUME NEW i \in 1..Len(d), d[i].start <= x, x < d[i].end
            PROVE  \E h \in heard : h.node = n /\ h.iv.start <= x /\ x < h.iv.end
        <5>1. d[i].end \in Nat
          <6>1. d \in Seq(Interval)
            BY <3>2 DEF Deque
          <6>2. d[i] \in Interval
            BY <6>1, ElementOfSeq
          <6>. QED
            BY <6>2 DEF Interval
        <5>2. d[i].end > now - Window
          BY <2>0, <4>1, <4>2, <5>1
        <5>3. PICK h \in heard : h.node = n /\ h.iv = d[i]
          BY <3>1, <5>2, Zenon DEF CbrInv, HeardInv
        <5>. QED
          BY <4>2, <5>3, Zenon
      <4>3. ASSUME NEW h \in heard, h.node = n, h.iv.start <= x, x < h.iv.end
            PROVE  \E i \in 1..Len(d) : d[i].start <= x /\ x < d[i].end
        <5>1. PICK i \in 1..Len(d) : d[i] = h.iv
          BY <3>1, <4>3, Zenon DEF CbrInv, HeardInv
        <5>. QED
          BY <4>3, <5>1, Zenon
      <4>. QED
        BY <4>2, <4>3, Zenon
    <3>5. {x \in InstantsBefore(now) : \E i \in 1..Len(d) : d[i].start <= x /\ x < d[i].end}
            = OccupiedInstants(n)
      BY <3>4, Zenon DEF OccupiedInstants, InstantsBefore
    <3>. QED
      BY <3>1, <3>3, <3>5, Zenon
  <2> DEFINE b == [n \in Nodes |-> BusyTime(busyIntervals[n], now)]
             o == [n \in Nodes |-> Cardinality(OccupiedInstants(n))]
             cbr == ComputeChannelOccupiedCbr(busyIntervals)
  <2>2. b = o
    BY <2>1
  <2>3. cbr.busy = SumFunctionOnSet(b, counted) /\ cbr.of = Window * Cardinality(counted)
    BY DEF ComputeChannelOccupiedCbr
  <2>4. \A n \in counted : b[n] \in Int /\ b[n] <= Window
    BY <2>0, <2>1
  <2> HIDE DEF b, o, cbr
  <2>5. SumFunctionOnSet(b, counted) <= Window * Cardinality(counted)
    BY <2>0, <2>4, SumBound
  <2>6. cbr.busy <= cbr.of
    BY <2>3, <2>5, Zenon
  <2>7. cbr.busy = SumFunctionOnSet(o, counted)
    BY <2>2, <2>3, Zenon
  <2>. QED
    BY <2>1, <2>6, <2>7, Zenon DEF BusyTimeExact, cbr, o
<1>. QED
  BY <1>1, CbrInvariant, PTL

=============================================================================
