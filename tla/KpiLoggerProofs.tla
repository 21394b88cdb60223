--------------------------- MODULE KpiLoggerProofs --------------------------
(***************************************************************************)
(* Proofs about KpiLogger for every set of vehicles and nodes, window,     *)
(* evaluation period and number of CAMs: transmissions are identified by   *)
(* vehicle and sequence number, the duplicate filter holds exactly the     *)
(* receptions in the window, no reception is counted twice or credited to  *)
(* the wrong vehicle, a PIR value is the distance to the previous          *)
(* reception of the pair, and a sample counts exactly the transmissions of *)
(* its window, their opportunities and their receptions.                   *)
(*                                                                         *)
(* The argument goes from the pool to the logs.  A vehicle is lent one     *)
(* node, once (ServedInv), so the sequence counter of that node separates  *)
(* its transmissions (SentInv) and whoever was eligible then and is on the *)
(* pool now has not moved.  The filter may forget a reception only because *)
(* the transmission it answers has left the window before it (HeardInv):   *)
(* a copy that comes later finds no transmission.  With SentKept the log   *)
(* and the window of the history are in bijection, which the sums of a     *)
(* sample respect.                                                         *)
(***************************************************************************)
EXTENDS KpiLogger, UePoolProofs, SequenceTheorems, WellFoundedInduction

TxEvent == [time : Nat, tx : Vehicles, seq : Nat, eligible : SUBSET Vehicles]
RxEvent == [time : Nat, tx : Vehicles, rx : Vehicles, seq : Nat, pir : Int]
Sent    == [ev : TxEvent, where : [Vehicles -> Nodes \cup {NoNode}]]
Heard   == [ev : RxEvent, node : Nodes]

LogType ==
  /\ now \in Nat
  /\ nextKpiSequence \in [Nodes -> Nat]
  /\ \A p \in air : p.node \in Nodes /\ p.tx \in Vehicles /\ p.seq \in Nat
  /\ lastRxTimePerPair \in [Vehicles \X Vehicles -> Int]
  /\ allTx \subseteq Sent /\ allRx \subseteq Heard

ServedInv == \A v \in Vehicles : vehicleIdToNodeId[v] # NoNode => v \in served

(* A vehicle that is on the pool still has the node from which it sent and *)
(* on which it could hear.                                                 *)
SentInv ==
  \A t \in allTx :
    /\ t.ev.time <= now /\ t.ev.tx \in served
    /\ vehicleIdToNodeId[t.ev.tx] # NoNode =>
         t.ev.seq < nextKpiSequence[vehicleIdToNodeId[t.ev.tx]]
    /\ \A w \in t.ev.eligible :
         /\ w \in served
         /\ vehicleIdToNodeId[w] # NoNode => t.where[w] = vehicleIdToNodeId[w]

Ordered(d) == \A i, j \in 1..Len(d) : i <= j => d[i].time <= d[j].time

DistinctKeys(d) == \A i, j \in 1..Len(d) : TxKey(d[i]) = TxKey(d[j]) => i = j

DistinctTriples(d) == \A i, j \in 1..Len(d) : Triple(d[i]) = Triple(d[j]) => i = j

Triples(d) == {Triple(d[i]) : i \in 1..Len(d)}

(* The logs tx and rx and the filter against everything sent and heard.    *)
(* As long as a transmission is in the window, so are its receptions.      *)
LogOf(tx, rx, triples, sent, heard) ==
  /\ tx \in Seq(TxEvent) /\ Ordered(tx) /\ DistinctKeys(tx)
  /\ \A i \in 1..Len(tx) : \E t \in sent : t.ev = tx[i]
  /\ rx \in Seq(RxEvent) /\ DistinctTriples(rx) /\ triples = Triples(rx)
  /\ \A i \in 1..Len(rx) : \E r \in heard : r.ev = rx[i]
  /\ \A r \in heard : \A j \in 1..Len(tx) :
       TxKey(tx[j]) = TxKey(r.ev) =>
         tx[j].time <= r.ev.time /\ Triple(r.ev) \in triples

WindowInv == LogOf(txEvents, rxEvents, loggedRxTriples, allTx, allRx)

HeardInv == \A r \in allRx : r.ev.time <= now

SamePair(r, v, w) == r.ev.tx = v /\ r.ev.rx = w

LastInv ==
  \A v, w \in Vehicles :
    LET last == lastRxTimePerPair[<<v, w>>]
    IN  /\ \A r \in allRx : SamePair(r, v, w) => last # -1 /\ r.ev.time <= last
        /\ last # -1 => last \in Nat /\ \E r \in allRx : SamePair(r, v, w) /\ r.ev.time = last

(* PirExact, one reception at a time and without the set of times *)
PirRight(r, heard) ==
  LET other(s) == s \in heard /\ s # r /\ SamePair(s, r.ev.tx, r.ev.rx)
  IN  IF r.ev.pir = NoPir
      THEN \A s \in heard : other(s) => s.ev.time >= r.ev.time
      ELSE /\ \E s \in heard : other(s) /\ s.ev.time = r.ev.time - r.ev.pir
           /\ \A s \in heard : other(s) => ~(/\ r.ev.time - r.ev.pir < s.ev.time
                                             /\ s.ev.time < r.ev.time)

PirInv == \A r \in allRx : PirRight(r, allRx)

KpiInv ==
  /\ PoolInv /\ LogType /\ ServedInv /\ SentInv /\ WindowInv /\ HeardInv
  /\ CountedOnce /\ CreditedToListener /\ LastInv /\ PirInv

(* A key was used once, opportunities can be counted, and a transmission   *)
(* stays in the log until it is older than the window.                     *)
SentKept ==
  /\ \A t, u \in allTx : TxKey(t.ev) = TxKey(u.ev) => t = u
  /\ \A t \in allTx : IsFiniteSet(t.ev.eligible)
  /\ \A t \in allTx :
       t.ev.time >= now - KpiWindow => \E i \in 1..Len(txEvents) : txEvents[i] = t.ev

-----------------------------------------------------------------------------
(* Facts about data *)

(* The least number of a set is found by Min. *)
LEMMA MinIsLeast ==
  ASSUME NEW S, S \subseteq Nat, S # {}
  PROVE  Min(S) \in S /\ \A y \in S : Min(S) <= y
<1>1. PICK m \in S : \A y \in S : ~(<<y, m>> \in OpToRel(<, Nat))
  BY NatLessThanWellFounded, WFMin, Zenon
<1>2. ASSUME NEW y \in S PROVE m <= y
  <2>1. <<y, m>> \in Nat \X Nat /\ <<y, m>>[1] = y /\ <<y, m>>[2] = m
    OBVIOUS
  <2>2. ~(y < m)
    BY <1>1, <2>1, Zenon DEF OpToRel
  <2>. QED
    BY <2>2
<1>3. \E x \in S : \A y \in S : x <= y
  BY <1>2
<1>. QED
  BY <1>3, Zenon DEF Min

(* pop_front while the front is too old: m entries leave, all of them too  *)
(* old, and the next one, if there is one, is not.                         *)
LEMMA DropOldFacts ==
  ASSUME NEW S, NEW d \in Seq(S), NEW c \in Int, \A x \in S : x.time \in Nat
  PROVE  \E m \in 0..Len(d) :
           /\ DropOld(d, c) \in Seq(S) /\ Len(DropOld(d, c)) = Len(d) - m
           /\ \A i \in 1..(Len(d) - m) : DropOld(d, c)[i] = d[i + m]
           /\ \A i \in 1..m : d[i].time < c
           /\ m < Len(d) => d[m + 1].time >= c
<1> DEFINE keep == {i \in DOMAIN d : d[i].time >= c}
<1>1. /\ Len(d) \in Nat /\ DOMAIN d = 1..Len(d)
      /\ \A i \in 1..Len(d) : d[i] \in S /\ d[i].time \in Nat
  BY LenProperties, ElementOfSeq
<1>2. CASE keep = {}
  <2>1. DropOld(d, c) = <<>>
    BY <1>2 DEF DropOld
  <2>2. \A i \in 1..Len(d) : d[i].time < c
    BY <1>1, <1>2
  <2>3. Len(d) \in 0..Len(d) /\ Len(d) - Len(d) = 0 /\ ~(Len(d) < Len(d))
    BY <1>1
  <2>4. <<>> \in Seq(S) /\ Len(<<>>) = 0
    OBVIOUS
  <2>5. \A i \in 1..(Len(d) - Len(d)) : FALSE
    BY <1>1
  <2>. QED
    BY <2>1, <2>2, <2>3, <2>4, <2>5
<1>3. CASE keep # {}
  <2>1. Min(keep) \in keep /\ \A y \in keep : Min(keep) <= y
    <3>1. keep \subseteq Nat
      BY <1>1
    <3> HIDE DEF keep
    <3>. QED
      BY <1>3, <3>1, MinIsLeast
  <2>2. PICK k : k = Min(keep)
    OBVIOUS
  <2>3. /\ k \in 1..Len(d) /\ d[k].time >= c
        /\ \A i \in 1..Len(d) : d[i].time >= c => k <= i
    BY <1>1, <2>1, <2>2
  <2>4. DropOld(d, c) = SubSeq(d, k, Len(d))
    BY <1>3, <2>2 DEF DropOld
  <2>5. /\ SubSeq(d, k, Len(d)) \in Seq(S)
        /\ Len(SubSeq(d, k, Len(d))) = Len(d) - k + 1
        /\ \A i \in 1..(Len(d) - k + 1) : SubSeq(d, k, Len(d))[i] = d[k + i - 1]
    BY <1>1, <2>3, SubSeqProperties
  <2>6. PICK m \in 0..Len(d) : k = m + 1
    BY <1>1, <2>3
  <2>7. /\ DropOld(d, c) \in Seq(S) /\ Len(DropOld(d, c)) = Len(d) - m
    <3>1. Len(d) - k + 1 = Len(d) - m
      BY <1>1, <2>6
    <3>. QED
      BY <2>4, <2>5, <3>1
  <2>8. ASSUME NEW i \in 1..(Len(d) - m) PROVE DropOld(d, c)[i] = d[i + m]
    <3>1. i \in 1..(Len(d) - k + 1) /\ k + i - 1 = i + m
      BY <1>1, <2>6
    <3>. QED
      BY <2>4, <2>5, <3>1
  <2>9. ASSUME NEW i \in 1..m PROVE d[i].time < c
    <3>1. i \in 1..Len(d) /\ ~(k <= i) /\ d[i].time \in Nat
      BY <1>1, <2>6
    <3>. QED
      BY <2>3, <3>1
  <2>. QED
    BY <2>3, <2>6, <2>7, <2>8, <2>9
<1>. QED
  BY <1>2, <1>3

(* The j-th kept entry exists: counting the kept indices up to each is     *)
(* injective, so by its size it reaches every number.                      *)
LEMMA KeptFacts ==
  ASSUME NEW S, NEW d \in Seq(S), NEW K \in SUBSET (1..Len(d))
  PROVE  /\ Kept(d, K) \in Seq(S)
         /\ \E f \in Bijection(1..Cardinality(K), K) :
              Kept(d, K) = [j \in 1..Cardinality(K) |-> d[f[j]]]
<1> DEFINE upTo(i) == {k \in K : k <= i}
           n == Cardinality(K)
           rank == [i \in K |-> Cardinality(upTo(i))]
<1>1. /\ Len(d) \in Nat /\ \A i \in 1..Len(d) : d[i] \in S
      /\ IsFiniteSet(1..Len(d))
  BY FS_Interval, ElementOfSeq
<1>2. IsFiniteSet(K) /\ n \in Nat
  BY <1>1, FS_Subset, FS_CardinalityType
<1>3. ASSUME NEW i \in K
      PROVE  /\ IsFiniteSet(upTo(i)) /\ upTo(i) \subseteq K
             /\ Cardinality(upTo(i)) \in 1..n
  <2>1. upTo(i) \subseteq K /\ i \in upTo(i)
    BY <1>1
  <2>2. IsFiniteSet(upTo(i)) /\ Cardinality(upTo(i)) <= n
    BY <1>2, <2>1, FS_Subset
  <2>3. Cardinality(upTo(i)) \in Nat /\ Cardinality(upTo(i)) # 0
    BY <2>1, <2>2, FS_CardinalityType, FS_EmptySet
  <2>. QED
    BY <1>2, <2>1, <2>2, <2>3
<1>4. ASSUME NEW i \in K, NEW k \in K, i < k
      PROVE  Cardinality(upTo(i)) # Cardinality(upTo(k))
  <2>1. i \in 1..Len(d) /\ k \in 1..Len(d)
    OBVIOUS
  <2>2. upTo(i) \subseteq upTo(k) /\ upTo(i) # upTo(k)
    <3>1. \A x \in K : x \in Nat
      BY <1>1
    <3>2. ASSUME NEW x \in K, x <= i PROVE x <= k
      BY <1>4, <3>1, <3>2
    <3>3. k <= k /\ ~(k <= i)
      BY <1>4, <3>1
    <3>. QED
      BY <3>2, <3>3, Zenon
  <2>. QED
    BY <1>3, <2>2, FS_Subset
<1>5. \A i, k \in K : rank[i] = rank[k] => i = k
  <2> SUFFICES ASSUME NEW i \in K, NEW k \in K, i # k
               PROVE  Cardinality(upTo(i)) # Cardinality(upTo(k))
    OBVIOUS
  <2>1. i \in Nat /\ k \in Nat
    BY <1>1
  <2>. QED
    BY <1>4, <2>1
<1>6. rank \in [K -> 1..n]
  BY <1>3
<1> HIDE DEF upTo, n
<1>7. rank \in Injection(K, 1..n)
  BY <1>5, <1>6, Zenon DEF Injection, IsInjective
<1>8. IsFiniteSet(1..n) /\ Cardinality(1..n) = n
  BY <1>2, FS_Interval
<1>9. rank \in Surjection(K, 1..n)
  BY <1>7, <1>8, FS_Injection DEF n
<1>10. \A j \in 1..n : \E i \in K : Cardinality(upTo(i)) = j
  BY <1>9 DEF Surjection
<1> DEFINE f == [j \in 1..n |-> CHOOSE i \in K : Cardinality(upTo(i)) = j]
<1>11. ASSUME NEW j \in 1..n PROVE f[j] \in K /\ Cardinality(upTo(f[j])) = j
  BY <1>10
<1> HIDE DEF f
<1>12. f \in Bijection(1..n, K)
  <2>1. f \in [1..n -> K]
    BY <1>11 DEF f
  <2>2. \A j, l \in 1..n : f[j] = f[l] => j = l
    BY <1>11
  <2>3. \A i \in K : \E j \in 1..n : f[j] = i
    <3> SUFFICES ASSUME NEW i \in K PROVE f[rank[i]] = i
      BY <1>6
    <3>1. rank[i] \in 1..n
      BY <1>6
    <3>2. f[rank[i]] \in K /\ rank[f[rank[i]]] = rank[i]
      BY <1>11, <3>1
    <3>. QED
      BY <1>5, <3>2
  <2>. QED
    BY <2>1, <2>2, <2>3 DEF Bijection, Injection, Surjection, IsInjective
<1>13. Kept(d, K) = [j \in 1..n |-> d[f[j]]]
  BY DEF Kept, f, n, upTo
<1>14. Kept(d, K) \in Seq(S)
  <2>1. \A j \in 1..n : d[f[j]] \in S
    BY <1>1, <1>11
  <2>. QED
    BY <1>2, <1>13, <2>1, IsASeq
<1>. QED
  BY <1>12, <1>13, <1>14 DEF n

(* PruneOldEvents leaves a part of each log, in order; what is left of the *)
(* transmissions is in the window, a reception stays if it and its         *)
(* transmission are, and the filter is again the set of receptions.        *)
LEMMA PruneFacts ==
  ASSUME now \in Nat, NEW tx \in Seq(TxEvent), NEW rx \in Seq(RxEvent), NEW triples,
         Ordered(tx), DistinctKeys(tx), DistinctTriples(rx), triples = Triples(rx),
         PruneOldEvents(tx, rx, triples)
  PROVE  /\ txEvents' \in Seq(TxEvent) /\ rxEvents' \in Seq(RxEvent)
         /\ Ordered(txEvents') /\ DistinctKeys(txEvents')
         /\ \A i \in 1..Len(txEvents') :
              /\ \E k \in 1..Len(tx) : txEvents'[i] = tx[k]
              /\ txEvents'[i].time >= now - KpiWindow
         /\ DistinctTriples(rxEvents') /\ loggedRxTriples' = Triples(rxEvents')
         /\ \A i \in 1..Len(rxEvents') : \E k \in 1..Len(rx) : rxEvents'[i] = rx[k]
         /\ \A k \in 1..Len(rx) : \A j \in 1..Len(txEvents') :
              /\ rx[k].time >= now - KpiWindow
              /\ TxKey(rx[k]) = TxKey(txEvents'[j])
              => Triple(rx[k]) \in loggedRxTriples'
<1> DEFINE c == now - KpiWindow
           tx1 == DropOld(tx, c)
           rx1 == DropOld(rx, c)
           keys == {TxKey(tx1[i]) : i \in DOMAIN tx1}
           orphans == {i \in DOMAIN rx1 : TxKey(rx1[i]) \notin keys}
           K == DOMAIN rx1 \ orphans
           dropped == 1..(Len(rx) - Len(rx1))
           gone == {Triple(rx[i]) : i \in dropped} \cup {Triple(rx1[i]) : i \in orphans}
<1>1. /\ txEvents' = tx1 /\ rxEvents' = Kept(rx1, K)
      /\ loggedRxTriples' = triples \ gone
  BY DEF PruneOldEvents, Pruned
<1>2. /\ c \in Int /\ Len(tx) \in Nat /\ Len(rx) \in Nat
      /\ \A x \in TxEvent : x.time \in Nat
      /\ \A x \in RxEvent : x.time \in Nat
      /\ \A i \in 1..Len(tx) : tx[i].time \in Nat
      /\ \A i \in 1..Len(rx) : rx[i].time \in Nat
  <2>1. c \in Int
    BY KpiAssumption
  <2>2. /\ \A x \in TxEvent : x.time \in Nat
        /\ \A x \in RxEvent : x.time \in Nat
    BY DEF TxEvent, RxEvent
  <2>3. /\ Len(tx) \in Nat /\ Len(rx) \in Nat
        /\ \A i \in 1..Len(tx) : tx[i] \in TxEvent
        /\ \A i \in 1..Len(rx) : rx[i] \in RxEvent
    BY LenProperties, ElementOfSeq
  <2>. QED
    BY <2>1, <2>2, <2>3
<1> HIDE DEF c
<1>3. PICK m \in 0..Len(tx) :
        /\ tx1 \in Seq(TxEvent) /\ Len(tx1) = Len(tx) - m
        /\ \A i \in 1..(Len(tx) - m) : tx1[i] = tx[i + m]
        /\ \A i \in 1..m : tx[i].time < c
        /\ m < Len(tx) => tx[m + 1].time >= c
  BY <1>2, DropOldFacts
<1>4. PICK n \in 0..Len(rx) :
        /\ rx1 \in Seq(RxEvent) /\ Len(rx1) = Len(rx) - n
        /\ \A i \in 1..(Len(rx) - n) : rx1[i] = rx[i + n]
        /\ \A i \in 1..n : rx[i].time < c
        /\ n < Len(rx) => rx[n + 1].time >= c
  BY <1>2, DropOldFacts
<1> HIDE DEF tx1, rx1
<1>5. /\ DOMAIN tx1 = 1..(Len(tx) - m) /\ DOMAIN rx1 = 1..(Len(rx) - n)
      /\ dropped = 1..n
      /\ \A i \in 1..(Len(tx) - m) : i + m \in 1..Len(tx)
      /\ \A i \in 1..(Len(rx) - n) : i + n \in 1..Len(rx)
  BY <1>2, <1>3, <1>4
<1>6. \A i \in 1..Len(tx1) : (\E k \in 1..Len(tx) : tx1[i] = tx[k]) /\ tx1[i].time >= c
  <2> SUFFICES ASSUME NEW i \in 1..(Len(tx) - m)
               PROVE  (\E k \in 1..Len(tx) : tx1[i] = tx[k]) /\ tx1[i].time >= c
    BY <1>3
  <2>1. tx1[i] = tx[i + m] /\ i + m \in 1..Len(tx)
    BY <1>3, <1>5
  <2>2. m < Len(tx) /\ m + 1 \in 1..Len(tx) /\ m + 1 <= i + m
    BY <1>2
  <2>3. tx[m + 1].time <= tx[i + m].time /\ tx[m + 1].time >= c
    BY <1>3, <2>1, <2>2 DEF Ordered
  <2>4. tx[i + m].time >= c
    BY <1>2, <2>1, <2>2, <2>3
  <2>. QED
    BY <2>1, <2>4
<1>7. Ordered(tx1) /\ DistinctKeys(tx1)
  <2> SUFFICES ASSUME NEW i \in 1..(Len(tx) - m), NEW j \in 1..(Len(tx) - m)
               PROVE  /\ i <= j => tx1[i].time <= tx1[j].time
                      /\ TxKey(tx1[i]) = TxKey(tx1[j]) => i = j
    BY <1>3, Zenon DEF Ordered, DistinctKeys
  <2>1. /\ tx1[i] = tx[i + m] /\ i + m \in 1..Len(tx)
        /\ tx1[j] = tx[j + m] /\ j + m \in 1..Len(tx)
    BY <1>3, <1>5
  <2>2. (i <= j => i + m <= j + m) /\ (i + m = j + m => i = j)
    BY <1>2
  <2>. QED
    BY <2>1, <2>2, Zenon DEF Ordered, DistinctKeys
<1>8. K \in SUBSET (1..Len(rx1))
  BY <1>4, <1>5
<1>9. PICK f \in Bijection(1..Cardinality(K), K) :
        /\ Kept(rx1, K) \in Seq(RxEvent)
        /\ Kept(rx1, K) = [j \in 1..Cardinality(K) |-> rx1[f[j]]]
  BY <1>4, <1>8, KeptFacts, ZenonT(60)
<1> DEFINE q == Cardinality(K)
<1>10. /\ \A j \in 1..q : f[j] \in K
       /\ \A j, l \in 1..q : f[j] = f[l] => j = l
       /\ \A i \in K : \E j \in 1..q : f[j] = i
  BY <1>9, Zenon DEF Bijection, Injection, Surjection, IsInjective
<1>11. /\ rxEvents' \in Seq(RxEvent) /\ Len(rxEvents') = q
       /\ \A j \in 1..q : rxEvents'[j] = rx1[f[j]]
  <2>1. q \in Nat
    <3> HIDE DEF K, q
    <3>1. IsFiniteSet(1..Len(rx1))
      <4>1. Len(rx1) \in Nat
        BY <1>4, LenProperties
      <4>. QED
        BY <4>1, FS_Interval
    <3>2. IsFiniteSet(K)
      BY <1>8, <3>1, FS_Subset
    <3> USE DEF q
    <3>. QED
      BY <3>2, FS_CardinalityType
  <2> HIDE DEF q, K
  <2>2. rxEvents' \in Seq(RxEvent) /\ rxEvents' = [j \in 1..q |-> rx1[f[j]]]
    BY <1>1, <1>9 DEF q
  <2>3. DOMAIN rxEvents' = 1..q
    BY <2>2
  <2>4. Len(rxEvents') = q
    BY <2>1, <2>2, <2>3
  <2>. QED
    BY <2>2, <2>4
<1>12. ASSUME NEW i \in K
       PROVE  /\ rx1[i] = rx[i + n] /\ i + n \in 1..Len(rx) /\ TxKey(rx1[i]) \in keys
              /\ i \in Nat
  BY <1>4, <1>5
<1> HIDE DEF K, q
<1>13. DistinctTriples(rxEvents')
  <2> SUFFICES ASSUME NEW j \in 1..q, NEW l \in 1..q,
                      Triple(rxEvents'[j]) = Triple(rxEvents'[l])
               PROVE  j = l
    BY <1>11, Zenon DEF DistinctTriples
  <2>1. f[j] \in K /\ f[l] \in K /\ rxEvents'[j] = rx1[f[j]] /\ rxEvents'[l] = rx1[f[l]]
    BY <1>10, <1>11
  <2>2. Triple(rx[f[j] + n]) = Triple(rx[f[l] + n])
    BY <1>12, <2>1
  <2>3. f[j] + n = f[l] + n
    BY <1>12, <2>1, <2>2, Zenon DEF DistinctTriples
  <2>4. f[j] = f[l]
    BY <1>12, <2>1, <2>3
  <2>. QED
    BY <1>10, <2>4
<1>14. \A j \in 1..q : f[j] \in K /\ rxEvents'[j] = rx[f[j] + n] /\ f[j] + n \in 1..Len(rx)
  BY <1>10, <1>11, <1>12
<1>15. \A i \in 1..Len(rxEvents') : \E k \in 1..Len(rx) : rxEvents'[i] = rx[k]
  BY <1>11, <1>14, Zenon
<1>16. Triples(rxEvents') = {Triple(rx[i + n]) : i \in K}
  <2>1. Triples(rxEvents') = {Triple(rxEvents'[j]) : j \in 1..q}
    BY <1>11, Zenon DEF Triples
  <2>2. \A j \in 1..q : Triple(rxEvents'[j]) = Triple(rx[f[j] + n]) /\ f[j] \in K
    BY <1>14, Zenon
  <2>3. \A i \in K : \E j \in 1..q : Triple(rx[i + n]) = Triple(rxEvents'[j])
    BY <1>10, <2>2, Zenon
  <2>4. \A i \in K : Triple(rx[i + n]) \in Triples(rxEvents')
    BY <2>1, <2>3, Zenon
  <2>5. \A x \in Triples(rxEvents') : \E i \in K : x = Triple(rx[i + n])
    BY <2>1, <2>2, Zenon
  <2>. QED
    BY <2>4, <2>5, Zenon
<1>17. ASSUME NEW k \in 1..Len(rx)
       PROVE  Triple(rx[k]) \notin gone <=> k - n \in K
  <2>1. CASE k \in 1..n
    <3>1. Triple(rx[k]) \in gone
      BY <1>5, <2>1
    <3>2. k - n \notin K
      BY <1>5, <2>1 DEF K
    <3>. QED
      BY <3>1, <3>2
  <2>2. CASE k \notin 1..n
    <3>1. PICK i \in 1..(Len(rx) - n) : k = i + n /\ i = k - n
      BY <1>2, <2>2
    <3>2. rx1[i] = rx[k] /\ i \in DOMAIN rx1
      BY <1>4, <1>5, <3>1
    <3>3. CASE i \in orphans
      <4>1. Triple(rx[k]) \in gone
        BY <3>2, <3>3
      <4>. QED
        BY <3>1, <3>3, <4>1 DEF K
    <3>4. CASE i \notin orphans
      <4>1. ASSUME NEW l \in dropped PROVE Triple(rx[k]) # Triple(rx[l])
        <5>1. l \in 1..n /\ l \in 1..Len(rx) /\ l # k
          BY <1>2, <1>5, <2>2
        <5>. QED
          BY <5>1, Zenon DEF DistinctTriples
      <4>2. ASSUME NEW o \in orphans PROVE Triple(rx[k]) # Triple(rx1[o])
        <5>1. rx1[o] = rx[o + n] /\ o + n \in 1..Len(rx) /\ o \in Nat
          BY <1>4, <1>5
        <5>2. o + n # k
          BY <3>1, <3>4, <5>1
        <5>. QED
          BY <5>1, <5>2, Zenon DEF DistinctTriples
      <4>3. Triple(rx[k]) \notin gone
        BY <4>1, <4>2
      <4>4. k - n \in K
        BY <3>1, <3>2, <3>4 DEF K
      <4>. QED
        BY <4>3, <4>4
    <3>. QED
      BY <3>3, <3>4
  <2>. QED
    BY <2>1, <2>2
<1>18. ASSUME NEW i \in K PROVE (i + n) - n = i
  BY <1>12
<1> HIDE DEF gone
<1>19. loggedRxTriples' = Triples(rxEvents')
  <2>1. loggedRxTriples' = {Triple(rx[k]) : k \in 1..Len(rx)} \ gone
    BY <1>1, Zenon DEF Triples
  <2>2. \A i \in K : i + n \in 1..Len(rx) /\ Triple(rx[i + n]) \notin gone
    BY <1>12, <1>17, <1>18
  <2>3. \A k \in 1..Len(rx) : Triple(rx[k]) \notin gone => \E i \in K : k = i + n
    <3> SUFFICES ASSUME NEW k \in 1..Len(rx), k - n \in K
                 PROVE  k = (k - n) + n
      BY <1>17
    <3>. QED
      BY <1>2
  <2>. QED
    BY <1>16, <2>1, <2>2, <2>3, Zenon
<1>20. ASSUME NEW k \in 1..Len(rx), NEW j \in 1..Len(txEvents'),
              rx[k].time >= c, TxKey(rx[k]) = TxKey(txEvents'[j])
       PROVE  Triple(rx[k]) \in loggedRxTriples'
  <2>1. k \notin 1..n
    <3>1. rx[k].time \in Nat /\ ~(rx[k].time < c)
      BY <1>2, <1>20
    <3>. QED
      BY <1>4, <3>1
  <2>2. PICK i \in 1..(Len(rx) - n) : k = i + n /\ i = k - n
    <3>1. k \in Nat /\ n \in Nat /\ k > n /\ k <= Len(rx)
      BY <1>2, <2>1
    <3>2. k - n \in 1..(Len(rx) - n) /\ k = (k - n) + n
      BY <1>2, <3>1
    <3>. QED
      BY <3>2, Zenon
  <2>3. rx1[i] = rx[k] /\ i \in DOMAIN rx1
    BY <1>4, <1>5, <2>2
  <2>4. TxKey(rx1[i]) \in keys
    BY <1>1, <1>3, <1>5, <1>20, <2>3
  <2>5. k - n \in K
    BY <2>2, <2>3, <2>4 DEF K
  <2>6. Triple(rx[k]) \notin gone /\ Triple(rx[k]) \in triples
    BY <1>17, <2>5, Zenon DEF Triples
  <2>. QED
    BY <1>1, <2>6
<1>21. c = now - KpiWindow
  BY DEF c
<1>22. /\ txEvents' \in Seq(TxEvent) /\ Ordered(txEvents') /\ DistinctKeys(txEvents')
       /\ \A i \in 1..Len(txEvents') :
            /\ \E k \in 1..Len(tx) : txEvents'[i] = tx[k]
            /\ txEvents'[i].time >= now - KpiWindow
  BY <1>1, <1>3, <1>6, <1>7, <1>21, Zenon
<1>. QED
  BY <1>11, <1>13, <1>15, <1>19, <1>20, <1>21, <1>22, Zenon

(* What is sent and heard does not change when the logs are pruned, and    *)
(* the logs keep describing it.                                            *)
LEMMA PruneKeepsLog ==
  ASSUME now \in Nat, NEW tx, NEW rx, NEW triples, NEW sent, NEW heard,
         heard \subseteq Heard,
         \A r, s \in heard : Triple(r.ev) = Triple(s.ev) => r = s,
         LogOf(tx, rx, triples, sent, heard), PruneOldEvents(tx, rx, triples)
  PROVE  LogOf(txEvents', rxEvents', loggedRxTriples', sent, heard)
<1> DEFINE c == now - KpiWindow
<1>1. /\ txEvents' \in Seq(TxEvent) /\ rxEvents' \in Seq(RxEvent)
      /\ Ordered(txEvents') /\ DistinctKeys(txEvents')
      /\ \A i \in 1..Len(txEvents') :
           (\E k \in 1..Len(tx) : txEvents'[i] = tx[k]) /\ txEvents'[i].time >= c
      /\ DistinctTriples(rxEvents') /\ loggedRxTriples' = Triples(rxEvents')
      /\ \A i \in 1..Len(rxEvents') : \E k \in 1..Len(rx) : rxEvents'[i] = rx[k]
      /\ \A k \in 1..Len(rx) : \A j \in 1..Len(txEvents') :
           rx[k].time >= c /\ TxKey(rx[k]) = TxKey(txEvents'[j])
           => Triple(rx[k]) \in loggedRxTriples'
  BY PruneFacts, Zenon DEF LogOf
<1>2. ASSUME NEW i \in 1..Len(txEvents') PROVE \E t \in sent : t.ev = txEvents'[i]
  <2>1. PICK k \in 1..Len(tx) : txEvents'[i] = tx[k]
    BY <1>1, Zenon
  <2>2. PICK t \in sent : t.ev = tx[k]
    BY Zenon DEF LogOf
  <2>. QED
    BY <2>1, <2>2, Zenon
<1>3. ASSUME NEW i \in 1..Len(rxEvents') PROVE \E r \in heard : r.ev = rxEvents'[i]
  <2>1. PICK k \in 1..Len(rx) : rxEvents'[i] = rx[k]
    BY <1>1, Zenon
  <2>2. PICK r \in heard : r.ev = rx[k]
    BY Zenon DEF LogOf
  <2>. QED
    BY <2>1, <2>2, Zenon
<1>4. ASSUME NEW r \in heard, NEW j \in 1..Len(txEvents'),
             TxKey(txEvents'[j]) = TxKey(r.ev)
      PROVE  txEvents'[j].time <= r.ev.time /\ Triple(r.ev) \in loggedRxTriples'
  <2>1. PICK k \in 1..Len(tx) : txEvents'[j] = tx[k]
    BY <1>1, Zenon
  <2>2. tx[k].time <= r.ev.time /\ Triple(r.ev) \in triples
    BY <1>4, <2>1, Zenon DEF LogOf
  <2>3. PICK l \in 1..Len(rx) : Triple(r.ev) = Triple(rx[l])
    BY <2>2, Zenon DEF LogOf, Triples
  <2>4. PICK s \in heard : s.ev = rx[l]
    BY Zenon DEF LogOf
  <2>5. rx[l] = r.ev
    BY <2>3, <2>4, Zenon
  <2>6. txEvents'[j].time >= c /\ txEvents'[j].time <= r.ev.time
    BY <1>1, <2>1, <2>2
  <2>7. r.ev.time >= c
    <3>1. txEvents'[j] \in TxEvent
      BY <1>1, ElementOfSeq
    <3>2. txEvents'[j].time \in Nat /\ r.ev.time \in Nat /\ c \in Int
      BY <3>1, KpiAssumption, SMTT(30) DEF TxEvent, Heard, RxEvent
    <3> HIDE DEF c
    <3>. QED
      BY <2>6, <3>2
  <2>8. Triple(rx[l]) \in loggedRxTriples'
    BY <1>1, <1>4, <2>5, <2>7, Zenon
  <2>. QED
    BY <2>5, <2>6, <2>8, Zenon
<1>. QED
  BY <1>1, <1>2, <1>3, <1>4, Zenon DEF LogOf

(* The entries after push_back *)
LEMMA AppendFacts ==
  ASSUME NEW S, NEW d \in Seq(S), NEW e \in S
  PROVE  /\ Append(d, e) \in Seq(S) /\ Len(d) \in Nat
         /\ Len(Append(d, e)) = Len(d) + 1
         /\ Append(d, e)[Len(d) + 1] = e /\ Len(d) + 1 \in 1..Len(Append(d, e))
         /\ \A i \in 1..Len(d) : i \in 1..Len(Append(d, e)) /\ Append(d, e)[i] = d[i]
         /\ \A i \in 1..Len(Append(d, e)) :
              \/ i \in 1..Len(d)
              \/ i = Len(d) + 1
<1>1. /\ Append(d, e) \in Seq(S) /\ Len(d) \in Nat /\ Len(Append(d, e)) = Len(d) + 1
      /\ \A i \in 1..Len(d) : Append(d, e)[i] = d[i]
      /\ Append(d, e)[Len(d) + 1] = e
  BY AppendProperties, LenProperties
<1>. QED
  BY <1>1

(* m_txEvents.push_back of a transmission with a new key *)
LEMMA LogAppendTx ==
  ASSUME NEW tx, NEW rx, NEW triples, NEW sent, NEW heard, NEW t,
         LogOf(tx, rx, triples, sent, heard), t.ev \in TxEvent,
         \A i \in 1..Len(tx) : tx[i].time <= t.ev.time /\ TxKey(tx[i]) # TxKey(t.ev),
         \A r \in heard : TxKey(r.ev) # TxKey(t.ev)
  PROVE  LogOf(Append(tx, t.ev), rx, triples, sent \cup {t}, heard)
<1> DEFINE a == Append(tx, t.ev)
           n == Len(tx)
<1>1. /\ a \in Seq(TxEvent) /\ n \in Nat /\ Len(a) = n + 1
      /\ a[n + 1] = t.ev
      /\ \A i \in 1..n : a[i] = tx[i]
      /\ \A i \in 1..Len(a) : i \in 1..n \/ i = n + 1
  <2>1. tx \in Seq(TxEvent)
    BY Zenon DEF LogOf
  <2>. QED
    BY <2>1, AppendFacts
<1> HIDE DEF a, n
<1>2. \A i \in 1..n : i <= n + 1 /\ ~(n + 1 <= i)
  BY <1>1
<1>3. t.ev.time <= t.ev.time
  BY DEF TxEvent
<1>4. Ordered(a)
  BY <1>1, <1>2, <1>3, Zenon DEF LogOf, Ordered, n
<1>5. DistinctKeys(a)
  <2> SUFFICES ASSUME NEW i \in 1..Len(a), NEW j \in 1..Len(a), TxKey(a[i]) = TxKey(a[j])
               PROVE  i = j
    BY Zenon DEF DistinctKeys
  <2>1. CASE i \in 1..n /\ j \in 1..n
    BY <1>1, <2>1, Zenon DEF LogOf, DistinctKeys, n
  <2>2. CASE i = n + 1 /\ j = n + 1
    BY <2>2
  <2>3. CASE i \in 1..n /\ j = n + 1
    BY <1>1, <2>3, Zenon DEF n
  <2>4. CASE i = n + 1 /\ j \in 1..n
    BY <1>1, <2>4, Zenon DEF n
  <2>. QED
    BY <1>1, <2>1, <2>2, <2>3, <2>4, Zenon
<1>6. \A i \in 1..Len(a) : \E x \in sent \cup {t} : x.ev = a[i]
  BY <1>1, Zenon DEF LogOf, n
<1>7. \A r \in heard : \A j \in 1..Len(a) :
        TxKey(a[j]) = TxKey(r.ev) =>
          a[j].time <= r.ev.time /\ Triple(r.ev) \in triples
  BY <1>1, Zenon DEF LogOf, n
<1>. QED
  BY <1>1, <1>4, <1>5, <1>6, <1>7, Zenon DEF LogOf, a

(* m_rxEvents.push_back of the first copy, with its triple *)
LEMMA LogAppendRx ==
  ASSUME NEW tx, NEW rx, NEW triples, NEW sent, NEW heard, NEW r,
         LogOf(tx, rx, triples, sent, heard), r.ev \in RxEvent,
         Triple(r.ev) \notin triples,
         \A i \in 1..Len(tx) : tx[i].time <= r.ev.time
  PROVE  LogOf(tx, Append(rx, r.ev), triples \cup {Triple(r.ev)}, sent, heard \cup {r})
<1> DEFINE a == Append(rx, r.ev)
           n == Len(rx)
<1>1. /\ a \in Seq(RxEvent) /\ n \in Nat /\ Len(a) = n + 1
      /\ a[n + 1] = r.ev /\ n + 1 \in 1..Len(a)
      /\ \A i \in 1..n : i \in 1..Len(a) /\ a[i] = rx[i]
      /\ \A i \in 1..Len(a) : i \in 1..n \/ i = n + 1
  <2>1. rx \in Seq(RxEvent)
    BY Zenon DEF LogOf
  <2>. QED
    BY <2>1, AppendFacts
<1> HIDE DEF a, n
<1>2. \A i \in 1..n : Triple(rx[i]) \in triples
  BY Zenon DEF LogOf, Triples, n
<1>3. DistinctTriples(a)
  <2> SUFFICES ASSUME NEW i \in 1..Len(a), NEW j \in 1..Len(a), Triple(a[i]) = Triple(a[j])
               PROVE  i = j
    BY Zenon DEF DistinctTriples
  <2>1. CASE i \in 1..n /\ j \in 1..n
    BY <1>1, <2>1, Zenon DEF LogOf, DistinctTriples, n
  <2>2. CASE i = n + 1 /\ j = n + 1
    BY <2>2
  <2>3. CASE i \in 1..n /\ j = n + 1
    BY <1>1, <1>2, <2>3, Zenon DEF n
  <2>4. CASE i = n + 1 /\ j \in 1..n
    BY <1>1, <1>2, <2>4, Zenon DEF n
  <2>. QED
    BY <1>1, <2>1, <2>2, <2>3, <2>4, Zenon
<1>4. triples \cup {Triple(r.ev)} = Triples(a)
  <2>1. \A x \in triples : x \in Triples(a)
    BY <1>1, Zenon DEF LogOf, Triples, n
  <2>2. Triple(r.ev) \in Triples(a)
    BY <1>1, Zenon DEF Triples
  <2>3. \A x \in Triples(a) : x \in triples \/ x = Triple(r.ev)
    BY <1>1, <1>2, Zenon DEF Triples
  <2>. QED
    BY <2>1, <2>2, <2>3, Zenon
<1>5. \A i \in 1..Len(a) : \E x \in heard \cup {r} : x.ev = a[i]
  BY <1>1, Zenon DEF LogOf, n
<1>6. \A x \in heard \cup {r} : \A j \in 1..Len(tx) :
        TxKey(tx[j]) = TxKey(x.ev) =>
          tx[j].time <= x.ev.time /\ Triple(x.ev) \in triples \cup {Triple(r.ev)}
  BY Zenon DEF LogOf
<1>. QED
  BY <1>1, <1>3, <1>4, <1>5, <1>6, Zenon DEF LogOf, a

-----------------------------------------------------------------------------
(* PirInv says of the receptions what PirExact says of the set of times. *)
LEMMA PirInvIsPirExact == PirInv <=> PirExact
<1> DEFINE Others(r) == {s.ev.time : s \in {q \in allRx \ {r} : /\ q.ev.tx = r.ev.tx
                                                               /\ q.ev.rx = r.ev.rx}}
           Right(r) == IF r.ev.pir = NoPir
                       THEN \A u \in Others(r) : u >= r.ev.time
                       ELSE /\ r.ev.time - r.ev.pir \in Others(r)
                            /\ \A u \in Others(r) :
                                 ~(r.ev.time - r.ev.pir < u /\ u < r.ev.time)
<1>1. PirExact <=> \A r \in allRx : Right(r)
  BY Zenon DEF PirExact
<1>2. ASSUME NEW r \in allRx PROVE Right(r) <=> PirRight(r, allRx)
  <2>1. CASE r.ev.pir = NoPir
    BY <2>1, Zenon DEF PirRight, SamePair
  <2>2. CASE r.ev.pir # NoPir
    <3>1. r.ev.time - r.ev.pir \in Others(r) <=>
            \E s \in allRx : /\ s # r /\ SamePair(s, r.ev.tx, r.ev.rx)
                             /\ s.ev.time = r.ev.time - r.ev.pir
      BY Zenon DEF SamePair
    <3>2. (\A u \in Others(r) : ~(r.ev.time - r.ev.pir < u /\ u < r.ev.time)) <=>
            \A s \in allRx : s # r /\ SamePair(s, r.ev.tx, r.ev.rx) =>
               ~(r.ev.time - r.ev.pir < s.ev.time /\ s.ev.time < r.ev.time)
      BY Zenon DEF SamePair
    <3>. QED
      BY <2>2, <3>1, <3>2, Zenon DEF PirRight
  <2>. QED
    BY <2>1, <2>2, Zenon
<1>. QED
  BY <1>1, <1>2, Zenon DEF PirInv

LEMMA InitKpiInv == KpiInit => KpiInv
<1> SUFFICES ASSUME KpiInit PROVE KpiInv
  OBVIOUS
<1>1. PoolInv
  BY InitPoolInv DEF KpiInit
<1>2. LogType
  BY DEF KpiInit, LogType
<1>3. ServedInv
  BY DEF KpiInit, ServedInv, Init
<1>4. SentInv /\ HeardInv /\ CountedOnce /\ CreditedToListener /\ PirInv
  BY Zenon DEF KpiInit, SentInv, HeardInv, CountedOnce, CreditedToListener, PirInv
<1>5. WindowInv
  <2>1. /\ txEvents = <<>> /\ rxEvents = <<>> /\ loggedRxTriples = {}
        /\ allTx = {} /\ allRx = {}
    BY DEF KpiInit
  <2>2. <<>> \in Seq(TxEvent) /\ <<>> \in Seq(RxEvent) /\ \A i \in 1..Len(<<>>) : FALSE
    OBVIOUS
  <2>3. Triples(<<>>) = {}
    BY <2>2, Zenon DEF Triples
  <2>. QED
    BY <2>1, <2>2, <2>3, Zenon
    DEF WindowInv, LogOf, Ordered, DistinctKeys, DistinctTriples
<1>6. LastInv
  <2>1. allRx = {} /\ \A v, w \in Vehicles : lastRxTimePerPair[<<v, w>>] = -1
    BY DEF KpiInit
  <2>. QED
    BY <2>1, Zenon DEF LastInv
<1>. QED
  BY <1>1, <1>2, <1>3, <1>4, <1>5, <1>6, Zenon DEF KpiInv

(* A step of the pool moves no vehicle that has been served: it may leave, *)
(* and a vehicle that enters has not been there before.                    *)
LEMMA PoolStepMaps ==
  ASSUME PoolInv, ServedInv, PoolStep
  PROVE  /\ [Next]_vars /\ served \subseteq served' /\ ServedInv'
         /\ \A v \in served \cap Vehicles :
              \/ vehicleIdToNodeId'[v] = vehicleIdToNodeId[v]
              \/ vehicleIdToNodeId'[v] = NoNode
<1>0. vehicleIdToNodeId \in [Vehicles -> Nodes \cup {NoNode}]
  BY DEF PoolInv, TypeOK
<1>1. CASE \E v \in Vehicles \ served : AssignVehicleToPool(v) /\ served' = served \cup {v}
  <2>1. PICK v \in Vehicles \ served : AssignVehicleToPool(v) /\ served' = served \cup {v}
    BY <1>1
  <2>2. Next
    BY <2>1 DEF Next
  <2>3. \A w \in Vehicles : w # v => vehicleIdToNodeId'[w] = vehicleIdToNodeId[w]
    <3>1. CASE UNCHANGED vehicleIdToNodeId
      BY <3>1
    <3>2. CASE AssignToFrontNode(v)
      <4>1. vehicleIdToNodeId' = [vehicleIdToNodeId EXCEPT ![v] = Head(freePoolNodeIds)]
        BY <3>2 DEF AssignToFrontNode
      <4>. QED
        BY <1>0, <4>1
    <3>. QED
      BY <2>1, <3>1, <3>2 DEF AssignVehicleToPool, Abort, poolVars
  <2>. QED
    BY <2>1, <2>2, <2>3 DEF ServedInv
<1>2. CASE /\ UNCHANGED served
           /\ \/ \E v \in Vehicles : appsCreated /\ ReleaseVehicleFromPool(v)
              \/ CreateApplications
              \/ \E n \in Nodes : StartApplication(n)
  <2>1. Next
    BY <1>2, Zenon DEF Next
  <2>2. ASSUME NEW w \in Vehicles
        PROVE  vehicleIdToNodeId'[w] = vehicleIdToNodeId[w] \/ vehicleIdToNodeId'[w] = NoNode
    <3>1. CASE UNCHANGED vehicleIdToNodeId
      BY <3>1
    <3>2. ASSUME NEW v \in Vehicles, ReturnNode(v)
          PROVE  vehicleIdToNodeId'[w] = vehicleIdToNodeId[w] \/ vehicleIdToNodeId'[w] = NoNode
      <4>1. vehicleIdToNodeId' = [vehicleIdToNodeId EXCEPT ![v] = NoNode]
        BY <3>2 DEF ReturnNode
      <4>. QED
        BY <1>0, <4>1
    <3>. QED
      BY <1>2, <3>1, <3>2
      DEF ReleaseVehicleFromPool, CreateApplications, StartApplication, vars, poolVars
  <2>. QED
    BY <1>2, <2>1, <2>2 DEF ServedInv
<1>. QED
  BY <1>1, <1>2, Zenon DEF PoolStep

(* The parts of the invariant that only read the logs and the history *)
LEMMA LogsUnchanged ==
  ASSUME KpiInv, now \in Nat, now' \in Nat, now <= now',
         UNCHANGED <<nextKpiSequence, air, logVars, histVars>>
  PROVE  /\ LogType' /\ WindowInv' /\ HeardInv' /\ CountedOnce' /\ CreditedToListener'
         /\ LastInv' /\ PirInv'
<1>1. /\ nextKpiSequence' = nextKpiSequence /\ air' = air /\ allTx' = allTx /\ allRx' = allRx
      /\ txEvents' = txEvents /\ rxEvents' = rxEvents /\ loggedRxTriples' = loggedRxTriples
      /\ lastRxTimePerPair' = lastRxTimePerPair
  BY DEF logVars, histVars
<1>2. LogType' /\ HeardInv'
  <2>1. \A r \in allRx : r.ev.time \in Nat
    BY DEF KpiInv, LogType, Heard, RxEvent
  <2>2. HeardInv'
    BY <1>1, <2>1 DEF KpiInv, HeardInv
  <2>. QED
    BY <1>1, <2>2 DEF KpiInv, LogType
<1>3. WindowInv' /\ CountedOnce' /\ CreditedToListener'
  BY <1>1, Zenon DEF KpiInv, WindowInv, CountedOnce, CreditedToListener
<1>4. LastInv' /\ PirInv'
  BY <1>1, Zenon DEF KpiInv, LastInv, PirInv
<1>. QED
  BY <1>2, <1>3, <1>4

LEMMA PoolStepKeepsKpiInv == ASSUME KpiInv, PoolStep PROVE KpiInv'
<1>1. PoolInv' /\ ServedInv'
  BY PoolStepMaps, NextPreservesPoolInv DEF KpiInv
<1>2. /\ now' = now /\ now \in Nat /\ nextKpiSequence' = nextKpiSequence /\ allTx' = allTx
      /\ UNCHANGED <<nextKpiSequence, air, logVars, histVars>>
  BY DEF KpiInv, LogType, PoolStep, histVars
<1>3. /\ LogType' /\ WindowInv' /\ HeardInv' /\ CountedOnce' /\ CreditedToListener'
      /\ LastInv' /\ PirInv'
  BY <1>2, LogsUnchanged
<1>4. SentInv'
  <2> SUFFICES ASSUME NEW t \in allTx
               PROVE  /\ t.ev.time <= now /\ t.ev.tx \in served'
                      /\ vehicleIdToNodeId'[t.ev.tx] # NoNode =>
                           t.ev.seq < nextKpiSequence[vehicleIdToNodeId'[t.ev.tx]]
                      /\ \A w \in t.ev.eligible :
                           /\ w \in served'
                           /\ vehicleIdToNodeId'[w] # NoNode =>
                                t.where[w] = vehicleIdToNodeId'[w]
    BY <1>2, Zenon DEF SentInv
  <2>1. t.ev.tx \in Vehicles /\ t.ev.eligible \subseteq Vehicles
    BY DEF KpiInv, LogType, Sent, TxEvent
  <2>2. \A v \in served \cap Vehicles :
          /\ v \in served'
          /\ \/ vehicleIdToNodeId'[v] = vehicleIdToNodeId[v]
             \/ vehicleIdToNodeId'[v] = NoNode
    BY PoolStepMaps DEF KpiInv
  <2>. QED
    BY <2>1, <2>2, Zenon DEF KpiInv, SentInv
<1>. QED
  BY <1>1, <1>3, <1>4, Zenon DEF KpiInv

LEMMA TickKeepsKpiInv == ASSUME KpiInv, Tick PROVE KpiInv'
<1>1. /\ now \in Nat /\ now' = now + 1 /\ UNCHANGED vars /\ served' = served
      /\ UNCHANGED <<nextKpiSequence, air, logVars, histVars>>
      /\ nextKpiSequence' = nextKpiSequence /\ allTx' = allTx
      /\ vehicleIdToNodeId' = vehicleIdToNodeId
  BY DEF KpiInv, LogType, Tick, histVars, vars, poolVars
<1>2. PoolInv'
  BY <1>1, NextPreservesPoolInv DEF KpiInv
<1>3. /\ LogType' /\ WindowInv' /\ HeardInv' /\ CountedOnce' /\ CreditedToListener'
      /\ LastInv' /\ PirInv'
  BY <1>1, LogsUnchanged
<1>4. ServedInv'
  BY <1>1 DEF KpiInv, ServedInv
<1>5. SentInv'
  <2>1. \A t \in allTx : t.ev.time <= now'
    <3>1. \A t \in allTx : t.ev.time \in Nat
      BY DEF KpiInv, LogType, Sent, TxEvent
    <3>. QED
      BY <1>1, <3>1 DEF KpiInv, SentInv
  <2>. QED
    BY <1>1, <2>1, Zenon DEF KpiInv, SentInv
<1>. QED
  BY <1>2, <1>3, <1>4, <1>5, Zenon DEF KpiInv

LEMMA SampleKeepsKpiInv == ASSUME KpiInv, SampleAndWrite PROVE KpiInv'
<1>1. /\ now' = now /\ now \in Nat /\ UNCHANGED vars /\ served' = served /\ air' = air
      /\ nextKpiSequence' = nextKpiSequence /\ allTx' = allTx /\ allRx' = allRx
      /\ lastRxTimePerPair' = lastRxTimePerPair
      /\ vehicleIdToNodeId' = vehicleIdToNodeId
      /\ PruneOldEvents(txEvents, rxEvents, loggedRxTriples)
  BY DEF KpiInv, LogType, SampleAndWrite, histVars, vars, poolVars
<1>2. PoolInv'
  BY <1>1, NextPreservesPoolInv DEF KpiInv
<1>3. LogType' /\ ServedInv'
  BY <1>1 DEF KpiInv, LogType, ServedInv
<1>4. SentInv' /\ HeardInv' /\ CountedOnce' /\ CreditedToListener'
  BY <1>1, Zenon DEF KpiInv, SentInv, HeardInv, CountedOnce, CreditedToListener
<1>5. LastInv' /\ PirInv'
  BY <1>1, Zenon DEF KpiInv, LastInv, PirInv
<1>6. WindowInv'
  <2>1. LogOf(txEvents', rxEvents', loggedRxTriples', allTx, allRx)
    <3>1. allRx \subseteq Heard /\ \A r, s \in allRx : Triple(r.ev) = Triple(s.ev) => r = s
      BY Zenon DEF KpiInv, LogType, CountedOnce
    <3>. QED
      BY <1>1, <3>1, PruneKeepsLog, Zenon DEF KpiInv, WindowInv
  <2>. QED
    BY <1>1, <2>1, Zenon DEF WindowInv
<1>. QED
  BY <1>2, <1>3, <1>4, <1>5, <1>6, Zenon DEF KpiInv

(* A node whose application has a vehicle carries that vehicle in both     *)
(* maps.                                                                   *)
LEMMA OccupantOfNode ==
  ASSUME PoolInv, NEW n \in Nodes, appState[n] = "running",
         assignedVehicleId[n] # NoVehicle
  PROVE  /\ assignedVehicleId[n] \in Vehicles
         /\ nodeIdToVehicleId[n] = assignedVehicleId[n]
         /\ vehicleIdToNodeId[assignedVehicleId[n]] = n
         /\ n # NoNode
<1>1. appsCreated
  BY DEF PoolInv, AppsIdleBeforeCreation
<1>2. assignedVehicleId[n] \in Vehicles /\ nodeIdToVehicleId[n] = assignedVehicleId[n]
  BY <1>1 DEF PoolInv, TypeOK, LayersAgree
<1>. QED
  BY <1>2, PoolAssumption DEF PoolInv, MappingsInverse

(* Whoever LogTx may count as an opportunity is on the pool. *)
LEMMA CandidatesOnPool ==
  ASSUME PoolInv, NEW v, NEW n, NEW w \in Candidates(v, n)
  PROVE  w \in Vehicles /\ vehicleIdToNodeId[w] # NoNode
<1>1. PICK m \in Nodes : w = nodeIdToVehicleId[m] /\ nodeIdToVehicleId[m] # NoVehicle
  BY DEF Candidates, ResolveVehicleIdForNode, IsNodeActive
<1>2. w \in Vehicles
  BY <1>1 DEF PoolInv, TypeOK
<1>3. vehicleIdToNodeId[w] = m
  BY <1>1, <1>2 DEF PoolInv, MappingsInverse
<1>. QED
  BY <1>1, <1>2, <1>3, PoolAssumption

LEMMA TagAndLogTxKeepsKpiInv ==
  ASSUME KpiInv, NEW n \in Nodes, TagAndLogTx(n)
  PROVE  KpiInv'
<1> DEFINE v == assignedVehicleId[n]
           seq == nextKpiSequence[n]
<1>1. /\ now' = now /\ now \in Nat /\ UNCHANGED vars /\ served' = served /\ allRx' = allRx
      /\ lastRxTimePerPair' = lastRxTimePerPair /\ appState[n] = "running" /\ v # NoVehicle
      /\ nextKpiSequence' = [nextKpiSequence EXCEPT ![n] = seq + 1]
      /\ air' = air \cup {[node |-> n, station |-> stationId[n],
                           tx |-> v, seq |-> seq, sent |-> now]}
      /\ \E eligible \in SUBSET Candidates(v, n), inCore \in BOOLEAN :
           LogTx(v, n, seq, eligible, inCore)
  BY DEF KpiInv, LogType, TagAndLogTx
<1>2. vehicleIdToNodeId' = vehicleIdToNodeId
  BY <1>1 DEF vars, poolVars
<1>3. PoolInv' /\ PoolInv /\ LogType
  BY <1>1, NextPreservesPoolInv DEF KpiInv
<1>4. v \in Vehicles /\ vehicleIdToNodeId[v] = n /\ n # NoNode
  BY <1>1, <1>3, OccupantOfNode
<1>5. /\ nextKpiSequence \in [Nodes -> Nat] /\ seq \in Nat
      /\ nextKpiSequence' \in [Nodes -> Nat]
      /\ nextKpiSequence'[n] = seq + 1
      /\ \A m \in Nodes : nextKpiSequence[m] <= nextKpiSequence'[m]
  BY <1>1, <1>3 DEF LogType
<1>6. \A p \in air' : p.node \in Nodes /\ p.tx \in Vehicles /\ p.seq \in Nat
  BY <1>1, <1>3, <1>4, <1>5 DEF LogType
<1>7. ServedInv' /\ HeardInv' /\ CountedOnce'
  BY <1>1, <1>2, Zenon DEF KpiInv, ServedInv, HeardInv, CountedOnce
<1>8. LastInv' /\ PirInv'
  BY <1>1, Zenon DEF KpiInv, LastInv, PirInv
<1>9. v \in served
  BY <1>4, Zenon DEF KpiInv, ServedInv
<1> HIDE DEF v, seq
<1>10. ASSUME NEW t \in allTx
       PROVE  /\ t.ev.time <= now /\ t.ev.tx \in served
              /\ vehicleIdToNodeId[t.ev.tx] # NoNode =>
                   t.ev.seq < nextKpiSequence'[vehicleIdToNodeId[t.ev.tx]]
              /\ \A w \in t.ev.eligible :
                   /\ w \in served
                   /\ vehicleIdToNodeId[w] # NoNode => t.where[w] = vehicleIdToNodeId[w]
  <2>1. t.ev.tx \in Vehicles /\ t.ev.seq \in Nat
    BY <1>3 DEF LogType, Sent, TxEvent
  <2>2. vehicleIdToNodeId[t.ev.tx] # NoNode => vehicleIdToNodeId[t.ev.tx] \in Nodes
    BY <1>3, <2>1 DEF PoolInv, TypeOK
  <2>3. vehicleIdToNodeId[t.ev.tx] # NoNode =>
          t.ev.seq < nextKpiSequence'[vehicleIdToNodeId[t.ev.tx]]
    <3> SUFFICES ASSUME NEW m \in Nodes, t.ev.seq < nextKpiSequence[m]
                 PROVE  t.ev.seq < nextKpiSequence'[m]
      BY <2>2, Zenon DEF KpiInv, SentInv
    <3>1. /\ nextKpiSequence[m] \in Nat /\ nextKpiSequence'[m] \in Nat
          /\ nextKpiSequence[m] <= nextKpiSequence'[m]
      BY <1>5
    <3>. QED
      BY <2>1, <3>1
  <2>. QED
    BY <2>3, Zenon DEF KpiInv, SentInv
<1>11. CASE UNCHANGED <<txEvents, rxEvents, loggedRxTriples, allTx>>
  <2>1. LogType'
    BY <1>1, <1>3, <1>5, <1>6, <1>11 DEF LogType
  <2>2. WindowInv' /\ CreditedToListener'
    BY <1>1, <1>11, Zenon DEF KpiInv, WindowInv, CreditedToListener
  <2>3. SentInv'
    BY <1>1, <1>2, <1>10, <1>11, Zenon DEF SentInv
  <2>. QED
    BY <1>3, <1>7, <1>8, <2>1, <2>2, <2>3, Zenon DEF KpiInv
<1>12. ASSUME NEW eligible \in SUBSET Candidates(v, n), NEW t,
              t = [ev |-> [time |-> now, tx |-> v, seq |-> seq, eligible |-> eligible],
                   where |-> vehicleIdToNodeId],
              PruneOldEvents(Append(txEvents, t.ev), rxEvents, loggedRxTriples),
              allTx' = allTx \cup {t}
       PROVE  KpiInv'
  <2>1. \A w \in eligible : w \in Vehicles /\ w \in served
    <3>1. \A w \in eligible : w \in Vehicles /\ vehicleIdToNodeId[w] # NoNode
      BY <1>3, CandidatesOnPool
    <3>. QED
      BY <3>1, Zenon DEF KpiInv, ServedInv
  <2>2. /\ t.ev.time = now /\ t.ev.tx = v /\ t.ev.seq = seq /\ t.ev.eligible = eligible
        /\ t.where = vehicleIdToNodeId /\ t \in Sent /\ t.ev \in TxEvent
    <3>1. t.ev \in TxEvent
      BY <1>1, <1>4, <1>5, <1>12, <2>1 DEF TxEvent
    <3>2. t \in Sent
      BY <1>3, <1>12, <3>1 DEF Sent, PoolInv, TypeOK
    <3>. QED
      BY <1>12, <3>1, <3>2
  <2>3. LogType'
    BY <1>1, <1>3, <1>5, <1>6, <1>12, <2>2 DEF LogType
  <2>4. SentInv'
    <3>1. seq < nextKpiSequence'[vehicleIdToNodeId[v]] /\ now <= now
      BY <1>1, <1>4, <1>5
    <3> SUFFICES ASSUME NEW x \in allTx'
                 PROVE  /\ x.ev.time <= now /\ x.ev.tx \in served
                        /\ vehicleIdToNodeId[x.ev.tx] # NoNode =>
                             x.ev.seq < nextKpiSequence'[vehicleIdToNodeId[x.ev.tx]]
                        /\ \A w \in x.ev.eligible :
                             /\ w \in served
                             /\ vehicleIdToNodeId[w] # NoNode =>
                                  x.where[w] = vehicleIdToNodeId[w]
      BY <1>1, <1>2, Zenon DEF SentInv
    <3>2. CASE x \in allTx
      BY <1>10, <3>2, Zenon
    <3>3. CASE x = t
      BY <1>9, <2>1, <2>2, <3>1, <3>3, Zenon
    <3>. QED
      BY <1>12, <3>2, <3>3, Zenon
  <2>5. \A x \in allTx : TxKey(x.ev) # TxKey(t.ev)
    <3> SUFFICES ASSUME NEW x \in allTx, x.ev.tx = v, x.ev.seq = seq
                 PROVE  FALSE
      BY <2>2 DEF TxKey
    <3>1. seq < nextKpiSequence[n]
      BY <1>4, Zenon DEF KpiInv, SentInv
    <3>. QED
      BY <1>5, <3>1 DEF seq
  <2>6. \A r \in allRx : TxKey(r.ev) # TxKey(t.ev)
    BY <2>5, Zenon DEF KpiInv, CreditedToListener
  <2>7. \A i \in 1..Len(txEvents) :
          txEvents[i].time <= t.ev.time /\ TxKey(txEvents[i]) # TxKey(t.ev)
    <3> SUFFICES ASSUME NEW i \in 1..Len(txEvents)
                 PROVE  txEvents[i].time <= t.ev.time /\ TxKey(txEvents[i]) # TxKey(t.ev)
      OBVIOUS
    <3>1. PICK x \in allTx : x.ev = txEvents[i]
      BY Zenon DEF KpiInv, WindowInv, LogOf
    <3>. QED
      BY <2>2, <2>5, <3>1, Zenon DEF KpiInv, SentInv
  <2>8. LogOf(Append(txEvents, t.ev), rxEvents, loggedRxTriples, allTx \cup {t}, allRx)
    <3>1. LogOf(txEvents, rxEvents, loggedRxTriples, allTx, allRx)
      BY DEF KpiInv, WindowInv
    <3>. QED
      BY <2>2, <2>6, <2>7, <3>1, LogAppendTx, Zenon
  <2>9. LogOf(txEvents', rxEvents', loggedRxTriples', allTx \cup {t}, allRx)
    <3>1. allRx \subseteq Heard /\ \A r, s \in allRx : Triple(r.ev) = Triple(s.ev) => r = s
      BY Zenon DEF KpiInv, LogType, CountedOnce
    <3>. QED
      BY <1>1, <1>12, <2>8, <3>1, PruneKeepsLog, Zenon
  <2>10. WindowInv'
    BY <1>1, <1>12, <2>9, Zenon DEF WindowInv
  <2>11. CreditedToListener'
    BY <1>1, <1>12, Zenon DEF KpiInv, CreditedToListener
  <2>. QED
    BY <1>3, <1>7, <1>8, <2>3, <2>4, <2>10, <2>11, Zenon DEF KpiInv
<1>13. PICK eligible \in SUBSET Candidates(v, n), inCore \in BOOLEAN :
         LogTx(v, n, seq, eligible, inCore)
  BY <1>1 DEF v, seq
<1>14. PICK t : t = [ev |-> [time |-> now, tx |-> v, seq |-> seq, eligible |-> eligible],
                     where |-> vehicleIdToNodeId]
  OBVIOUS
<1>15. \/ UNCHANGED <<txEvents, rxEvents, loggedRxTriples, allTx>>
       \/ /\ PruneOldEvents(Append(txEvents, t.ev), rxEvents, loggedRxTriples)
          /\ allTx' = allTx \cup {t}
  <2>1. t.ev = [time |-> now, tx |-> v, seq |-> seq, eligible |-> eligible]
    BY <1>14
  <2>. QED
    BY <1>13, <1>14, <2>1, Zenon DEF LogTx
<1>. QED
  BY <1>11, <1>12, <1>14, <1>15

(* FindTxEvent answers with an entry of the log that has the key. *)
LEMMA FindTxEventFacts ==
  ASSUME NEW v, NEW seq, txEvents \in Seq(TxEvent), DistinctKeys(txEvents),
         NEW e \in FindTxEvent(v, seq)
  PROVE  \E i \in 1..Len(txEvents) : e = txEvents[i] /\ TxKey(e) = <<v, seq>>
<1> DEFINE S == {i \in DOMAIN txEvents : TxKey(txEvents[i]) = <<v, seq>>}
<1>1. DOMAIN txEvents = 1..Len(txEvents) /\ Len(txEvents) \in Nat
  BY LenProperties
<1>2. S # {} /\ e = txEvents[Max(S)]
  BY DEF FindTxEvent, MaxOf
<1>3. PICK i \in 1..Len(txEvents) : TxKey(txEvents[i]) = <<v, seq>>
  BY <1>1, <1>2
<1>4. \A y \in S : y = i
  BY <1>1, <1>3, Zenon DEF DistinctKeys
<1>5. i \in S /\ \A y \in S : i >= y
  <2>1. i \in S
    BY <1>1, <1>3
  <2>2. i >= i
    BY <1>1
  <2>. QED
    BY <1>4, <2>1, <2>2, Zenon
<1>6. Max(S) = i
  <2>1. Max(S) \in S
    BY <1>5, Zenon DEF Max
  <2>. QED
    BY <1>4, <2>1, Zenon
<1>. QED
  BY <1>2, <1>3, <1>6

(* What LogRx records when it records: r is the new reception. *)
LEMMA RecordKeepsKpiInv ==
  ASSUME KpiInv, NEW n \in Nodes, NEW v \in Vehicles, NEW w \in Vehicles, NEW seq \in Nat,
         vehicleIdToNodeId[w] = n, UNCHANGED <<vars, now, nextKpiSequence, air, allTx, served>>,
         NEW i \in 1..Len(txEvents), TxKey(txEvents[i]) = <<v, seq>>, w \in txEvents[i].eligible,
         <<v, w, seq>> \notin loggedRxTriples, RecordRx(v, w, seq, n)
  PROVE  KpiInv'
<1> DEFINE last == lastRxTimePerPair[<<v, w>>]
<1>1. PICK r : r = [ev |-> [time |-> now, tx |-> v, rx |-> w, seq |-> seq,
                            pir |-> IF last = -1 THEN NoPir ELSE now - last],
                    node |-> n]
  OBVIOUS
<1>2. /\ PruneOldEvents(txEvents, Append(rxEvents, r.ev), loggedRxTriples \cup {Triple(r.ev)})
      /\ lastRxTimePerPair' = [lastRxTimePerPair EXCEPT ![<<v, w>>] = now]
      /\ allRx' = allRx \cup {r}
  <2>1. r.ev = [time |-> now, tx |-> v, rx |-> w, seq |-> seq,
                pir |-> IF last = -1 THEN NoPir ELSE now - last]
    BY <1>1
  <2>. QED
    BY <1>1, <2>1, Zenon DEF RecordRx
<1>3. /\ now' = now /\ nextKpiSequence' = nextKpiSequence /\ air' = air /\ allTx' = allTx
      /\ served' = served /\ vehicleIdToNodeId' = vehicleIdToNodeId /\ UNCHANGED vars
  BY DEF vars, poolVars
<1>4. PoolInv' /\ LogType /\ now \in Nat /\ last \in Int
  BY <1>3, NextPreservesPoolInv DEF KpiInv, LogType
<1>5. /\ r.ev.time = now /\ r.ev.tx = v /\ r.ev.rx = w /\ r.ev.seq = seq /\ r.node = n
      /\ r.ev.pir = (IF last = -1 THEN NoPir ELSE now - last)
      /\ r.ev \in RxEvent /\ r \in Heard
  <2>1. /\ r.ev.time = now /\ r.ev.tx = v /\ r.ev.rx = w /\ r.ev.seq = seq /\ r.node = n
        /\ r.ev.pir = (IF last = -1 THEN NoPir ELSE now - last)
    BY <1>1
  <2>2. (IF last = -1 THEN NoPir ELSE now - last) \in Int
    BY <1>4 DEF NoPir
  <2> HIDE DEF last
  <2>3. r.ev \in RxEvent
    BY <1>1, <1>4, <2>2 DEF RxEvent
  <2>4. r \in Heard
    BY <1>1, <2>3 DEF Heard
  <2>. QED
    BY <2>1, <2>3, <2>4
<1>6. TxKey(r.ev) = <<v, seq>> /\ Triple(r.ev) = <<v, w, seq>>
  BY <1>5 DEF TxKey, Triple
<1>7. \A s \in allRx : Triple(s.ev) # Triple(r.ev)
  <2> SUFFICES ASSUME NEW s \in allRx, Triple(s.ev) = <<v, w, seq>>
               PROVE  FALSE
    BY <1>6
  <2>1. TxKey(txEvents[i]) = TxKey(s.ev)
    BY DEF Triple, TxKey
  <2>2. Triple(s.ev) \in loggedRxTriples
    BY <2>1, Zenon DEF KpiInv, WindowInv, LogOf
  <2>. QED
    BY <2>2
<1>8. LogType'
  <2>1. lastRxTimePerPair' \in [Vehicles \X Vehicles -> Int]
    BY <1>2, <1>4 DEF LogType
  <2>. QED
    BY <1>2, <1>3, <1>4, <1>5, <2>1 DEF LogType
<1>9. ServedInv' /\ SentInv'
  BY <1>3, Zenon DEF KpiInv, ServedInv, SentInv
<1>10. \A s \in allRx : s.ev.time <= now
  BY DEF KpiInv, HeardInv
<1>11. HeardInv'
  <2>1. now <= now
    BY <1>4
  <2>. QED
    BY <1>2, <1>3, <1>5, <1>10, <2>1, Zenon DEF HeardInv
<1>12. CountedOnce'
  BY <1>2, <1>7, Zenon DEF KpiInv, CountedOnce
<1>13. PICK t \in allTx : t.ev = txEvents[i]
  BY Zenon DEF KpiInv, WindowInv, LogOf
<1>14. CreditedToListener'
  <2>1. /\ TxKey(t.ev) = TxKey(r.ev) /\ t.ev.time <= r.ev.time
        /\ r.ev.rx \in t.ev.eligible
    BY <1>5, <1>6, <1>13, Zenon DEF KpiInv, SentInv
  <2>2. vehicleIdToNodeId[w] # NoNode
    BY PoolAssumption
  <2>3. t.where[w] = n
    BY <1>13, <2>2, Zenon DEF KpiInv, SentInv
  <2>4. t.where[r.ev.rx] = r.node
    BY <1>5, <2>3, Zenon
  <2>. QED
    BY <1>2, <1>3, <2>1, <2>4, Zenon DEF KpiInv, CreditedToListener
<1>15. WindowInv'
  <2>1. LogOf(txEvents, rxEvents, loggedRxTriples, allTx, allRx)
    BY DEF KpiInv, WindowInv
  <2>2. \A j \in 1..Len(txEvents) : txEvents[j].time <= r.ev.time
    <3> SUFFICES ASSUME NEW j \in 1..Len(txEvents) PROVE txEvents[j].time <= now
      BY <1>5
    <3>1. PICK x \in allTx : x.ev = txEvents[j]
      BY <2>1, Zenon DEF LogOf
    <3>. QED
      BY <3>1, Zenon DEF KpiInv, SentInv
  <2>3. Triple(r.ev) \notin loggedRxTriples
    BY <1>6
  <2>4. LogOf(txEvents, Append(rxEvents, r.ev), loggedRxTriples \cup {Triple(r.ev)},
              allTx, allRx \cup {r})
    BY <1>5, <2>1, <2>2, <2>3, LogAppendRx, Zenon
  <2>5. /\ allRx \cup {r} \subseteq Heard
        /\ \A x, s \in allRx \cup {r} : Triple(x.ev) = Triple(s.ev) => x = s
    <3>1. allRx \subseteq Heard
      BY <1>4 DEF LogType
    <3>. QED
      BY <1>5, <1>7, <3>1, Zenon DEF KpiInv, CountedOnce
  <2>6. LogOf(txEvents', rxEvents', loggedRxTriples', allTx, allRx \cup {r})
    BY <1>2, <1>4, <2>4, <2>5, PruneKeepsLog, Zenon
  <2>. QED
    BY <1>2, <1>3, <2>6, Zenon DEF WindowInv
<1>16. /\ \A s \in allRx : SamePair(s, v, w) => last # -1 /\ s.ev.time <= last
       /\ last # -1 => last \in Nat /\ \E s \in allRx : SamePair(s, v, w) /\ s.ev.time = last
  BY Zenon DEF KpiInv, LastInv
<1>17. LastInv'
  <2> SUFFICES ASSUME NEW x \in Vehicles, NEW y \in Vehicles
               PROVE  /\ \A s \in allRx' : SamePair(s, x, y) =>
                           /\ lastRxTimePerPair'[<<x, y>>] # -1
                           /\ s.ev.time <= lastRxTimePerPair'[<<x, y>>]
                      /\ lastRxTimePerPair'[<<x, y>>] # -1 =>
                           /\ lastRxTimePerPair'[<<x, y>>] \in Nat
                           /\ \E s \in allRx' : /\ SamePair(s, x, y)
                                                /\ s.ev.time = lastRxTimePerPair'[<<x, y>>]
    BY Zenon DEF LastInv, SamePair
  <2>1. CASE x = v /\ y = w
    <3>1. lastRxTimePerPair'[<<x, y>>] = now
      BY <1>2, <1>4, <2>1 DEF LogType
    <3>2. now # -1 /\ now <= now
      BY <1>4
    <3>3. SamePair(r, x, y)
      BY <1>5, <2>1 DEF SamePair
    <3>. QED
      BY <1>2, <1>4, <1>5, <1>10, <3>1, <3>2, <3>3, Zenon
  <2>2. CASE ~(x = v /\ y = w)
    <3>1. lastRxTimePerPair'[<<x, y>>] = lastRxTimePerPair[<<x, y>>]
      <4>1. <<x, y>> # <<v, w>> /\ <<x, y>> \in Vehicles \X Vehicles
        BY <2>2
      <4>. QED
        BY <1>2, <1>4, <4>1 DEF LogType
    <3>2. ~SamePair(r, x, y)
      BY <1>5, <2>2 DEF SamePair
    <3>3. /\ \A s \in allRx : SamePair(s, x, y) =>
               /\ lastRxTimePerPair[<<x, y>>] # -1 /\ s.ev.time <= lastRxTimePerPair[<<x, y>>]
          /\ lastRxTimePerPair[<<x, y>>] # -1 =>
               /\ lastRxTimePerPair[<<x, y>>] \in Nat
               /\ \E s \in allRx : SamePair(s, x, y) /\ s.ev.time = lastRxTimePerPair[<<x, y>>]
      BY Zenon DEF KpiInv, LastInv
    <3>. QED
      BY <1>2, <3>1, <3>2, <3>3, Zenon
  <2>. QED
    BY <2>1, <2>2
<1>18. \A s \in allRx : s.ev.time \in Nat /\ s.ev.pir \in Int
  BY <1>4 DEF LogType, Heard, RxEvent
<1>19. r \notin allRx
  BY <1>7
<1> HIDE DEF last
<1>20. PirRight(r, allRx \cup {r})
  <2>1. CASE last = -1
    <3>1. r.ev.pir = NoPir
      BY <1>5, <2>1
    <3>2. \A s \in allRx : ~SamePair(s, v, w)
      BY <1>16, <2>1
    <3>. QED
      BY <1>5, <3>1, <3>2, Zenon DEF PirRight
  <2>2. CASE last # -1
    <3>1. PICK s \in allRx : SamePair(s, v, w) /\ s.ev.time = last
      BY <1>16, <2>2
    <3>2. last \in Nat /\ last <= now
      BY <1>10, <1>16, <2>2, <3>1
    <3>3. r.ev.pir = now - last /\ r.ev.pir # NoPir /\ now - (now - last) = last
      BY <1>4, <1>5, <2>2, <3>2 DEF NoPir
    <3>4. \A x \in allRx : SamePair(x, v, w) => ~(last < x.ev.time)
      BY <1>16, <1>18, <3>2
    <3>5. s # r /\ s.ev.time = r.ev.time - r.ev.pir /\ r.ev.time - r.ev.pir = last
      BY <1>5, <1>19, <3>1, <3>3
    <3>. QED
      BY <1>5, <3>1, <3>3, <3>4, <3>5, Zenon DEF PirRight
  <2>. QED
    BY <2>1, <2>2
<1>21. ASSUME NEW x \in allRx PROVE PirRight(x, allRx \cup {r})
  <2>1. PirRight(x, allRx)
    BY Zenon DEF KpiInv, PirInv
  <2>2. r.ev.time >= x.ev.time /\ ~(r.ev.time < x.ev.time)
    BY <1>4, <1>5, <1>10, <1>18
  <2>3. CASE x.ev.pir = NoPir
    BY <2>1, <2>2, <2>3, Zenon DEF PirRight
  <2>4. CASE x.ev.pir # NoPir
    BY <2>1, <2>2, <2>4, Zenon DEF PirRight
  <2>. QED
    BY <2>3, <2>4
<1>22. PirInv'
  BY <1>2, <1>20, <1>21, Zenon DEF PirInv
<1>. QED
  BY <1>4, <1>8, <1>9, <1>11, <1>12, <1>14, <1>15, <1>17, <1>22, Zenon DEF KpiInv

LEMMA ReceiveCamKeepsKpiInv ==
  ASSUME KpiInv, NEW n \in Nodes, NEW p \in air, ReceiveCam(n, p)
  PROVE  KpiInv'
<1> DEFINE w == assignedVehicleId[n]
<1>1. /\ UNCHANGED <<vars, now, nextKpiSequence, air, allTx, served>>
      /\ appState[n] = "running" /\ w # NoVehicle
      /\ \E inCore \in BOOLEAN : LogRx(p.tx, w, p.seq, n, inCore)
  BY DEF ReceiveCam
<1>2. p.tx \in Vehicles /\ p.seq \in Nat
  BY DEF KpiInv, LogType
<1>3. w \in Vehicles /\ vehicleIdToNodeId[w] = n
  BY <1>1, OccupantOfNode DEF KpiInv
<1>4. CASE UNCHANGED <<logVars, allRx>>
  <2>1. /\ now' = now /\ now \in Nat /\ UNCHANGED vars /\ served' = served /\ allTx' = allTx
        /\ UNCHANGED <<nextKpiSequence, air, logVars, histVars>>
        /\ nextKpiSequence' = nextKpiSequence /\ vehicleIdToNodeId' = vehicleIdToNodeId
    BY <1>1, <1>4 DEF KpiInv, LogType, histVars, vars, poolVars
  <2>2. PoolInv'
    BY <2>1, NextPreservesPoolInv DEF KpiInv
  <2>3. /\ LogType' /\ WindowInv' /\ HeardInv' /\ CountedOnce' /\ CreditedToListener'
        /\ LastInv' /\ PirInv'
    <3>1. now \in Nat /\ now' \in Nat /\ now <= now'
      BY <2>1
    <3>. QED
      BY <2>1, <3>1, LogsUnchanged
  <2>4. ServedInv' /\ SentInv'
    BY <2>1, Zenon DEF KpiInv, ServedInv, SentInv
  <2>. QED
    BY <2>2, <2>3, <2>4, Zenon DEF KpiInv
<1>5. ASSUME NEW inCore \in BOOLEAN, RxCounts(p.tx, w, p.seq, inCore),
             RecordRx(p.tx, w, p.seq, n)
      PROVE  KpiInv'
  <2>1. PICK e \in FindTxEvent(p.tx, p.seq) : w \in e.eligible
    BY <1>5, Zenon DEF RxCounts
  <2>2. <<p.tx, w, p.seq>> \notin loggedRxTriples
    BY <1>5, Zenon DEF RxCounts
  <2>3. txEvents \in Seq(TxEvent) /\ DistinctKeys(txEvents)
    BY Zenon DEF KpiInv, WindowInv, LogOf
  <2>4. PICK i \in 1..Len(txEvents) : e = txEvents[i] /\ TxKey(e) = <<p.tx, p.seq>>
    BY <2>3, FindTxEventFacts, Zenon
  <2> HIDE DEF w
  <2>. QED
    BY <1>1, <1>2, <1>3, <1>5, <2>1, <2>2, <2>4, RecordKeepsKpiInv, Zenon
<1>. QED
  BY <1>1, <1>4, <1>5, Zenon DEF LogRx

-----------------------------------------------------------------------------
(* The log against the history *)

(* Nothing younger than the cutoff leaves by age. *)
LEMMA DropOldKeeps ==
  ASSUME NEW d \in Seq(TxEvent), NEW c \in Int, NEW i \in 1..Len(d), d[i].time >= c
  PROVE  \E j \in 1..Len(DropOld(d, c)) : DropOld(d, c)[j] = d[i]
<1>1. \A x \in TxEvent : x.time \in Nat
  BY DEF TxEvent
<1>2. PICK m \in 0..Len(d) :
        /\ DropOld(d, c) \in Seq(TxEvent) /\ Len(DropOld(d, c)) = Len(d) - m
        /\ \A k \in 1..(Len(d) - m) : DropOld(d, c)[k] = d[k + m]
        /\ \A k \in 1..m : d[k].time < c
  BY <1>1, DropOldFacts
<1>3. Len(d) \in Nat /\ d[i].time \in Nat
  <2>1. Len(d) \in Nat /\ d[i] \in TxEvent
    BY LenProperties, ElementOfSeq
  <2>. QED
    BY <1>1, <2>1
<1>4. i \notin 1..m
  BY <1>2, <1>3
<1>5. i - m \in 1..(Len(d) - m) /\ (i - m) + m = i
  BY <1>3, <1>4
<1>. QED
  BY <1>2, <1>5

(* Steps that send nothing: time may pass, and the log may be pruned. *)
LEMMA SentKeptWithoutTx ==
  ASSUME KpiInv, SentKept, allTx' = allTx, now' \in Nat, now <= now',
         \/ txEvents' = txEvents
         \/ now' = now /\ txEvents' = DropOld(txEvents, now - KpiWindow)
  PROVE  SentKept'
<1>1. now \in Nat /\ KpiWindow \in Nat /\ txEvents \in Seq(TxEvent) /\ allTx \subseteq Sent
  BY KpiAssumption DEF KpiInv, LogType, WindowInv, LogOf
<1>2. ASSUME NEW t \in allTx, t.ev.time >= now' - KpiWindow
      PROVE  \E i \in 1..Len(txEvents') : txEvents'[i] = t.ev
  <2>1. t.ev.time \in Nat
    BY <1>1 DEF Sent, TxEvent
  <2>2. t.ev.time >= now - KpiWindow
    BY <1>1, <1>2, <2>1
  <2>3. PICK i \in 1..Len(txEvents) : txEvents[i] = t.ev
    BY <2>2 DEF SentKept
  <2>4. CASE txEvents' = txEvents
    BY <2>3, <2>4
  <2>5. CASE txEvents' = DropOld(txEvents, now - KpiWindow)
    <3>1. now - KpiWindow \in Int /\ txEvents[i].time >= now - KpiWindow
      BY <1>1, <2>2, <2>3
    <3>2. \E j \in 1..Len(DropOld(txEvents, now - KpiWindow)) :
            DropOld(txEvents, now - KpiWindow)[j] = txEvents[i]
      BY <1>1, <3>1, DropOldKeeps
    <3>. QED
      BY <2>3, <2>5, <3>2, Zenon
  <2>. QED
    BY <2>4, <2>5
<1>. QED
  BY <1>2, Zenon DEF SentKept

(* The counter of the node is beyond every key of the vehicle on it. *)
LEMMA NextKeyIsFresh ==
  ASSUME KpiInv, NEW n \in Nodes, appState[n] = "running", assignedVehicleId[n] # NoVehicle
  PROVE  \A t \in allTx : TxKey(t.ev) # <<assignedVehicleId[n], nextKpiSequence[n]>>
<1> SUFFICES ASSUME NEW t \in allTx, t.ev.tx = assignedVehicleId[n],
                    t.ev.seq = nextKpiSequence[n]
             PROVE  FALSE
  BY DEF TxKey
<1>1. vehicleIdToNodeId[assignedVehicleId[n]] = n /\ n # NoNode
  BY OccupantOfNode DEF KpiInv
<1>2. nextKpiSequence[n] < nextKpiSequence[n]
  BY <1>1, Zenon DEF KpiInv, SentInv
<1>3. nextKpiSequence[n] \in Nat
  BY DEF KpiInv, LogType
<1>. QED
  BY <1>2, <1>3

(* Whoever can hear a CAM is on one of finitely many nodes. *)
LEMMA CandidatesFinite ==
  ASSUME NEW v, NEW n, NEW eligible \in SUBSET Candidates(v, n)
  PROVE  IsFiniteSet(eligible)
<1> DEFINE M == {m \in Nodes \ {n} : IsNodeActive(m)}
           I == {ResolveVehicleIdForNode(m) : m \in M}
           f == [m \in M |-> ResolveVehicleIdForNode(m)]
<1>1. IsFiniteSet(M)
  BY PoolAssumption, FS_Subset
<1>2. f \in Surjection(M, I)
  BY DEF Surjection
<1>3. IsFiniteSet(I)
  <2> HIDE DEF M, I, f
  <2>. QED
    BY <1>1, <1>2, FS_Surjection
<1>4. eligible \in SUBSET I
  BY DEF Candidates
<1> HIDE DEF I
<1>. QED
  BY <1>3, <1>4, FS_Subset

(* What is sent goes to the end of the log, which is then pruned. *)
LEMMA TagAndLogTxKeepsSentKept ==
  ASSUME KpiInv, SentKept, NEW n \in Nodes, TagAndLogTx(n)
  PROVE  SentKept'
<1> DEFINE v == assignedVehicleId[n]
           seq == nextKpiSequence[n]
<1>1. /\ now' = now /\ now \in Nat /\ appState[n] = "running" /\ v # NoVehicle
      /\ \E eligible \in SUBSET Candidates(v, n), inCore \in BOOLEAN :
           LogTx(v, n, seq, eligible, inCore)
  BY DEF KpiInv, LogType, TagAndLogTx
<1>2. PICK eligible \in SUBSET Candidates(v, n), inCore \in BOOLEAN :
        LogTx(v, n, seq, eligible, inCore)
  BY <1>1
<1>3. PICK t : t = [ev |-> [time |-> now, tx |-> v, seq |-> seq, eligible |-> eligible],
                    where |-> vehicleIdToNodeId]
  OBVIOUS
<1>4. /\ t.ev = [time |-> now, tx |-> v, seq |-> seq, eligible |-> eligible]
      /\ TxKey(t.ev) = <<v, seq>> /\ t.ev.eligible = eligible /\ t.ev.time = now
  BY <1>3 DEF TxKey
<1>5. CASE UNCHANGED <<txEvents, rxEvents, loggedRxTriples, allTx>>
  <2>1. now <= now' /\ now' \in Nat /\ txEvents' = txEvents /\ allTx' = allTx
    BY <1>1, <1>5
  <2>. QED
    BY <2>1, SentKeptWithoutTx
<1>6. CASE /\ PruneOldEvents(Append(txEvents, t.ev), rxEvents, loggedRxTriples)
           /\ allTx' = allTx \cup {t}
  <2> DEFINE c == now - KpiWindow
             a == Append(txEvents, t.ev)
  <2>1. txEvents' = DropOld(a, c)
    BY <1>6 DEF PruneOldEvents, Pruned
  <2>2. c \in Int /\ now >= c
    BY <1>1, KpiAssumption
  <2>3. txEvents \in Seq(TxEvent)
    BY Zenon DEF KpiInv, WindowInv, LogOf
  <2>4. t.ev \in TxEvent
    <3>1. v \in Vehicles /\ seq \in Nat
      BY <1>1, OccupantOfNode DEF KpiInv, LogType
    <3>2. eligible \subseteq Vehicles
      <4>1. \A w \in eligible : w \in Candidates(v, n)
        OBVIOUS
      <4>. QED
        BY <4>1, CandidatesOnPool DEF KpiInv
    <3> HIDE DEF v, seq
    <3>. QED
      BY <1>1, <1>4, <3>1, <3>2 DEF TxEvent
  <2>5. /\ a \in Seq(TxEvent) /\ a[Len(txEvents) + 1] = t.ev
        /\ Len(txEvents) + 1 \in 1..Len(a)
        /\ \A i \in 1..Len(txEvents) : i \in 1..Len(a) /\ a[i] = txEvents[i]
    BY <2>3, <2>4, AppendFacts
  <2>6. \A x \in allTx : TxKey(x.ev) # TxKey(t.ev)
    BY <1>1, <1>4, NextKeyIsFresh
  <2>7. \A x, y \in allTx' : TxKey(x.ev) = TxKey(y.ev) => x = y
    BY <1>6, <2>6, Zenon DEF SentKept
  <2>8. \A x \in allTx' : IsFiniteSet(x.ev.eligible)
    <3>1. IsFiniteSet(t.ev.eligible)
      BY <1>4, CandidatesFinite
    <3>. QED
      BY <1>6, <3>1, Zenon DEF SentKept
  <2>9. ASSUME NEW x \in allTx', x.ev.time >= c
        PROVE  \E i \in 1..Len(txEvents') : txEvents'[i] = x.ev
    <3>1. PICK i \in 1..Len(a) : a[i] = x.ev
      <4>1. CASE x = t
        BY <2>5, <4>1
      <4>2. CASE x \in allTx
        <5>1. PICK i \in 1..Len(txEvents) : txEvents[i] = x.ev
          BY <2>9, <4>2 DEF SentKept
        <5>. QED
          BY <2>5, <5>1
      <4>. QED
        BY <1>6, <4>1, <4>2
    <3> HIDE DEF a, c
    <3>2. \E j \in 1..Len(DropOld(a, c)) : DropOld(a, c)[j] = a[i]
      BY <2>2, <2>5, <2>9, <3>1, DropOldKeeps
    <3>. QED
      BY <2>1, <3>1, <3>2, Zenon
  <2>. QED
    BY <1>1, <2>7, <2>8, <2>9, Zenon DEF SentKept
<1>7. \/ UNCHANGED <<txEvents, rxEvents, loggedRxTriples, allTx>>
      \/ /\ PruneOldEvents(Append(txEvents, t.ev), rxEvents, loggedRxTriples)
         /\ allTx' = allTx \cup {t}
  BY <1>2, <1>3, <1>4, Zenon DEF LogTx
<1>. QED
  BY <1>5, <1>6, <1>7

(* Every transmission of the window is in the log, whatever is pruned,     *)
(* sent and received in between.                                           *)
LEMMA NextKeepsSentKept ==
  ASSUME KpiInv, SentKept, [KpiNext]_<<vars, kpiVars>>
  PROVE  SentKept'
<1>0. now \in Nat
  BY DEF KpiInv, LogType
<1>1. CASE UNCHANGED <<vars, kpiVars>>
  <2>1. now' = now /\ now' \in Nat /\ now <= now' /\ allTx' = allTx /\ txEvents' = txEvents
    BY <1>0, <1>1 DEF kpiVars, histVars, logVars
  <2>. QED
    BY <2>1, SentKeptWithoutTx
<1>2. CASE PoolStep
  <2>1. now' = now /\ now' \in Nat /\ now <= now' /\ allTx' = allTx /\ txEvents' = txEvents
    BY <1>0, <1>2 DEF PoolStep, histVars, logVars
  <2>. QED
    BY <2>1, SentKeptWithoutTx
<1>3. CASE Tick
  <2>1. now' \in Nat /\ now <= now' /\ allTx' = allTx /\ txEvents' = txEvents
    BY <1>0, <1>3 DEF Tick, histVars, logVars
  <2>. QED
    BY <2>1, SentKeptWithoutTx
<1>4. ASSUME NEW tx, NEW triples, NEW rx, tx = txEvents, PruneOldEvents(tx, rx, triples)
      PROVE  txEvents' = DropOld(txEvents, now - KpiWindow)
  BY <1>4 DEF PruneOldEvents, Pruned
<1>5. CASE SampleAndWrite
  <2>1. /\ now' = now /\ now' \in Nat /\ now <= now' /\ allTx' = allTx
        /\ PruneOldEvents(txEvents, rxEvents, loggedRxTriples)
    BY <1>0, <1>5 DEF SampleAndWrite, histVars
  <2>2. txEvents' = DropOld(txEvents, now - KpiWindow)
    BY <1>4, <2>1
  <2>. QED
    BY <2>1, <2>2, SentKeptWithoutTx
<1>6. ASSUME NEW n \in Nodes, TagAndLogTx(n) PROVE SentKept'
  BY <1>6, TagAndLogTxKeepsSentKept
<1>7. ASSUME NEW n \in Nodes, NEW p \in air, ReceiveCam(n, p) PROVE SentKept'
  <2>1. /\ now' = now /\ now' \in Nat /\ now <= now' /\ allTx' = allTx
        /\ \E inCore \in BOOLEAN : LogRx(p.tx, assignedVehicleId[n], p.seq, n, inCore)
    BY <1>0, <1>7 DEF ReceiveCam
  <2>2. \/ txEvents' = txEvents
        \/ \E rx, triples : PruneOldEvents(txEvents, rx, triples)
    BY <2>1, Zenon DEF LogRx, RecordRx, logVars
  <2>3. txEvents' = txEvents \/ txEvents' = DropOld(txEvents, now - KpiWindow)
    BY <1>4, <2>2
  <2>. QED
    BY <2>1, <2>3, SentKeptWithoutTx
<1>. QED
  BY <1>1, <1>2, <1>3, <1>5, <1>6, <1>7, Zenon DEF KpiNext

-----------------------------------------------------------------------------
(* Sums over finite sets.  An induction is stated for the members of a     *)
(* set, Q, and rests on the least number outside Q.                        *)

(* Induction over the numbers, for the members of a set *)
LEMMA NumberInduction ==
  ASSUME NEW Q, 0 \in Q, \A k \in Nat : k \in Q => k + 1 \in Q
  PROVE  Nat \subseteq Q
<1> SUFFICES ASSUME Nat \ Q # {} PROVE FALSE
  OBVIOUS
<1>1. PICK m \in Nat \ Q : \A y \in Nat \ Q : ~(<<y, m>> \in OpToRel(<, Nat))
  BY NatLessThanWellFounded, WFMin, Zenon
<1>2. m # 0
  OBVIOUS
<1>3. m - 1 \in Nat /\ m - 1 < m /\ (m - 1) + 1 = m
  BY <1>2
<1>4. m - 1 \notin Q
  BY <1>3
<1>5. <<m - 1, m>> \in OpToRel(<, Nat)
  <2>1. <<m - 1, m>> \in Nat \X Nat /\ <<m - 1, m>>[1] = m - 1 /\ <<m - 1, m>>[2] = m
    BY <1>3
  <2>. QED
    BY <1>3, <2>1, Zenon DEF OpToRel
<1>. QED
  BY <1>1, <1>3, <1>4, <1>5, Zenon

(* Induction over the subsets of a finite set *)
LEMMA SubsetInduction ==
  ASSUME NEW S, IsFiniteSet(S), NEW Q, {} \in Q,
         \A T \in SUBSET S : T # {} /\ (\A x \in T : T \ {x} \in Q) => T \in Q
  PROVE  SUBSET S \subseteq Q
<1> DEFINE Upto == {k \in Nat : \A T \in SUBSET S : Cardinality(T) = k => T \in Q}
<1>0. \A T \in SUBSET S : IsFiniteSet(T) /\ Cardinality(T) \in Nat
  BY FS_Subset, FS_CardinalityType
<1>1. 0 \in Upto
  BY <1>0, FS_EmptySet
<1>2. ASSUME NEW k \in Nat, k \in Upto PROVE k + 1 \in Upto
  <2> SUFFICES ASSUME NEW T \in SUBSET S, Cardinality(T) = k + 1 PROVE T \in Q
    OBVIOUS
  <2>1. T # {}
    BY FS_EmptySet
  <2>2. ASSUME NEW x \in T PROVE T \ {x} \in Q
    <3>1. Cardinality(T \ {x}) = k /\ T \ {x} \in SUBSET S
      BY <1>0, FS_RemoveElement
    <3>. QED
      BY <1>2, <3>1
  <2>. QED
    BY <2>1, <2>2
<1> HIDE DEF Upto
<1>3. Nat \subseteq Upto
  BY <1>1, <1>2, NumberInduction
<1>. QED
  BY <1>0, <1>3 DEF Upto

(* The element that the library's folds take next *)
Pick(s) == CHOOSE x \in s : TRUE

(* The equation of the function that SumFunctionOnSet evaluates *)
IsSum(g, f, D) ==
  g = [s \in D |-> IF s = {} THEN 0 ELSE f[Pick(s)] + g[s \ {Pick(s)}]]

(* The sum of the library is the value of a function that satisfies it. *)
LEMMA SumUnfold ==
  ASSUME NEW f, NEW S
  PROVE  SumFunctionOnSet(f, S) = (CHOOSE g : IsSum(g, f, SUBSET S))[S]
BY Zenon DEF SumFunctionOnSet, FoldFunctionOnSet, MapThenFoldSet, Pick, IsSum

(* The element with which the library goes on is one of the set. *)
LEMMA PickIn == ASSUME NEW s, s # {} PROVE Pick(s) \in s
BY DEF Pick

(* On the subsets of a finite set there is such a function. *)
LEMMA SumExists ==
  ASSUME NEW f, NEW S, IsFiniteSet(S)
  PROVE  \E g : IsSum(g, f, SUBSET S)
<1> DEFINE D(k) == {s \in SUBSET S : Cardinality(s) <= k}
           Upto == {k \in Nat : \E g : IsSum(g, f, D(k))}
<1>0. \A T \in SUBSET S : IsFiniteSet(T) /\ Cardinality(T) \in Nat
  BY FS_Subset, FS_CardinalityType
<1>1. 0 \in Upto
  <2>1. \A s \in D(0) : s = {}
    BY <1>0, FS_EmptySet
  <2>2. IsSum([s \in D(0) |-> 0], f, D(0))
    BY <2>1 DEF IsSum
  <2>. QED
    BY <2>2
<1>2. ASSUME NEW k \in Nat, k \in Upto PROVE k + 1 \in Upto
  <2>1. PICK g : IsSum(g, f, D(k))
    BY <1>2
  <2> DEFINE h == [s \in D(k + 1) |-> IF s = {} THEN 0 ELSE f[Pick(s)] + g[s \ {Pick(s)}]]
  <2>2. ASSUME NEW s \in D(k) PROVE s \in D(k + 1) /\ h[s] = g[s]
    <3>1. s \in D(k + 1)
      BY <1>0
    <3>2. g[s] = IF s = {} THEN 0 ELSE f[Pick(s)] + g[s \ {Pick(s)}]
      BY <2>1, Zenon DEF IsSum
    <3>. QED
      BY <3>1, <3>2, Zenon
  <2>3. ASSUME NEW s \in D(k + 1), s # {} PROVE s \ {Pick(s)} \in D(k)
    <3>1. Pick(s) \in s
      BY <2>3, PickIn
    <3>2. Cardinality(s \ {Pick(s)}) = Cardinality(s) - 1 /\ Cardinality(s) \in Nat
      BY <1>0, <3>1, FS_RemoveElement
    <3>. QED
      BY <3>2
  <2> HIDE DEF D
  <2>4. h = [s \in D(k + 1) |-> IF s = {} THEN 0 ELSE f[Pick(s)] + h[s \ {Pick(s)}]]
    <3>1. ASSUME NEW s \in D(k + 1), s # {} PROVE h[s \ {Pick(s)}] = g[s \ {Pick(s)}]
      BY <2>2, <2>3, <3>1, Zenon
    <3>2. ASSUME NEW s \in D(k + 1)
          PROVE  (IF s = {} THEN 0 ELSE f[Pick(s)] + g[s \ {Pick(s)}])
                   = IF s = {} THEN 0 ELSE f[Pick(s)] + h[s \ {Pick(s)}]
      BY <3>1, Zenon
    <3>4. PICK v : v = h
      OBVIOUS
    <3>5. \A s \in D(k + 1) :
            (IF s = {} THEN 0 ELSE f[Pick(s)] + g[s \ {Pick(s)}])
              = IF s = {} THEN 0 ELSE f[Pick(s)] + v[s \ {Pick(s)}]
      BY <3>2, <3>4, Zenon
    <3>6. v = [s \in D(k + 1) |-> IF s = {} THEN 0 ELSE f[Pick(s)] + v[s \ {Pick(s)}]]
      BY <3>4, <3>5
    <3>. QED
      BY <3>4, <3>6, Zenon
  <2>5. IsSum(h, f, D(k + 1))
    BY <2>4 DEF IsSum
  <2>6. \E g1 : IsSum(g1, f, D(k + 1))
    BY <2>5, Zenon
  <2>. QED
    BY <2>6
<1> HIDE DEF Upto
<1>3. Cardinality(S) \in Upto
  BY <1>0, <1>1, <1>2, NumberInduction
<1>4. D(Cardinality(S)) = SUBSET S
  BY FS_Subset
<1>. QED
  BY <1>3, <1>4 DEF Upto

(* Only one function satisfies the equation. *)
LEMMA SumUnique ==
  ASSUME NEW S, IsFiniteSet(S), NEW f, NEW g, IsSum(g, f, SUBSET S)
  PROVE  SumFunctionOnSet(f, S) = g[S]
<1>1. PICK h : IsSum(h, f, SUBSET S) /\ SumFunctionOnSet(f, S) = h[S]
  <2>1. IsSum(CHOOSE h : IsSum(h, f, SUBSET S), f, SUBSET S)
    BY SumExists
  <2>. QED
    BY <2>1, SumUnfold, Zenon
<1>2. ASSUME NEW e, IsSum(e, f, SUBSET S), NEW U \in SUBSET S
      PROVE  e[U] = IF U = {} THEN 0 ELSE f[Pick(U)] + e[U \ {Pick(U)}]
  BY <1>2, Zenon DEF IsSum
<1> DEFINE Q == {U \in SUBSET S : g[U] = h[U]}
<1>3. {} \in Q
  <2>1. {} \in SUBSET S
    OBVIOUS
  <2>. QED
    BY <1>1, <1>2, <2>1
<1>4. ASSUME NEW U \in SUBSET S, U # {}, \A x \in U : U \ {x} \in Q PROVE U \in Q
  <2>1. Pick(U) \in U
    BY <1>4, PickIn
  <2>2. g[U \ {Pick(U)}] = h[U \ {Pick(U)}]
    BY <1>4, <2>1
  <2>3. g[U] = f[Pick(U)] + g[U \ {Pick(U)}] /\ h[U] = f[Pick(U)] + h[U \ {Pick(U)}]
    BY <1>1, <1>2, <1>4
  <2>. QED
    BY <2>2, <2>3, Zenon
<1> HIDE DEF Q
<1>5. SUBSET S \subseteq Q
  BY <1>3, <1>4, SubsetInduction
<1>6. S \in Q
  BY <1>5
<1>. QED
  BY <1>1, <1>6 DEF Q

(* What a sum is: nothing for no element, and any element apart *)
LEMMA SumFacts ==
  ASSUME NEW S, IsFiniteSet(S), NEW f, \A x \in S : f[x] \in Int
  PROVE  /\ SumFunctionOnSet(f, {}) = 0
         /\ \A T \in SUBSET S : SumFunctionOnSet(f, T) \in Int
         /\ \A T \in SUBSET S : \A x \in T :
              SumFunctionOnSet(f, T) = f[x] + SumFunctionOnSet(f, T \ {x})
<1> DEFINE G(T) == CHOOSE g : IsSum(g, f, SUBSET T)
<1>1. ASSUME NEW T \in SUBSET S PROVE IsSum(G(T), f, SUBSET T)
  BY FS_Subset, SumExists
<1>2. ASSUME NEW T, NEW U \in SUBSET T, IsSum(G(T), f, SUBSET T)
      PROVE  G(T)[U] = IF U = {} THEN 0 ELSE f[Pick(U)] + G(T)[U \ {Pick(U)}]
  BY <1>2, Zenon DEF IsSum
<1> HIDE DEF G
<1>3. ASSUME NEW T \in SUBSET S PROVE \A U \in SUBSET T : G(T)[U] = G(S)[U]
  <2> DEFINE Q == {U \in SUBSET T : G(T)[U] = G(S)[U]}
  <2>0. S \in SUBSET S /\ {} \in SUBSET T /\ {} \in SUBSET S
    OBVIOUS
  <2>1. {} \in Q
    BY <1>1, <1>2, <2>0
  <2>2. ASSUME NEW U \in SUBSET T, U # {}, \A x \in U : U \ {x} \in Q PROVE U \in Q
    <3>1. Pick(U) \in U
      BY <2>2, PickIn
    <3>2. G(T)[U \ {Pick(U)}] = G(S)[U \ {Pick(U)}]
      BY <2>2, <3>1
    <3>3. G(T)[U] = f[Pick(U)] + G(T)[U \ {Pick(U)}]
      BY <1>1, <1>2, <2>2
    <3>4. G(S)[U] = f[Pick(U)] + G(S)[U \ {Pick(U)}]
      <4>1. U \in SUBSET S /\ IsSum(G(S), f, SUBSET S)
        BY <1>1
      <4>. QED
        BY <1>2, <2>2, <4>1
    <3>. QED
      BY <3>2, <3>3, <3>4, Zenon
  <2> HIDE DEF Q
  <2>3. SUBSET T \subseteq Q
    <3>1. IsFiniteSet(T)
      BY FS_Subset
    <3>. QED
      BY <2>1, <2>2, <3>1, SubsetInduction
  <2>. QED
    BY <2>3 DEF Q
<1>4. ASSUME NEW T \in SUBSET S PROVE SumFunctionOnSet(f, T) = G(S)[T]
  <2>1. SumFunctionOnSet(f, T) = G(T)[T] /\ T \in SUBSET T
    BY SumUnfold, Zenon DEF G
  <2>. QED
    BY <1>3, <2>1, Zenon
<1>5. \A T \in SUBSET S :
        G(S)[T] = IF T = {} THEN 0 ELSE f[Pick(T)] + G(S)[T \ {Pick(T)}]
  <2>1. IsSum(G(S), f, SUBSET S)
    BY <1>1
  <2>. QED
    BY <1>2, <2>1, Zenon
<1>6. \A T \in SUBSET S : G(S)[T] \in Int
  <2> DEFINE Q == {T \in SUBSET S : G(S)[T] \in Int}
  <2>1. {} \in Q
    BY <1>5
  <2>2. ASSUME NEW T \in SUBSET S, T # {}, \A x \in T : T \ {x} \in Q PROVE T \in Q
    <3>1. Pick(T) \in T
      BY <2>2, PickIn
    <3>2. f[Pick(T)] \in Int /\ G(S)[T \ {Pick(T)}] \in Int
      BY <2>2, <3>1
    <3>3. G(S)[T] = f[Pick(T)] + G(S)[T \ {Pick(T)}]
      BY <1>5, <2>2, Zenon
    <3>. QED
      BY <3>2, <3>3
  <2> HIDE DEF Q
  <2>3. SUBSET S \subseteq Q
    BY <2>1, <2>2, SubsetInduction
  <2>. QED
    BY <2>3 DEF Q
<1>7. \A T \in SUBSET S : \A x \in T : G(S)[T] = f[x] + G(S)[T \ {x}]
  <2> DEFINE Q == {T \in SUBSET S : \A x \in T : G(S)[T] = f[x] + G(S)[T \ {x}]}
  <2>1. {} \in Q
    OBVIOUS
  <2>2. ASSUME NEW T \in SUBSET S, T # {}, \A x \in T : T \ {x} \in Q PROVE T \in Q
    <3> SUFFICES ASSUME NEW x \in T PROVE G(S)[T] = f[x] + G(S)[T \ {x}]
      OBVIOUS
    <3>1. PICK c \in T : c = Pick(T)
      BY <2>2, PickIn
    <3>2. G(S)[T] = f[c] + G(S)[T \ {c}]
      BY <1>5, <2>2, <3>1
    <3>3. CASE x # c
      <4>1. G(S)[T \ {c}] = f[x] + G(S)[(T \ {c}) \ {x}]
        <5>1. T \ {c} \in Q /\ x \in T \ {c}
          BY <2>2, <3>3
        <5>. QED
          BY <5>1
      <4>2. G(S)[T \ {x}] = f[c] + G(S)[(T \ {x}) \ {c}]
        <5>1. T \ {x} \in Q /\ c \in T \ {x}
          BY <2>2, <3>3
        <5>. QED
          BY <5>1
      <4>3. (T \ {c}) \ {x} = (T \ {x}) \ {c} /\ (T \ {x}) \ {c} \in SUBSET S
        OBVIOUS
      <4>4. PICK v \in Int : v = G(S)[(T \ {x}) \ {c}] /\ v = G(S)[(T \ {c}) \ {x}]
        BY <1>6, <4>3
      <4>5. f[x] \in Int /\ f[c] \in Int
        OBVIOUS
      <4>. QED
        BY <3>2, <4>1, <4>2, <4>4, <4>5
    <3>. QED
      BY <3>2, <3>3
  <2> HIDE DEF Q
  <2>3. SUBSET S \subseteq Q
    BY <2>1, <2>2, SubsetInduction
  <2>. QED
    BY <2>3 DEF Q
<1>8. {} \in SUBSET S /\ \A T \in SUBSET S : \A x \in T : T \ {x} \in SUBSET S
  OBVIOUS
<1>9. SumFunctionOnSet(f, {}) = 0
  BY <1>4, <1>5, <1>8, Zenon
<1>10. ASSUME NEW T \in SUBSET S, NEW x \in T
       PROVE  SumFunctionOnSet(f, T) = f[x] + SumFunctionOnSet(f, T \ {x})
  <2>1. T \ {x} \in SUBSET S
    OBVIOUS
  <2>2. SumFunctionOnSet(f, T) = G(S)[T] /\ SumFunctionOnSet(f, T \ {x}) = G(S)[T \ {x}]
    BY <1>4, <2>1
  <2>. QED
    BY <1>7, <2>2
<1>. QED
  BY <1>4, <1>6, <1>9, <1>10

(* Two sums of the same numbers, whatever their indices *)
LEMMA SumBijection ==
  ASSUME NEW S, IsFiniteSet(S), NEW R, NEW b \in Bijection(S, R), NEW f, NEW g,
         \A x \in S : f[x] \in Int /\ g[b[x]] = f[x]
  PROVE  SumFunctionOnSet(f, S) = SumFunctionOnSet(g, R)
<1>1. /\ \A x \in S : b[x] \in R
      /\ \A x, y \in S : b[x] = b[y] => x = y
      /\ \A z \in R : \E x \in S : b[x] = z
  BY DEF Bijection, Injection, Surjection, IsInjective
<1>2. IsFiniteSet(R) /\ \A z \in R : g[z] \in Int
  <2>1. ExistsBijection(S, R)
    BY DEF ExistsBijection
  <2>. QED
    BY <1>1, <2>1, FS_Bijection
<1> DEFINE Im(T) == {b[x] : x \in T}
           Q == {T \in SUBSET S : SumFunctionOnSet(f, T) = SumFunctionOnSet(g, Im(T))}
<1>3. {} \in Q
  <2>1. Im({}) = {}
    OBVIOUS
  <2>2. SumFunctionOnSet(f, {}) = 0 /\ SumFunctionOnSet(g, {}) = 0
    BY <1>2, SumFacts
  <2>. QED
    BY <2>1, <2>2
<1>4. ASSUME NEW T \in SUBSET S, T # {}, \A x \in T : T \ {x} \in Q PROVE T \in Q
  <2>1. PICK x \in T : TRUE
    BY <1>4
  <2>2. Im(T) \in SUBSET R /\ b[x] \in Im(T)
    BY <1>1
  <2>3. Im(T \ {x}) = Im(T) \ {b[x]}
    BY <1>1
  <2>4. SumFunctionOnSet(f, T) = f[x] + SumFunctionOnSet(f, T \ {x})
    BY SumFacts
  <2>5. SumFunctionOnSet(g, Im(T)) = g[b[x]] + SumFunctionOnSet(g, Im(T) \ {b[x]})
    <3> HIDE DEF Im
    <3>. QED
      BY <1>2, <2>2, SumFacts
  <2>6. SumFunctionOnSet(f, T \ {x}) = SumFunctionOnSet(g, Im(T \ {x}))
    BY <1>4
  <2>7. g[b[x]] = f[x]
    OBVIOUS
  <2>8. SumFunctionOnSet(f, T) = SumFunctionOnSet(g, Im(T))
    <3> HIDE DEF Im
    <3>. QED
      BY <2>3, <2>4, <2>5, <2>6, <2>7, Zenon
  <2>. QED
    BY <2>8
<1>5. S \in Q
  <2> HIDE DEF Q
  <2>1. SUBSET S \subseteq Q
    BY <1>3, <1>4, SubsetInduction
  <2>. QED
    BY <2>1
<1>6. Im(S) = R
  BY <1>1
<1>. QED
  BY <1>5, <1>6

-----------------------------------------------------------------------------
(* What a sample counts *)

(* The two sums of SampleExact, over the log and over the history *)
LoggedOpportunities(tx) ==
  MapThenSumSet(LAMBDA i : Cardinality(tx[i].eligible), DOMAIN tx)

SentOpportunities(sent) == MapThenSumSet(LAMBDA t : Cardinality(t.ev.eligible), sent)

(* Both are sums of numbers. *)
LEMMA LoggedOpportunitiesIsSum ==
  ASSUME NEW tx, IsFiniteSet(DOMAIN tx)
  PROVE  LoggedOpportunities(tx)
           = SumFunctionOnSet([i \in DOMAIN tx |-> Cardinality(tx[i].eligible)], DOMAIN tx)
<1> DEFINE D == DOMAIN tx
           f == [i \in D |-> Cardinality(tx[i].eligible)]
           Eq(g) == g = [s \in SUBSET D |-> IF s = {} THEN 0
                           ELSE Cardinality(tx[Pick(s)].eligible) + g[s \ {Pick(s)}]]
<1>1. LoggedOpportunities(tx) = (CHOOSE g : Eq(g))[D]
  BY Zenon DEF LoggedOpportunities, MapThenSumSet, MapThenFoldSet, Pick
<1>2. ASSUME NEW s \in SUBSET D, s # {} PROVE f[Pick(s)] = Cardinality(tx[Pick(s)].eligible)
  <2>1. Pick(s) \in D
    BY <1>2, PickIn
  <2>. QED
    BY <2>1
<1>3. ASSUME NEW g PROVE Eq(g) <=> IsSum(g, f, SUBSET D)
  <2>1. [s \in SUBSET D |-> IF s = {} THEN 0
                           ELSE Cardinality(tx[Pick(s)].eligible) + g[s \ {Pick(s)}]]
        = [s \in SUBSET D |-> IF s = {} THEN 0 ELSE f[Pick(s)] + g[s \ {Pick(s)}]]
    <3>1. ASSUME NEW s \in SUBSET D
          PROVE (IF s = {} THEN 0
                           ELSE Cardinality(tx[Pick(s)].eligible) + g[s \ {Pick(s)}])
                 = IF s = {} THEN 0 ELSE f[Pick(s)] + g[s \ {Pick(s)}]
      BY <1>2, Zenon
    <3> HIDE DEF f, D
    <3>. QED
      BY <3>1
  <2> HIDE DEF f, D
  <2>. QED
    BY <2>1, Zenon DEF IsSum
<1>4. \E g : Eq(g)
  <2>1. \E g : IsSum(g, f, SUBSET D)
    BY SumExists
  <2> HIDE DEF f, D, Eq
  <2>. QED
    BY <1>3, <2>1, Zenon
<1>5. PICK g : g = CHOOSE h : Eq(h)
  OBVIOUS
<1>6. Eq(g)
  <2> HIDE DEF Eq
  <2>. QED
    BY <1>4, <1>5, Zenon
<1>7. IsSum(g, f, SUBSET D)
  BY <1>3, <1>6
<1>8. SumFunctionOnSet(f, D) = g[D]
  <2> HIDE DEF f, D
  <2>. QED
    BY <1>7, SumUnique DEF D
<1>. QED
  BY <1>1, <1>5, <1>8, Zenon
LEMMA SentOpportunitiesIsSum ==
  ASSUME NEW sent, IsFiniteSet(sent)
  PROVE  SentOpportunities(sent)
           = SumFunctionOnSet([t \in sent |-> Cardinality(t.ev.eligible)], sent)
<1> DEFINE D == sent
           f == [t \in D |-> Cardinality(t.ev.eligible)]
           Eq(g) == g = [s \in SUBSET D |-> IF s = {} THEN 0
                           ELSE Cardinality(Pick(s).ev.eligible) + g[s \ {Pick(s)}]]
<1>1. SentOpportunities(sent) = (CHOOSE g : Eq(g))[D]
  BY Zenon DEF SentOpportunities, MapThenSumSet, MapThenFoldSet, Pick
<1>2. ASSUME NEW s \in SUBSET D, s # {} PROVE f[Pick(s)] = Cardinality(Pick(s).ev.eligible)
  <2>1. Pick(s) \in D
    BY <1>2, PickIn
  <2>. QED
    BY <2>1
<1>3. ASSUME NEW g PROVE Eq(g) <=> IsSum(g, f, SUBSET D)
  <2>1. [s \in SUBSET D |-> IF s = {} THEN 0
                           ELSE Cardinality(Pick(s).ev.eligible) + g[s \ {Pick(s)}]]
        = [s \in SUBSET D |-> IF s = {} THEN 0 ELSE f[Pick(s)] + g[s \ {Pick(s)}]]
    <3>1. ASSUME NEW s \in SUBSET D
          PROVE (IF s = {} THEN 0
                           ELSE Cardinality(Pick(s).ev.eligible) + g[s \ {Pick(s)}])
                 = IF s = {} THEN 0 ELSE f[Pick(s)] + g[s \ {Pick(s)}]
      BY <1>2, Zenon
    <3> HIDE DEF f, D
    <3>. QED
      BY <3>1
  <2> HIDE DEF f, D
  <2>. QED
    BY <2>1, Zenon DEF IsSum
<1>4. \E g : Eq(g)
  <2>1. \E g : IsSum(g, f, SUBSET D)
    BY SumExists
  <2> HIDE DEF f, D, Eq
  <2>. QED
    BY <1>3, <2>1, Zenon
<1>5. PICK g : g = CHOOSE h : Eq(h)
  OBVIOUS
<1>6. Eq(g)
  <2> HIDE DEF Eq
  <2>. QED
    BY <1>4, <1>5, Zenon
<1>7. IsSum(g, f, SUBSET D)
  BY <1>3, <1>6
<1>8. SumFunctionOnSet(f, D) = g[D]
  <2> HIDE DEF f, D
  <2>. QED
    BY <1>7, SumUnique DEF D
<1>. QED
  BY <1>1, <1>5, <1>8, Zenon

(* The receptions that SampleAndWrite counts, and those of the history *)
Received(tx, rx) ==
  {Triple(rx[i]) : i \in {j \in DOMAIN rx : TxKey(rx[j]) \in {TxKey(tx[k]) : k \in DOMAIN tx}}}

Answers(heard, window) == {r \in heard : TxKey(r.ev) \in {TxKey(t.ev) : t \in window}}

(* A log that holds exactly what was sent since c, and the receptions of   *)
(* it                                                                      *)
LogsWindow(tx, rx, triples, sent, heard, c, window) ==
  /\ LogOf(tx, rx, triples, sent, heard) /\ heard \subseteq Heard
  /\ \A r, s \in heard : Triple(r.ev) = Triple(s.ev) => r = s
  /\ \A t, u \in sent : TxKey(t.ev) = TxKey(u.ev) => t = u
  /\ \A t \in sent : IsFiniteSet(t.ev.eligible)
  /\ window = {t \in sent : t.ev.time >= c}
  /\ \A t \in window : \E i \in 1..Len(tx) : tx[i] = t.ev
  /\ \A i \in 1..Len(tx) : tx[i].time >= c

(* Such a log yields the counts of the history. *)
LEMMA SampleCounts ==
  ASSUME NEW tx, NEW rx, NEW triples, NEW sent, NEW heard, NEW c \in Int, NEW window,
         LogsWindow(tx, rx, triples, sent, heard, c, window)
  PROVE  /\ Len(tx) = Cardinality(window)
         /\ LoggedOpportunities(tx) = SentOpportunities(window)
         /\ Cardinality(Received(tx, rx)) = Cardinality(Answers(heard, window))
<1> SUFFICES ASSUME LogOf(tx, rx, triples, sent, heard), heard \subseteq Heard,
                    \A r, s \in heard : Triple(r.ev) = Triple(s.ev) => r = s,
                    \A t, u \in sent : TxKey(t.ev) = TxKey(u.ev) => t = u,
                    \A t \in sent : IsFiniteSet(t.ev.eligible),
                    window = {t \in sent : t.ev.time >= c},
                    \A t \in window : \E i \in 1..Len(tx) : tx[i] = t.ev,
                    \A i \in 1..Len(tx) : tx[i].time >= c
             PROVE  /\ Len(tx) = Cardinality(window)
                    /\ LoggedOpportunities(tx) = SentOpportunities(window)
                    /\ Cardinality(Received(tx, rx)) = Cardinality(Answers(heard, window))
  BY Zenon DEF LogsWindow
<1>1. /\ tx \in Seq(TxEvent) /\ DistinctKeys(tx)
      /\ \A i \in 1..Len(tx) : \E t \in sent : t.ev = tx[i]
      /\ rx \in Seq(RxEvent) /\ triples = Triples(rx)
      /\ \A i \in 1..Len(rx) : \E r \in heard : r.ev = rx[i]
      /\ \A r \in heard : \A j \in 1..Len(tx) :
           TxKey(tx[j]) = TxKey(r.ev) => Triple(r.ev) \in triples
  BY DEF LogOf
<1>2. PICK n \in Nat : Len(tx) = n /\ DOMAIN tx = 1..n
  BY <1>1, LenProperties
<1>3. \A i \in 1..n : \E t \in window : t.ev = tx[i]
  BY <1>1, <1>2
<1> DEFINE b == [i \in 1..n |-> CHOOSE t \in window : t.ev = tx[i]]
<1>4. \A i \in 1..n : b[i] \in window /\ b[i].ev = tx[i]
  BY <1>3
<1>5. b \in Bijection(1..n, window)
  <2>1. b \in [1..n -> window]
    BY <1>3
  <2> HIDE DEF b
  <2>2. \A i, j \in 1..n : b[i] = b[j] => i = j
    <3> SUFFICES ASSUME NEW i \in 1..n, NEW j \in 1..n, b[i] = b[j] PROVE i = j
      OBVIOUS
    <3>1. TxKey(tx[i]) = TxKey(tx[j])
      BY <1>4, Zenon
    <3>. QED
      BY <1>1, <1>2, <3>1, Zenon DEF DistinctKeys
  <2>3. \A t \in window : \E i \in 1..n : b[i] = t
    <3> SUFFICES ASSUME NEW t \in window PROVE \E i \in 1..n : b[i] = t
      OBVIOUS
    <3>1. PICK i \in 1..n : tx[i] = t.ev
      BY <1>2
    <3>2. b[i] \in sent /\ t \in sent /\ TxKey(b[i].ev) = TxKey(t.ev)
      BY <1>4, <3>1
    <3>. QED
      BY <3>2, Zenon
  <2>. QED
    BY <2>1, <2>2, <2>3, Zenon DEF Bijection, Injection, Surjection, IsInjective
<1>6. IsFiniteSet(1..n) /\ Cardinality(1..n) = n
  BY FS_Interval
<1> HIDE DEF b
<1>7. IsFiniteSet(window) /\ Cardinality(window) = n
  BY <1>5, <1>6, FS_Bijection DEF ExistsBijection
<1>8. LoggedOpportunities(tx) = SentOpportunities(window)
  <2> DEFINE f == [i \in DOMAIN tx |-> Cardinality(tx[i].eligible)]
             g == [t \in window |-> Cardinality(t.ev.eligible)]
  <2>1. /\ LoggedOpportunities(tx) = SumFunctionOnSet(f, DOMAIN tx)
        /\ SentOpportunities(window) = SumFunctionOnSet(g, window)
    <3>1. LoggedOpportunities(tx) = SumFunctionOnSet(f, DOMAIN tx)
      BY <1>2, <1>6, LoggedOpportunitiesIsSum, Zenon
    <3>2. SentOpportunities(window) = SumFunctionOnSet(g, window)
      BY <1>7, SentOpportunitiesIsSum, Zenon
    <3>. QED
      BY <3>1, <3>2, Zenon
  <2>2. ASSUME NEW i \in 1..n PROVE f[i] \in Int /\ g[b[i]] = f[i]
    <3>1. b[i] \in window /\ b[i].ev = tx[i] /\ b[i] \in sent
      BY <1>4
    <3>2. Cardinality(b[i].ev.eligible) \in Nat
      BY <3>1, FS_CardinalityType
    <3>3. f[i] = Cardinality(tx[i].eligible) /\ g[b[i]] = Cardinality(b[i].ev.eligible)
      BY <1>2, <3>1
    <3> HIDE DEF f, g
    <3>. QED
      BY <3>1, <3>2, <3>3
  <2> HIDE DEF f, g
  <2>3. SumFunctionOnSet(f, 1..n) = SumFunctionOnSet(g, window)
    BY <1>5, <1>6, <2>2, SumBijection
  <2>. QED
    BY <1>2, <2>1, <2>3, Zenon
<1> DEFINE keys == {TxKey(tx[i]) : i \in DOMAIN tx}
           sentKeys == {TxKey(t.ev) : t \in window}
           A == {r \in heard : TxKey(r.ev) \in sentKeys}
           B == {Triple(rx[i]) : i \in {j \in DOMAIN rx : TxKey(rx[j]) \in keys}}
<1>9. keys = sentKeys
  <2>1. ASSUME NEW i \in 1..n PROVE \E t \in window : TxKey(t.ev) = TxKey(tx[i])
    BY <1>4, Zenon
  <2>2. ASSUME NEW t \in window PROVE \E i \in 1..n : TxKey(tx[i]) = TxKey(t.ev)
    BY <1>2
  <2>. QED
    BY <1>2, <2>1, <2>2
<1>10. PICK m \in Nat : Len(rx) = m /\ DOMAIN rx = 1..m
  BY <1>1, LenProperties
<1> DEFINE h == [r \in A |-> Triple(r.ev)]
<1>11. \A e, k \in RxEvent : Triple(e) = Triple(k) => TxKey(e) = TxKey(k)
  BY DEF Triple, TxKey
<1>12. \A r \in heard : r.ev \in RxEvent
  BY DEF Heard
<1>13. ASSUME NEW r \in A PROVE Triple(r.ev) \in B
  <2>1. PICK j \in 1..n : TxKey(tx[j]) = TxKey(r.ev)
    BY <1>2, <1>9
  <2>2. Triple(r.ev) \in Triples(rx)
    BY <1>1, <1>2, <2>1
  <2>3. PICK i \in 1..m : Triple(rx[i]) = Triple(r.ev)
    BY <1>10, <2>2 DEF Triples
  <2>4. TxKey(rx[i]) = TxKey(r.ev)
    <3>1. rx[i] \in RxEvent
      BY <1>1, <1>10, ElementOfSeq
    <3>. QED
      BY <1>11, <1>12, <2>3, <3>1
  <2>5. TxKey(rx[i]) \in keys
    BY <1>9, <2>4
  <2>. QED
    BY <1>10, <2>3, <2>5
<1>14. ASSUME NEW x \in B PROVE \E r \in A : Triple(r.ev) = x
  <2>1. PICK i \in 1..m : TxKey(rx[i]) \in keys /\ Triple(rx[i]) = x
    BY <1>10
  <2>2. PICK r \in heard : r.ev = rx[i]
    BY <1>1, <1>10, <2>1
  <2>3. TxKey(r.ev) \in sentKeys
    BY <1>9, <2>1, <2>2
  <2>. QED
    BY <2>1, <2>2, <2>3
<1>15. \A r, s \in A : Triple(r.ev) = Triple(s.ev) => r = s
  OBVIOUS
<1> HIDE DEF A, B
<1>16. h \in Bijection(A, B)
  <2>1. h \in [A -> B]
    BY <1>13
  <2>. QED
    BY <1>14, <1>15, <2>1, Zenon DEF Bijection, Injection, Surjection, IsInjective
<1>17. IsFiniteSet(B)
  <2> DEFINE J == {j \in DOMAIN rx : TxKey(rx[j]) \in keys}
             k == [j \in J |-> Triple(rx[j])]
  <2>1. IsFiniteSet(1..m)
    BY FS_Interval
  <2>2. IsFiniteSet(J)
    BY <1>10, <2>1, FS_Subset
  <2>3. k \in Surjection(J, B)
    BY DEF B, Surjection
  <2> HIDE DEF J, k
  <2>. QED
    BY <2>2, <2>3, FS_Surjection
<1> HIDE DEF h
<1>18. Cardinality(A) = Cardinality(B)
  <2>1. IsFiniteSet(A)
    <3>1. h \in Injection(A, B)
      BY <1>16 DEF Bijection
    <3>. QED
      BY <1>17, <3>1, FS_Injection
  <2>. QED
    BY <1>16, <2>1, FS_Bijection DEF ExistsBijection
<1>. QED
  <2>1. A = Answers(heard, window) /\ B = Received(tx, rx)
    BY Zenon DEF A, B, Answers, Received
  <2>. QED
    BY <1>2, <1>7, <1>8, <1>18, <2>1, Zenon

(* SampleAndWrite counts the window of the history. *)
LEMMA SampleMatchesHistory ==
  ASSUME KpiInv, SentKept, SampleAndWrite, NEW window,
         window = {t \in allTx : t.ev.time >= now - KpiWindow}
  PROVE  /\ latestSample'.tx = Cardinality(window)
         /\ latestSample'.denom = SentOpportunities(window)
         /\ latestSample'.numer = Cardinality(Answers(allRx, window))
<1>1. /\ now' = now /\ now \in Nat /\ allTx' = allTx /\ allRx' = allRx
      /\ PruneOldEvents(txEvents, rxEvents, loggedRxTriples)
  BY DEF SampleAndWrite, histVars, KpiInv, LogType
<1>2. PICK p : p = Pruned(txEvents, rxEvents, loggedRxTriples)
  OBVIOUS
<1>3. txEvents' = p.tx /\ rxEvents' = p.rx /\ loggedRxTriples' = p.triples
  BY <1>1, <1>2 DEF PruneOldEvents
<1>4. latestSample' =
        [time  |-> now,
         tx    |-> Len(Pruned(txEvents, rxEvents, loggedRxTriples).tx),
         denom |-> LoggedOpportunities(Pruned(txEvents, rxEvents, loggedRxTriples).tx),
         numer |-> Cardinality(Received(Pruned(txEvents, rxEvents, loggedRxTriples).tx,
                                        Pruned(txEvents, rxEvents, loggedRxTriples).rx))]
  BY Zenon DEF SampleAndWrite, LoggedOpportunities, Received
<1>5. /\ latestSample'.tx = Len(p.tx) /\ latestSample'.denom = LoggedOpportunities(p.tx)
      /\ latestSample'.numer = Cardinality(Received(p.tx, p.rx))
  BY <1>2, <1>4
<1>6. KpiInv' /\ SentKept'
  <2>1. SentKept'
    BY NextKeepsSentKept DEF KpiNext
  <2>. QED
    BY <2>1, SampleKeepsKpiInv
<1>7. LogOf(p.tx, p.rx, p.triples, allTx, allRx)
  BY <1>1, <1>3, <1>6, Zenon DEF KpiInv, WindowInv
<1>8. /\ allRx \subseteq Heard
      /\ \A r, s \in allRx : Triple(r.ev) = Triple(s.ev) => r = s
  BY Zenon DEF KpiInv, LogType, CountedOnce
<1>9. /\ \A t, u \in allTx : TxKey(t.ev) = TxKey(u.ev) => t = u
      /\ \A t \in allTx : IsFiniteSet(t.ev.eligible)
  BY Zenon DEF SentKept
<1>10. \A t \in window : \E i \in 1..Len(p.tx) : p.tx[i] = t.ev
  BY <1>1, <1>3, <1>6, Zenon DEF SentKept
<1>11. \A i \in 1..Len(p.tx) : p.tx[i].time >= now - KpiWindow
  <2>1. /\ txEvents \in Seq(TxEvent) /\ rxEvents \in Seq(RxEvent)
        /\ Ordered(txEvents) /\ DistinctKeys(txEvents) /\ DistinctTriples(rxEvents)
        /\ loggedRxTriples = Triples(rxEvents)
    BY Zenon DEF KpiInv, WindowInv, LogOf
  <2>2. \A i \in 1..Len(txEvents') : txEvents'[i].time >= now - KpiWindow
    BY <1>1, <2>1, PruneFacts
  <2>. QED
    BY <1>3, <2>2, Zenon
<1>12. now - KpiWindow \in Int
  BY <1>1, KpiAssumption
<1>13. PICK c \in Int : c = now - KpiWindow
  BY <1>12
<1>14. PICK tx, rx, triples : tx = p.tx /\ rx = p.rx /\ triples = p.triples
  OBVIOUS
<1>15. /\ Len(tx) = Cardinality(window)
       /\ LoggedOpportunities(tx) = SentOpportunities(window)
       /\ Cardinality(Received(tx, rx)) = Cardinality(Answers(allRx, window))
  <2>1. /\ LogOf(tx, rx, triples, allTx, allRx)
        /\ window = {t \in allTx : t.ev.time >= c}
        /\ \A t \in window : \E i \in 1..Len(tx) : tx[i] = t.ev
        /\ \A i \in 1..Len(tx) : tx[i].time >= c
    BY <1>7, <1>10, <1>11, <1>13, <1>14, Zenon
  <2>. QED
    <3>1. LogsWindow(tx, rx, triples, allTx, allRx, c, window)
      BY <1>8, <1>9, <2>1, Zenon DEF LogsWindow
    <3>. QED
      BY <3>1, SampleCounts
<1>. QED
  BY <1>5, <1>14, <1>15, Zenon

-----------------------------------------------------------------------------
(* The pool and the logger together keep the invariant. *)
THEOREM KpiInvariant == KpiSpec => []KpiInv
<1>1. KpiInv /\ [KpiNext]_<<vars, kpiVars>> => KpiInv'
  <2> SUFFICES ASSUME KpiInv, [KpiNext]_<<vars, kpiVars>> PROVE KpiInv'
    OBVIOUS
  <2>1. CASE UNCHANGED <<vars, kpiVars>>
    <3>1. /\ now' = now /\ now \in Nat /\ UNCHANGED vars /\ served' = served /\ allTx' = allTx
          /\ UNCHANGED <<nextKpiSequence, air, logVars, histVars>>
          /\ nextKpiSequence' = nextKpiSequence /\ vehicleIdToNodeId' = vehicleIdToNodeId
      BY <2>1 DEF KpiInv, LogType, kpiVars, histVars, vars, poolVars
    <3>2. PoolInv'
      BY <3>1, NextPreservesPoolInv DEF KpiInv
    <3>3. /\ LogType' /\ WindowInv' /\ HeardInv' /\ CountedOnce' /\ CreditedToListener'
          /\ LastInv' /\ PirInv'
      <4>1. now \in Nat /\ now' \in Nat /\ now <= now'
        BY <3>1
      <4>. QED
        BY <3>1, <4>1, LogsUnchanged
    <3>4. ServedInv' /\ SentInv'
      BY <3>1, Zenon DEF KpiInv, ServedInv, SentInv
    <3>. QED
      BY <3>2, <3>3, <3>4, Zenon DEF KpiInv
  <2>2. CASE PoolStep
    BY <2>2, PoolStepKeepsKpiInv
  <2>3. CASE Tick
    BY <2>3, TickKeepsKpiInv
  <2>4. CASE SampleAndWrite
    BY <2>4, SampleKeepsKpiInv
  <2>5. ASSUME NEW n \in Nodes, TagAndLogTx(n) PROVE KpiInv'
    BY <2>5, TagAndLogTxKeepsKpiInv
  <2>6. ASSUME NEW n \in Nodes, NEW p \in air, ReceiveCam(n, p) PROVE KpiInv'
    BY <2>6, ReceiveCamKeepsKpiInv
  <2>. QED
    BY <2>1, <2>2, <2>3, <2>4, <2>5, <2>6, Zenon DEF KpiNext
<1>. QED
  BY <1>1, InitKpiInv, PTL DEF KpiSpec

(* Vehicle and sequence number identify a transmission in the window,      *)
(* although the counter belongs to the node and goes on when the node      *)
(* changes hands (CamApplication::TagAndLogTx).                            *)
THEOREM KpiTxKeysUnique == KpiSpec => []TxKeysUnique
<1>1. KpiInv => TxKeysUnique
  <2> SUFFICES ASSUME KpiInv PROVE TxKeysUnique
    OBVIOUS
  <2>1. txEvents \in Seq(TxEvent) /\ DistinctKeys(txEvents)
    BY Zenon DEF KpiInv, WindowInv, LogOf
  <2>2. DOMAIN txEvents = 1..Len(txEvents)
    BY <2>1, LenProperties
  <2>. QED
    BY <2>1, <2>2, Zenon DEF TxKeysUnique, DistinctKeys
<1>. QED
  BY <1>1, KpiInvariant, PTL

(* m_loggedRxTriples is exactly the set of receptions in m_rxEvents: it    *)
(* does not grow beyond the window and forgets nothing inside it           *)
(* (KpiLogger::PruneOldEvents).                                            *)
THEOREM KpiFilterExact == KpiSpec => []FilterExact
<1>1. KpiInv => FilterExact
  <2> SUFFICES ASSUME KpiInv PROVE FilterExact
    OBVIOUS
  <2>1. /\ rxEvents \in Seq(RxEvent) /\ DistinctTriples(rxEvents)
        /\ loggedRxTriples = Triples(rxEvents)
    BY Zenon DEF KpiInv, WindowInv, LogOf
  <2>2. PICK n \in Nat : Len(rxEvents) = n /\ DOMAIN rxEvents = 1..n
    BY <2>1, LenProperties
  <2>3. loggedRxTriples = {Triple(rxEvents[i]) : i \in DOMAIN rxEvents}
    BY <2>1, <2>2, Zenon DEF Triples
  <2> DEFINE f == [i \in 1..n |-> Triple(rxEvents[i])]
  <2>4. f \in Bijection(1..n, loggedRxTriples)
    <3>1. f \in [1..n -> loggedRxTriples]
      BY <2>2, <2>3
    <3>2. \A i, j \in 1..n : f[i] = f[j] => i = j
      BY <2>1, <2>2, Zenon DEF DistinctTriples
    <3>3. \A x \in loggedRxTriples : \E i \in 1..n : f[i] = x
      BY <2>2, <2>3
    <3>. QED
      BY <3>1, <3>2, <3>3, Zenon DEF Bijection, Injection, Surjection, IsInjective
  <2>5. IsFiniteSet(1..n) /\ Cardinality(1..n) = n
    BY FS_Interval
  <2> HIDE DEF f
  <2>6. Cardinality(loggedRxTriples) = n
    BY <2>4, <2>5, FS_Bijection DEF ExistsBijection
  <2>. QED
    BY <2>2, <2>3, <2>6, Zenon DEF FilterExact
<1>. QED
  BY <1>1, KpiInvariant, PTL

(* LogRx never counts two copies of a CAM for the same receiver, however   *)
(* late the second one arrives.                                            *)
THEOREM KpiCountedOnce == KpiSpec => []CountedOnce
<1>1. KpiInv => CountedOnce
  BY DEF KpiInv
<1>. QED
  BY <1>1, KpiInvariant, PTL

(* A reception is credited to a vehicle that was an opportunity of the     *)
(* transmission and still sits on the node it sat on then, although        *)
(* ReceiveCam looks the vehicle up when the CAM arrives.                   *)
THEOREM KpiCreditedToListener == KpiSpec => []CreditedToListener
<1>1. KpiInv => CreditedToListener
  BY DEF KpiInv
<1>. QED
  BY <1>1, KpiInvariant, PTL

(* The PIR of a reception is the distance to the previous counted          *)
(* reception of the pair (m_lastRxTimePerPair, KpiLogger::LogRx).          *)
THEOREM KpiPirExact == KpiSpec => []PirExact
<1>1. KpiInv => PirExact
  BY PirInvIsPirExact DEF KpiInv
<1>. QED
  BY <1>1, KpiInvariant, PTL

(* Whatever is sent stays in the log as long as it counts. *)
THEOREM KpiSentKept == KpiSpec => []SentKept
<1>1. KpiInit => SentKept
  BY DEF KpiInit, SentKept
<1>2. KpiInv /\ SentKept /\ [KpiNext]_<<vars, kpiVars>> => SentKept'
  BY NextKeepsSentKept
<1>. QED
  BY <1>1, <1>2, KpiInvariant, PTL DEF KpiSpec

(* Every sample reports exactly the transmissions of the last window,      *)
(* their opportunities and their receptions (KpiLogger::SampleAndWrite),   *)
(* although the logs are pruned step by step by every call of the logger.  *)
THEOREM KpiSampleExact == KpiSpec => SampleExact
<1> DEFINE window == {t \in allTx : t.ev.time >= now - KpiWindow}
           Exact == nextSample' # nextSample =>
             /\ latestSample'.tx = Cardinality(window)
             /\ latestSample'.denom = MapThenSumSet(LAMBDA t : Cardinality(t.ev.eligible), window)
             /\ latestSample'.numer
                  = Cardinality({r \in allRx : TxKey(r.ev) \in {TxKey(t.ev) : t \in window}})
<1>1. ASSUME KpiInv, SentKept, [KpiNext]_<<vars, kpiVars>> PROVE Exact
  <2>1. CASE SampleAndWrite
    <3>1. PICK w : w = window
      OBVIOUS
    <3>2. /\ latestSample'.tx = Cardinality(w) /\ latestSample'.denom = SentOpportunities(w)
          /\ latestSample'.numer = Cardinality(Answers(allRx, w))
      BY <1>1, <2>1, <3>1, SampleMatchesHistory
    <3>3. /\ SentOpportunities(window)
               = MapThenSumSet(LAMBDA t : Cardinality(t.ev.eligible), window)
          /\ Answers(allRx, window)
               = {r \in allRx : TxKey(r.ev) \in {TxKey(t.ev) : t \in window}}
      BY Zenon DEF SentOpportunities, Answers
    <3> HIDE DEF window
    <3>. QED
      BY <3>1, <3>2, <3>3, Zenon
  <2>2. CASE ~SampleAndWrite
    <3>1. nextSample' = nextSample
      BY <1>1, <2>2, Zenon DEF KpiNext, PoolStep, Tick, TagAndLogTx, ReceiveCam, kpiVars
    <3>. QED
      BY <3>1, Zenon
  <2>. QED
    BY <2>1, <2>2
<1>2. KpiInv /\ SentKept /\ [KpiNext]_<<vars, kpiVars>> => [Exact]_<<vars, kpiVars>>
  BY <1>1, Zenon
<1>. QED
  BY <1>2, KpiInvariant, KpiSentKept, PTL DEF KpiSpec, SampleExact

(* Logging does not interfere with the pool: seen through the pool's       *)
(* variables every step of the logger is a step of the pool or none, so    *)
(* UEs change hands and fall silent as CamAir promises while CAMs are on   *)
(* their way.                                                              *)
THEOREM KpiImplementsPool == KpiSpec => Spec /\ AirSpec
<1>1. KpiInit => Init
  BY DEF KpiInit
<1>2. ASSUME KpiInv, [KpiNext]_<<vars, kpiVars>> PROVE [Next]_vars
  <2>1. CASE PoolStep
    BY <1>2, <2>1, PoolStepMaps DEF KpiInv
  <2>2. ASSUME UNCHANGED <<vars, kpiVars>> PROVE UNCHANGED vars
    BY <2>2
  <2>3. ASSUME Tick PROVE UNCHANGED vars
    BY <2>3 DEF Tick
  <2>4. ASSUME SampleAndWrite PROVE UNCHANGED vars
    BY <2>4, Zenon DEF SampleAndWrite
  <2>5. ASSUME NEW n \in Nodes, TagAndLogTx(n) PROVE UNCHANGED vars
    BY <2>5, Zenon DEF TagAndLogTx
  <2>6. ASSUME NEW n \in Nodes, NEW p \in air, ReceiveCam(n, p) PROVE UNCHANGED vars
    BY <2>6, Zenon DEF ReceiveCam
  <2>. QED
    BY <1>2, <2>1, <2>2, <2>3, <2>4, <2>5, <2>6, Zenon DEF KpiNext
<1>3. KpiSpec => Spec
  BY <1>1, <1>2, KpiInvariant, PTL DEF KpiSpec, Spec
<1>. QED
  BY <1>3, PoolImplementsCamAir, PTL

=============================================================================
