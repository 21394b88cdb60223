--------------------------- MODULE SimulatorProofs --------------------------
(***************************************************************************)
(* Proofs about Simulator for every set of delays and every bound on the   *)
(* uids, posts, destroy events and calls of Run: types, that an EventId    *)
(* tells the truth about its event, that no event is lost or runs twice,   *)
(* and that the event loop implements the agenda of EventAgenda.           *)
(*                                                                         *)
(* The heart is OrderInv.  An id is compared with the key of the current   *)
(* event only, so two facts make IsExpired right: whatever is scheduled    *)
(* lies after the current key, and an id whose event is neither scheduled  *)
(* nor taken back does not.  ProcessOneEvent keeps both because it moves   *)
(* the current key to the least one that is left.                          *)
(***************************************************************************)
EXTENDS Simulator, FiniteSetTheorems, SequenceTheorems, WellFoundedInduction, TLAPS

(* The uids that have been given out, and the keys they can be part of *)
Given == FirstUid..(uid - 1)
Keys == [ts : Nat, uid : Given]

(* A key lies after the one of the current event. *)
IsLater(e) == e.ts > currentTs \/ (e.ts = currentTs /\ e.uid > currentUid)

ThreadType ==
  /\ pc \in {"program", "lookAtFlag", "swap", "loop", "event", "destroying",
             "destroyEvent", "dispose", "disposed"}
  /\ caller \in {"Run", "ProcessOneEvent", "DoDispose"}

KeyType ==
  /\ uid \in Nat /\ uid >= FirstUid
  /\ currentTs \in Nat /\ currentUid \in Nat /\ currentUid < uid
  /\ events \subseteq Keys /\ ids \subseteq Keys
  /\ cancelled \subseteq Given
  /\ fired \in Seq(Given)

ListType == withContext \in Seq(Nat) /\ posts \in Nat

DestroyType == destroys \in Nat /\ destroyEvents \in Seq(1..destroys)

TypeInv == ThreadType /\ KeyType /\ ListType /\ DestroyType

(* The flag, which only the main thread reads without the mutex, is right  *)
(* whenever the mutex is free.                                             *)
FlagInv ==
  /\ withContextEmpty \in BOOLEAN
  /\ withContextEmpty <=> withContext = <<>>
  /\ pc = "swap" => withContext # <<>>

(* A uid belongs to one key. *)
UniqueInv == \A a, b \in events \cup ids : a.uid = b.uid => a = b

OrderInv ==
  pc # "disposed" =>
    /\ \A e \in events : IsLater(e)
    /\ \A id \in ids : IsLater(id) => id \in events \/ id.uid \in cancelled

(* Where an event can be *)
PlaceInv ==
  /\ IsFiniteSet(events) /\ IsFiniteSet(ids) /\ IsFiniteSet(cancelled)
  /\ pc # "disposed" =>
       /\ \A i, j \in 1..Len(fired) : fired[i] = fired[j] => i = j
       /\ \A i \in 1..Len(fired) : fired[i] \notin uids(events) \cup cancelled

(* Uids that were taken back and are not scheduled any more *)
Gone == cancelled \ uids(events)

(* What came in is what waits, has run, is scheduled or was taken back. *)
Balanced(scheduled, posted, waiting, run, pending, gone) ==
  scheduled + posted = waiting + run + pending + gone

CountInv ==
  pc # "disposed" =>
    /\ unscheduled = Cardinality(events)
    /\ Balanced(Cardinality(ids), posts, Len(withContext), Len(fired),
                Cardinality(events), Cardinality(Gone))

SimInv == TypeInv /\ FlagInv /\ UniqueInv /\ OrderInv /\ PlaceInv /\ CountInv

-----------------------------------------------------------------------------
(* Facts about data *)

(* A set of numbers that is not empty has a least element. *)
LEMMA LeastNumber ==
  ASSUME NEW S, S \subseteq Nat, S # {}
  PROVE  \E m \in S : \A y \in S : m <= y
<1>1. PICK m \in S : \A y \in S : ~(<<y, m>> \in OpToRel(<, Nat))
  BY NatLessThanWellFounded, WFMin, Zenon
<1>2. ASSUME NEW y \in S PROVE m <= y
  <2>1. <<y, m>> \in Nat \X Nat /\ <<y, m>>[1] = y /\ <<y, m>>[2] = m
    OBVIOUS
  <2>2. ~(y < m)
    BY <1>1, <2>1, Zenon DEF OpToRel
  <2>. QED
    BY <2>2
<1>. QED
  BY <1>2

(* PeekNext finds the least key: the least time exists, and of the keys    *)
(* with that time the least uid, which no other key has.                   *)
LEMMA PeekNextIsLeast ==
  ASSUME events \subseteq Keys, events # {}, UniqueInv, uid \in Nat
  PROVE  /\ PeekNext \in events
         /\ \A f \in events \ {PeekNext} : Before(PeekNext, f)
<1>1. \A e \in events : e.ts \in Nat /\ e.uid \in Nat
  BY DEF Keys, Given, FirstUid
<1> DEFINE times == {e.ts : e \in events}
<1>2. PICK t \in times : \A y \in times : t <= y
  BY <1>1, LeastNumber
<1> DEFINE first == {e \in events : e.ts = t}
           numbers == {e.uid : e \in first}
<1>3. PICK n \in numbers : \A y \in numbers : n <= y
  BY <1>1, <1>2, LeastNumber
<1>4. PICK e \in first : e.uid = n
  BY <1>3
<1>5. ASSUME NEW f \in events \ {e} PROVE Before(e, f)
  <2>1. f.ts \in Nat /\ f.uid \in Nat /\ e.ts \in Nat /\ e.uid \in Nat
    BY <1>1
  <2>2. e.ts = t /\ t <= f.ts
    BY <1>2, <1>4
  <2>3. CASE f.ts = t
    <3>1. e.uid <= f.uid
      BY <1>3, <1>4, <2>3
    <3>2. e.uid # f.uid
      BY <1>4, Zenon DEF UniqueInv
    <3>. QED
      BY <2>1, <2>2, <2>3, <3>1, <3>2 DEF Before
  <2>4. CASE f.ts # t
    BY <2>1, <2>2, <2>4 DEF Before
  <2>. QED
    BY <2>3, <2>4
<1>6. \E x \in events : \A f \in events \ {x} : Before(x, f)
  BY <1>4, <1>5
<1>. QED
  BY <1>6, Zenon DEF PeekNext

(* The uids that remain when a key leaves *)
LEMMA UidsWithout ==
  ASSUME UniqueInv, NEW e \in events
  PROVE  uids(events \ {e}) = uids(events) \ {e.uid}
BY Zenon DEF uids, UniqueInv

LEMMA UidsWith ==
  ASSUME NEW S, NEW T
  PROVE  uids(S \cup T) = uids(S) \cup uids(T)
BY Zenon DEF uids

(* Uids of scheduled events have been given out. *)
LEMMA UidsGivenOut ==
  ASSUME TypeInv
  PROVE  uids(events) \subseteq Given
BY DEF TypeInv, KeyType, Keys, uids

-----------------------------------------------------------------------------
(* Every action preserves the invariant. *)

LEMMA InitSimInv == Init => SimInv
<1> SUFFICES ASSUME Init PROVE SimInv
  OBVIOUS
<1>1. TypeInv /\ FlagInv /\ UniqueInv /\ OrderInv
  BY DEF Init, TypeInv, ThreadType, KeyType, ListType, DestroyType, Given, FlagInv, UniqueInv, OrderInv, FirstUid
<1>2. /\ IsFiniteSet({}) /\ Cardinality({}) = 0
  BY FS_EmptySet
<1>3. PlaceInv /\ CountInv
  BY <1>2 DEF Init, PlaceInv, CountInv, Gone, Balanced
<1>. QED
  BY <1>1, <1>3 DEF SimInv

(* The steps that move the main thread and nothing else *)
LEMMA ControlPreserves ==
  ASSUME SimInv, pc # "disposed",
         UNCHANGED <<keyVars, clockVars, listVars, destroyVars>>,
         pc' \in {"program", "lookAtFlag", "swap", "loop", "event", "destroying",
                  "destroyEvent", "dispose"},
         caller' \in {"Run", "ProcessOneEvent", "DoDispose"},
         pc' = "swap" => ~withContextEmpty \/ pc = "swap"
  PROVE  SimInv'
<1> USE DEF SimInv, keyVars, clockVars, listVars, destroyVars
<1>1. TypeInv'
  BY DEF TypeInv, ThreadType, KeyType, ListType, DestroyType, Keys, Given
<1>2. FlagInv'
  BY DEF FlagInv
<1>3. UniqueInv' /\ OrderInv'
  BY DEF UniqueInv, OrderInv, IsLater
<1>4. PlaceInv' /\ CountInv'
  BY DEF PlaceInv, CountInv, Gone, uids
<1>. QED
  BY <1>1, <1>2, <1>3, <1>4

LEMMA MainControlPreserves ==
  ASSUME SimInv,
         \/ Run \/ LookAtFlag \/ EventReturns \/ RunReturns \/ Destroy
         \/ DestroyEventReturns \/ DoDispose \/ Stop
  PROVE  SimInv'
<1>1. TypeInv
  BY DEF SimInv
<1>2. CASE Run \/ EventReturns \/ RunReturns \/ Destroy \/ DestroyEventReturns
             \/ DoDispose
  <2>1. /\ pc # "disposed" /\ pc' # "swap"
        /\ UNCHANGED <<keyVars, clockVars, listVars, destroyVars>>
        /\ pc' \in {"lookAtFlag", "program", "destroying"}
        /\ caller' \in {caller, "Run", "ProcessOneEvent", "DoDispose"}
    BY <1>2 DEF Run, EventReturns, RunReturns, Destroy, DestroyEventReturns, DoDispose
  <2>. QED
    BY <1>1, <2>1, ControlPreserves DEF TypeInv, ThreadType
<1>3. CASE Stop
  <2>1. /\ pc \in {"program", "event", "destroyEvent"} /\ pc' = pc /\ caller' = caller
        /\ UNCHANGED <<keyVars, clockVars, listVars, destroyVars>>
    BY <1>3 DEF Stop, Calling
  <2>. QED
    BY <1>1, <2>1, ControlPreserves DEF TypeInv, ThreadType
<1>4. CASE LookAtFlag
  <2>1. /\ pc = "lookAtFlag" /\ caller' = caller
        /\ UNCHANGED <<keyVars, clockVars, listVars, destroyVars>>
    BY <1>4 DEF LookAtFlag
  <2>2. \/ pc' \in {"loop", "dispose"}
        \/ pc' = "swap" /\ ~withContextEmpty
    BY <1>1, <1>4 DEF LookAtFlag, ReturnToCaller, TypeInv, ThreadType
  <2>. QED
    BY <1>1, <2>1, <2>2, ControlPreserves DEF TypeInv, ThreadType
<1>. QED
  BY <1>2, <1>3, <1>4

LEMMA BalanceKept ==
  ASSUME NEW i \in Nat, NEW p \in Nat, NEW w \in Nat, NEW f \in Nat,
         NEW e \in Nat, NEW g \in Nat, Balanced(i, p, w, f, e, g)
  PROVE  /\ Balanced(i + 1, p, w, f, e + 1, g)
         /\ Balanced(i, p + 1, w + 1, f, e, g)
         /\ Balanced(i, p, 0, f, e + w, g)
         /\ Balanced(i, p, w, f + 1, e - 1, g)
         /\ Balanced(i, p, w, f, e - 1, g + 1)
BY DEF Balanced

(* What the invariant says about the counts, in one place *)
Counted ==
  /\ unscheduled = Cardinality(events)
  /\ Balanced(Cardinality(ids), posts, Len(withContext), Len(fired),
              Cardinality(events), Cardinality(Gone))
  /\ Cardinality(events) \in Nat /\ Cardinality(ids) \in Nat
  /\ IsFiniteSet(Gone) /\ Cardinality(Gone) \in Nat
  /\ Len(withContext) \in Nat /\ Len(fired) \in Nat /\ posts \in Nat

LEMMA Counts ==
  ASSUME SimInv, pc # "disposed"
  PROVE  Counted
<1>1. IsFiniteSet(events) /\ IsFiniteSet(ids) /\ IsFiniteSet(Gone)
  BY FS_Difference DEF SimInv, PlaceInv, Gone
<1>2. /\ Cardinality(events) \in Nat /\ Cardinality(ids) \in Nat
      /\ Cardinality(Gone) \in Nat
  BY <1>1, FS_CardinalityType
<1>3. /\ unscheduled = Cardinality(events)
      /\ Balanced(Cardinality(ids), posts, Len(withContext), Len(fired),
                  Cardinality(events), Cardinality(Gone))
  BY DEF SimInv, CountInv
<1>4. Len(withContext) \in Nat /\ Len(fired) \in Nat /\ posts \in Nat
  BY DEF SimInv, TypeInv, KeyType, ListType
<1>. QED
  BY <1>1, <1>2, <1>3, <1>4 DEF Counted

(* Schedule: the new key lies after the current one, because its uid does. *)
LEMMA SchedulePreserves ==
  ASSUME SimInv, Schedule
  PROVE  SimInv'
<1>0. pc # "disposed"
  BY DEF Schedule, Calling
<1>c. Counted
  BY <1>0, Counts
<1> USE SimulatorAssumption DEF SimInv, TypeInv
<1>1. PICK d \in Delays :
        /\ events' = events \cup {[ts |-> currentTs + d, uid |-> uid]}
        /\ ids' = ids \cup {[ts |-> currentTs + d, uid |-> uid]}
  BY DEF Schedule
<1>2. /\ uid' = uid + 1 /\ unscheduled' = unscheduled + 1
      /\ UNCHANGED <<cancelled, pc, caller, currentTs, currentUid, fired,
                     withContext, withContextEmpty, posts, destroyEvents, destroys>>
      /\ pc # "disposed"
  BY DEF Schedule, ctlVars, clockVars, listVars, destroyVars, Calling
<1>3. /\ currentTs \in Nat /\ currentUid \in Nat /\ uid \in Nat
      /\ currentUid < uid /\ uid >= FirstUid /\ d \in Nat
  BY DEF KeyType
<1>4. PICK e : e = [ts |-> currentTs + d, uid |-> uid]
  OBVIOUS
<1>5. /\ events' = events \cup {e} /\ ids' = ids \cup {e}
      /\ e.ts = currentTs + d /\ e.uid = uid
  BY <1>1, <1>4
<1>6. e \in Keys'
  BY <1>2, <1>3, <1>4 DEF Keys, Given, FirstUid
<1>7. /\ Given \subseteq Given'
      /\ Keys \subseteq Keys'
  BY <1>2, <1>3 DEF FirstUid, Given, Keys
<1>8. \A x \in events \cup ids : x.uid \in Given
  BY DEF KeyType, Keys
<1>9. uid \notin Given
  BY <1>3 DEF FirstUid, Given
<1>10. e \notin events /\ e \notin ids
  BY <1>5, <1>8, <1>9
<1>11. KeyType'
  <2>1. fired \in Seq(Given)
    BY DEF KeyType
  <2>2. fired' \in Seq(Given')
    BY <1>2, <1>7, <2>1, SeqMonotonic
  <2>3. events' \subseteq Keys' /\ ids' \subseteq Keys'
    BY <1>5, <1>6, <1>7 DEF KeyType
  <2>4. cancelled' \subseteq Given'
    BY <1>2, <1>7 DEF KeyType
  <2>5. uid' \in Nat /\ uid' >= FirstUid /\ currentUid' < uid'
    BY <1>2, <1>3 DEF FirstUid
  <2>. QED
    BY <1>2, <1>3, <2>2, <2>3, <2>4, <2>5 DEF KeyType
<1>12. ThreadType' /\ ListType' /\ DestroyType' /\ FlagInv'
  BY <1>2 DEF ThreadType, ListType, DestroyType, FlagInv
<1>13. UniqueInv'
  BY <1>5, <1>8, <1>9 DEF UniqueInv
<1>14. OrderInv'
  <2>1. IsLater(e)'
    BY <1>2, <1>3, <1>5 DEF IsLater
  <2>2. \A x \in events \cup ids : IsLater(x)' <=> IsLater(x)
    BY <1>2 DEF IsLater
  <2>. QED
    BY <1>2, <1>5, <2>1, <2>2 DEF OrderInv
<1>15. uids(events') = uids(events) \cup {uid}
  BY <1>5 DEF uids
<1>16. PlaceInv'
  <2>1. fired \in Seq(Given)
    BY DEF KeyType
  <2>2. \A i \in 1..Len(fired) : fired[i] \in Given
    BY <2>1, ElementOfSeq
  <2>3. \A i \in 1..Len(fired) : fired[i] # uid
    BY <1>9, <2>2
  <2>4. IsFiniteSet(events') /\ IsFiniteSet(ids')
    BY <1>5, FS_AddElement DEF PlaceInv
  <2>. QED
    BY <1>2, <1>15, <2>3, <2>4 DEF PlaceInv
<1>17. CountInv'
  <2>1. /\ Cardinality(events') = Cardinality(events) + 1
        /\ Cardinality(ids') = Cardinality(ids) + 1
    BY <1>5, <1>10, FS_AddElement DEF PlaceInv
  <2>2. Gone' = Gone
    BY <1>2, <1>9, <1>15 DEF KeyType, Gone
  <2>3. unscheduled' = Cardinality(events')
    BY <1>c, <1>2, <2>1 DEF Counted
  <2>4. /\ Len(withContext') = Len(withContext) /\ Len(fired') = Len(fired)
        /\ posts' = posts /\ Cardinality(Gone') = Cardinality(Gone)
    BY <1>2, <2>2
  <2>5. Balanced(Cardinality(ids) + 1, posts, Len(withContext), Len(fired),
                 Cardinality(events) + 1, Cardinality(Gone))
    BY <1>c, BalanceKept DEF Counted
  <2>6. Balanced(Cardinality(ids'), posts', Len(withContext'), Len(fired'),
                 Cardinality(events'), Cardinality(Gone'))
    BY <2>1, <2>4, <2>5, Zenon
  <2>. QED
    BY <2>3, <2>6 DEF CountInv
<1>. QED
  BY <1>11, <1>12, <1>13, <1>14, <1>16, <1>17

(* An id that has not expired belongs to an event that is scheduled, is    *)
(* not taken back and has not run.                                         *)
LEMMA PendingIsScheduled ==
  ASSUME SimInv, pc # "disposed", NEW id \in ids, ~IsExpired(id)
  PROVE  /\ id \in events /\ id.uid \notin cancelled
         /\ id.uid \in uids(events) /\ id.uid \in Given
         /\ \A i \in 1..Len(fired) : fired[i] # id.uid
<1>1. id.ts \in Nat /\ id.uid \in Nat /\ id.uid \in Given
  BY DEF SimInv, TypeInv, KeyType, Keys, Given, FirstUid
<1>2. currentTs \in Nat /\ currentUid \in Nat
  BY DEF SimInv, TypeInv, KeyType
<1>3. IsLater(id) /\ id.uid \notin cancelled
  BY <1>1, <1>2 DEF IsExpired, IsLater
<1>4. id \in events
  BY <1>3 DEF SimInv, OrderInv
<1>5. id.uid \in uids(events)
  BY <1>4 DEF uids
<1>. QED
  BY <1>1, <1>3, <1>4, <1>5 DEF SimInv, PlaceInv

LEMMA CancelPreserves ==
  ASSUME SimInv, NEW id \in ids, Cancel(id)
  PROVE  SimInv'
<1>1. /\ cancelled' = cancelled \cup {id.uid}
      /\ UNCHANGED <<events, uid, unscheduled, ids, pc, caller, currentTs,
                     currentUid, fired, withContext, withContextEmpty, posts,
                     destroyEvents, destroys>>
      /\ pc # "disposed" /\ ~IsExpired(id)
  BY DEF Cancel, ctlVars, clockVars, listVars, destroyVars, Calling
<1>2. /\ id \in events /\ id.uid \in uids(events) /\ id.uid \in Given
      /\ \A i \in 1..Len(fired) : fired[i] # id.uid
  BY <1>1, PendingIsScheduled
<1> USE DEF SimInv, TypeInv
<1>3. KeyType'
  BY <1>1, <1>2 DEF KeyType, Keys, Given
<1>4. ThreadType' /\ ListType' /\ DestroyType' /\ FlagInv' /\ UniqueInv'
  BY <1>1 DEF ThreadType, ListType, DestroyType, FlagInv, UniqueInv
<1>5. OrderInv'
  BY <1>1 DEF OrderInv, IsLater
<1>6. PlaceInv'
  <2>1. IsFiniteSet(cancelled')
    BY <1>1, FS_AddElement DEF PlaceInv
  <2>. QED
    BY <1>1, <1>2, <2>1 DEF PlaceInv
<1>7. CountInv'
  <2>1. Gone' = Gone
    BY <1>1, <1>2 DEF Gone
  <2>. QED
    BY <1>1, <2>1 DEF CountInv
<1>. QED
  BY <1>3, <1>4, <1>5, <1>6, <1>7

(* Remove: the event goes from the scheduled ones to those taken back. *)
LEMMA RemovePreserves ==
  ASSUME SimInv, NEW id \in ids, Remove(id)
  PROVE  SimInv'
<1>1. /\ cancelled' = cancelled \cup {id.uid}
      /\ events' = events \ {id} /\ unscheduled' = unscheduled - 1
      /\ UNCHANGED <<uid, ids, pc, caller, currentTs, currentUid, fired,
                     withContext, withContextEmpty, posts, destroyEvents, destroys>>
      /\ pc # "disposed" /\ ~IsExpired(id)
  BY DEF Remove, ctlVars, clockVars, listVars, destroyVars, Calling
<1>2. /\ id \in events /\ id.uid \in uids(events) /\ id.uid \in Given
      /\ id.uid \notin cancelled
      /\ \A i \in 1..Len(fired) : fired[i] # id.uid
  BY <1>1, PendingIsScheduled
<1>c. Counted
  BY <1>1, Counts
<1> USE DEF SimInv, TypeInv
<1>3. KeyType'
  BY <1>1, <1>2 DEF KeyType, Keys, Given
<1>4. ThreadType' /\ ListType' /\ DestroyType' /\ FlagInv' /\ UniqueInv'
  BY <1>1 DEF ThreadType, ListType, DestroyType, FlagInv, UniqueInv
<1>5. OrderInv'
  BY <1>1 DEF OrderInv, IsLater
<1>6. uids(events') = uids(events) \ {id.uid}
  BY <1>1, <1>2, UidsWithout
<1>7. PlaceInv'
  <2>1. IsFiniteSet(cancelled') /\ IsFiniteSet(events')
    BY <1>1, FS_AddElement, FS_RemoveElement DEF PlaceInv
  <2>. QED
    BY <1>1, <1>2, <1>6, <2>1 DEF PlaceInv
<1>8. CountInv'
  <2>1. Gone' = Gone \cup {id.uid} /\ id.uid \notin Gone
    BY <1>1, <1>2, <1>6 DEF Gone
  <2>2. Cardinality(Gone') = Cardinality(Gone) + 1
    BY <1>c, <2>1, FS_AddElement DEF Counted
  <2>3. Cardinality(events') = Cardinality(events) - 1
    BY <1>1, <1>2, FS_RemoveElement DEF PlaceInv
  <2>4. unscheduled' = Cardinality(events')
    BY <1>c, <1>1, <2>3 DEF Counted
  <2>5. Balanced(Cardinality(ids), posts, Len(withContext), Len(fired),
                 Cardinality(events) - 1, Cardinality(Gone) + 1)
    BY <1>c, BalanceKept DEF Counted
  <2>6. Balanced(Cardinality(ids'), posts', Len(withContext'), Len(fired'),
                 Cardinality(events'), Cardinality(Gone'))
    BY <1>1, <2>2, <2>3, <2>5, Zenon
  <2>. QED
    BY <2>4, <2>6 DEF CountInv
<1>. QED
  BY <1>3, <1>4, <1>5, <1>7, <1>8

(* Another thread hands in an event, wherever the main thread is. *)
LEMMA ScheduleWithContextPreserves ==
  ASSUME SimInv, ScheduleWithContext
  PROVE  SimInv'
<1>1. PICK d \in Delays : withContext' = Append(withContext, d)
  BY DEF ScheduleWithContext
<1>2. /\ posts' = posts + 1 /\ withContextEmpty' = FALSE /\ pc # "disposed"
      /\ UNCHANGED <<pc, caller, keyVars, clockVars, destroyVars>>
  BY DEF ScheduleWithContext, ctlVars
<1>c. Counted
  BY <1>2, Counts
<1> USE DEF SimInv, TypeInv, keyVars, clockVars, destroyVars
<1>3. /\ withContext' \in Seq(Nat) /\ Len(withContext') = Len(withContext) + 1
      /\ withContext' # <<>> /\ posts' \in Nat
  <2>1. withContext \in Seq(Nat) /\ d \in Nat /\ posts \in Nat
    BY SimulatorAssumption DEF ListType
  <2>2. /\ Append(withContext, d) \in Seq(Nat)
        /\ Len(Append(withContext, d)) = Len(withContext) + 1
        /\ Append(withContext, d) # <<>>
    BY <2>1, AppendProperties
  <2>. QED
    BY <1>1, <1>2, <2>1, <2>2
<1>4. TypeInv'
  BY <1>2, <1>3 DEF ThreadType, KeyType, Keys, Given, ListType, DestroyType
<1>5. FlagInv' /\ UniqueInv' /\ OrderInv'
  BY <1>2, <1>3 DEF FlagInv, UniqueInv, OrderInv, IsLater
<1>6. PlaceInv'
  BY <1>2 DEF PlaceInv, uids
<1>7. CountInv'
  <2>1. Gone' = Gone
    BY <1>2 DEF Gone, uids
  <2>2. Balanced(Cardinality(ids), posts + 1, Len(withContext) + 1, Len(fired),
                 Cardinality(events), Cardinality(Gone))
    BY <1>c, BalanceKept DEF Counted
  <2>3. Balanced(Cardinality(ids'), posts', Len(withContext'), Len(fired'),
                 Cardinality(events'), Cardinality(Gone'))
    BY <1>2, <1>3, <2>1, <2>2, Zenon
  <2>. QED
    BY <1>c, <1>2, <2>3 DEF CountInv, Counted
<1>. QED
  BY <1>4, <1>5, <1>6, <1>7

(* The keys of the events that are taken over from the other threads: one  *)
(* for each, with new uids, and none before the current event.             *)
LEMMA TakenOverKeys ==
  ASSUME SimInv, NEW New,
         New = {[ts |-> currentTs + withContext[i], uid |-> uid + i - 1] :
                  i \in DOMAIN withContext}
  PROVE  /\ \A x \in New : /\ x.ts \in Nat /\ x.ts >= currentTs
                           /\ x.uid \in uid..(uid + Len(withContext) - 1)
                           /\ x \in [ts : Nat, uid : Nat]
         /\ \A x, y \in New : x.uid = y.uid => x = y
         /\ IsFiniteSet(New) /\ Cardinality(New) = Len(withContext)
<1>1. /\ uid \in Nat /\ currentTs \in Nat /\ Len(withContext) \in Nat
      /\ DOMAIN withContext = 1..Len(withContext)
      /\ \A i \in 1..Len(withContext) : withContext[i] \in Nat
  BY DEF SimInv, TypeInv, KeyType, ListType
<1> DEFINE n == Len(withContext)
           K(i) == [ts |-> currentTs + withContext[i], uid |-> uid + i - 1]
           k == [i \in 1..n |-> K(i)]
<1>2. ASSUME NEW i \in 1..n
      PROVE  /\ K(i).ts = currentTs + withContext[i] /\ K(i).uid = uid + i - 1
             /\ K(i).ts \in Nat /\ K(i).ts >= currentTs
             /\ K(i).uid \in uid..(uid + n - 1) /\ K(i).uid \in Nat
             /\ K(i) \in [ts : Nat, uid : Nat]
  BY <1>1
<1>3. New = {K(i) : i \in 1..n}
  BY <1>1
<1> HIDE DEF K
<1>4. \A x \in New : /\ x.ts \in Nat /\ x.ts >= currentTs
                     /\ x.uid \in uid..(uid + n - 1)
                     /\ x \in [ts : Nat, uid : Nat]
  BY <1>2, <1>3
<1>5. \A i, j \in 1..n : K(i).uid = K(j).uid => i = j
  BY <1>1, <1>2
<1>6. \A x, y \in New : x.uid = y.uid => x = y
  BY <1>3, <1>5
<1>7. k \in Bijection(1..n, New)
  <2>1. k \in [1..n -> New]
    BY <1>3
  <2>2. \A i, j \in 1..n : k[i] = k[j] => i = j
    BY <1>5
  <2>3. \A x \in New : \E i \in 1..n : k[i] = x
    BY <1>3
  <2>4. k \in Injection(1..n, New)
    BY <2>1, <2>2 DEF Injection, IsInjective
  <2>5. k \in Surjection(1..n, New)
    BY <2>1, <2>3 DEF Surjection
  <2>. QED
    BY <2>4, <2>5 DEF Bijection
<1>8. IsFiniteSet(1..n) /\ Cardinality(1..n) = n
  BY <1>1, FS_Interval
<1>9. IsFiniteSet(New) /\ Cardinality(New) = n
  BY <1>7, <1>8, FS_Bijection DEF ExistsBijection
<1>. QED
  BY <1>4, <1>6, <1>9

(* The list is swapped: its events become scheduled ones, all of them. *)
LEMMA ProcessEventsWithContextPreserves ==
  ASSUME SimInv, ProcessEventsWithContext
  PROVE  SimInv'
<1>1. PICK New :
        New = {[ts |-> currentTs + withContext[i], uid |-> uid + i - 1] :
                 i \in DOMAIN withContext}
  OBVIOUS
<1>2. /\ events' = events \cup New
      /\ uid' = uid + Len(withContext) /\ unscheduled' = unscheduled + Len(withContext)
      /\ withContext' = <<>> /\ withContextEmpty' = TRUE /\ pc = "swap"
      /\ UNCHANGED <<cancelled, ids, posts, caller, currentTs, currentUid, fired,
                     destroyEvents, destroys>>
      /\ ReturnToCaller
  BY <1>1 DEF ProcessEventsWithContext, clockVars, destroyVars
<1>3. /\ \A x \in New : /\ x.ts \in Nat /\ x.ts >= currentTs
                        /\ x.uid \in uid..(uid + Len(withContext) - 1)
                        /\ x \in [ts : Nat, uid : Nat]
      /\ \A x, y \in New : x.uid = y.uid => x = y
      /\ IsFiniteSet(New) /\ Cardinality(New) = Len(withContext)
  BY <1>1, TakenOverKeys
<1>c. Counted
  BY <1>2, Counts
<1> USE DEF SimInv, TypeInv
<1>4. /\ uid \in Nat /\ uid >= FirstUid /\ currentTs \in Nat /\ currentUid \in Nat
      /\ currentUid < uid /\ Len(withContext) \in Nat
  BY <1>c DEF KeyType, Counted
<1>5. /\ Given \subseteq Given' /\ Keys \subseteq Keys'
      /\ uid' \in Nat /\ uid' >= FirstUid /\ currentUid' < uid'
  BY <1>2, <1>4 DEF Given, Keys, FirstUid
<1>6. pc' \in {"loop", "dispose"}
  BY <1>2 DEF ReturnToCaller, ThreadType
<1>7. \A x \in New : x \in Keys' /\ x.uid \notin Given /\ x.uid > currentUid
  <2> SUFFICES ASSUME NEW x \in New
               PROVE  x \in Keys' /\ x.uid \notin Given /\ x.uid > currentUid
    OBVIOUS
  <2>1. /\ x.uid \in uid..(uid + Len(withContext) - 1) /\ x.ts \in Nat
        /\ x \in [ts : Nat, uid : Nat]
    BY <1>3
  <2>2. x.uid \in Given' /\ x.uid \notin Given /\ x.uid > currentUid
    BY <1>2, <1>4, <2>1 DEF Given, FirstUid
  <2>. QED
    BY <2>1, <2>2 DEF Keys
<1>8. \A x \in events \cup ids : x.uid \in Given
  BY DEF KeyType, Keys
<1>9. KeyType'
  <2>1. fired \in Seq(Given)
    BY DEF KeyType
  <2>2. fired' \in Seq(Given')
    BY <1>2, <1>5, <2>1, SeqMonotonic
  <2>3. events' \subseteq Keys' /\ ids' \subseteq Keys' /\ cancelled' \subseteq Given'
    BY <1>2, <1>5, <1>7 DEF KeyType
  <2>. QED
    BY <1>2, <1>4, <1>5, <2>2, <2>3 DEF KeyType
<1>10. ThreadType' /\ ListType' /\ DestroyType' /\ FlagInv'
  BY <1>2, <1>6 DEF ThreadType, ListType, DestroyType, FlagInv
<1>11. UniqueInv'
  <2> SUFFICES ASSUME NEW a \in events \cup New \cup ids,
                      NEW b \in events \cup New \cup ids, a.uid = b.uid
               PROVE  a = b
    BY <1>2 DEF UniqueInv
  <2>1. CASE a \in New /\ b \in New
    BY <1>3, <2>1
  <2>2. CASE a \in events \cup ids /\ b \in events \cup ids
    BY <2>2 DEF UniqueInv
  <2>3. ~(a \in New /\ b \in events \cup ids) /\ ~(b \in New /\ a \in events \cup ids)
    BY <1>7, <1>8
  <2>. QED
    BY <2>1, <2>2, <2>3
<1>12. OrderInv'
  <2>1. \A x \in New : IsLater(x)'
    BY <1>2, <1>3, <1>4, <1>7 DEF IsLater
  <2>2. \A x \in events \cup ids : IsLater(x)' <=> IsLater(x)
    BY <1>2 DEF IsLater
  <2>. QED
    BY <1>2, <2>1, <2>2 DEF OrderInv
<1>13. uids(events') = uids(events) \cup uids(New)
  BY <1>2, UidsWith
<1>14. uids(New) \cap Given = {}
  BY <1>7 DEF uids
<1>15. PlaceInv'
  <2>1. fired \in Seq(Given)
    BY DEF KeyType
  <2>2. \A i \in 1..Len(fired) : fired[i] \in Given
    BY <2>1, ElementOfSeq
  <2>3. \A i \in 1..Len(fired) : fired[i] \notin uids(New)
    BY <1>14, <2>2
  <2>4. IsFiniteSet(events')
    BY <1>2, <1>3, FS_Union DEF PlaceInv
  <2>. QED
    BY <1>2, <1>13, <2>3, <2>4 DEF PlaceInv
<1>16. CountInv'
  <2>1. events \cap New = {}
    BY <1>7, <1>8
  <2>2. Cardinality(events') = Cardinality(events) + Len(withContext)
    <3>1. Cardinality(events \cup New)
            = Cardinality(events) + Cardinality(New) - Cardinality(events \cap New)
      BY <1>3, FS_Union DEF PlaceInv
    <3>2. Cardinality(events \cap New) = 0
      BY <2>1, FS_EmptySet
    <3>. QED
      BY <1>2, <1>3, <1>c, <1>4, <3>1, <3>2 DEF Counted
  <2>3. Gone' = Gone
    BY <1>2, <1>13, <1>14 DEF Gone, KeyType
  <2>4. Balanced(Cardinality(ids), posts, 0, Len(fired),
                 Cardinality(events) + Len(withContext), Cardinality(Gone))
    BY <1>c, BalanceKept DEF Counted
  <2>5. Len(withContext') = 0
    BY <1>2
  <2>6. Balanced(Cardinality(ids'), posts', Len(withContext'), Len(fired'),
                 Cardinality(events'), Cardinality(Gone'))
    BY <1>2, <2>2, <2>3, <2>4, <2>5, Zenon
  <2>7. unscheduled' = Cardinality(events')
    BY <1>c, <1>2, <2>2 DEF Counted
  <2>. QED
    BY <2>6, <2>7 DEF CountInv
<1>. QED
  BY <1>9, <1>10, <1>11, <1>12, <1>15, <1>16

(* ProcessOneEvent: the current key moves to the least one that is left,   *)
(* so what remains is later, and what was passed before stays passed.      *)
LEMMA ProcessOneEventPreserves ==
  ASSUME SimInv, ProcessOneEvent
  PROVE  SimInv'
<1>1. PICK next : next = PeekNext
  OBVIOUS
<1>2. /\ pc = "loop" /\ events # {} /\ events' = events \ {next}
      /\ currentTs' = next.ts /\ currentUid' = next.uid
      /\ unscheduled' = unscheduled - 1
      /\ UNCHANGED <<cancelled, uid, ids, withContext, withContextEmpty, posts,
                     destroyEvents, destroys>>
      /\ \/ /\ next.uid \in cancelled /\ pc' = "lookAtFlag"
            /\ caller' = "ProcessOneEvent" /\ UNCHANGED fired
         \/ /\ next.uid \notin cancelled /\ pc' = "event" /\ UNCHANGED caller
            /\ fired' = Append(fired, next.uid)
  BY <1>1 DEF ProcessOneEvent, listVars, destroyVars
<1>c. Counted
  BY <1>2, Counts
<1> USE DEF SimInv, TypeInv
<1>3. next \in events /\ \A f \in events \ {next} : Before(next, f)
  BY <1>1, <1>2, PeekNextIsLeast DEF KeyType
<1>4. /\ next.ts \in Nat /\ next.uid \in Nat /\ next.uid \in Given /\ next.uid < uid
      /\ \A x \in events \cup ids : x.ts \in Nat /\ x.uid \in Nat
      /\ currentTs \in Nat /\ currentUid \in Nat /\ uid \in Nat
  BY <1>3 DEF KeyType, Keys, Given, FirstUid
<1>5. fired \in Seq(Given) /\ fired' \in Seq(Given)
  <2>1. fired \in Seq(Given)
    BY DEF KeyType
  <2>. QED
    BY <1>2, <1>4, <2>1, AppendProperties
<1>6. KeyType'
  BY <1>2, <1>4, <1>5 DEF KeyType, Keys, Given
<1>7. ThreadType' /\ ListType' /\ DestroyType' /\ FlagInv' /\ UniqueInv'
  BY <1>2 DEF ThreadType, ListType, DestroyType, FlagInv, UniqueInv
<1>8. OrderInv'
  <2>1. IsLater(next)
    BY <1>2, <1>3 DEF OrderInv
  <2>2. ASSUME NEW e \in events \ {next} PROVE IsLater(e)'
    <3>1. Before(next, e)
      BY <1>3
    <3>. QED
      BY <1>2, <1>4, <3>1 DEF Before, IsLater
  <2>3. ASSUME NEW id \in ids, IsLater(id)'
        PROVE  id \in events' \/ id.uid \in cancelled'
    <3>1. IsLater(id) /\ id # next
      BY <1>2, <1>4, <2>1, <2>3 DEF IsLater
    <3>2. id \in events \/ id.uid \in cancelled
      BY <1>2, <3>1 DEF OrderInv
    <3>. QED
      BY <1>2, <3>1, <3>2
  <2>. QED
    BY <1>2, <2>2, <2>3 DEF OrderInv
<1>9. uids(events') = uids(events) \ {next.uid} /\ next.uid \in uids(events)
  BY <1>2, <1>3, UidsWithout DEF uids
<1>10. IsFiniteSet(events') /\ Cardinality(events') = Cardinality(events) - 1
  BY <1>2, <1>3, FS_RemoveElement DEF PlaceInv
<1>11. /\ \A i, j \in 1..Len(fired) : fired[i] = fired[j] => i = j
       /\ \A i \in 1..Len(fired) :
            fired[i] \notin uids(events) \cup cancelled /\ fired[i] # next.uid
  BY <1>2, <1>9 DEF PlaceInv
<1>12. CASE next.uid \in cancelled
  <2>1. PlaceInv'
    BY <1>2, <1>9, <1>10, <1>11, <1>12 DEF PlaceInv
  <2>2. Gone' = Gone \cup {next.uid} /\ next.uid \notin Gone
    BY <1>2, <1>9, <1>12 DEF Gone
  <2>3. Cardinality(Gone') = Cardinality(Gone) + 1
    BY <1>c, <2>2, FS_AddElement DEF Counted
  <2>4. Balanced(Cardinality(ids), posts, Len(withContext), Len(fired),
                 Cardinality(events) - 1, Cardinality(Gone) + 1)
    BY <1>c, BalanceKept DEF Counted
  <2>5. fired' = fired /\ ids' = ids /\ posts' = posts /\ withContext' = withContext
    BY <1>2, <1>12
  <2>6. Balanced(Cardinality(ids'), posts', Len(withContext'), Len(fired'),
                 Cardinality(events'), Cardinality(Gone'))
    BY <1>10, <2>3, <2>4, <2>5, Zenon
  <2>7. unscheduled' = Cardinality(events')
    BY <1>c, <1>2, <1>10 DEF Counted
  <2>8. CountInv'
    BY <2>6, <2>7 DEF CountInv
  <2>. QED
    BY <1>6, <1>7, <1>8, <2>1, <2>8
<1>13. CASE next.uid \notin cancelled
  <2>1. /\ Len(fired') = Len(fired) + 1 /\ Len(fired) \in Nat
        /\ \A i \in 1..Len(fired) : fired'[i] = fired[i]
        /\ fired'[Len(fired) + 1] = next.uid
    BY <1>2, <1>4, <1>5, <1>13, AppendProperties
  <2>2. \A i \in 1..Len(fired') : i \in 1..Len(fired) \/ i = Len(fired) + 1
    BY <2>1
  <2>3. \A i, j \in 1..Len(fired') : fired'[i] = fired'[j] => i = j
    BY <1>11, <2>1, <2>2
  <2>4. \A i \in 1..Len(fired') : fired'[i] \notin uids(events') \cup cancelled'
    BY <1>2, <1>9, <1>11, <1>13, <2>1, <2>2
  <2>5. PlaceInv'
    BY <1>2, <1>10, <2>3, <2>4 DEF PlaceInv
  <2>6. Gone' = Gone
    BY <1>2, <1>9, <1>13 DEF Gone
  <2>7. Balanced(Cardinality(ids), posts, Len(withContext), Len(fired) + 1,
                 Cardinality(events) - 1, Cardinality(Gone))
    BY <1>c, BalanceKept DEF Counted
  <2>8. Balanced(Cardinality(ids'), posts', Len(withContext'), Len(fired'),
                 Cardinality(events'), Cardinality(Gone'))
    BY <1>2, <1>10, <2>1, <2>6, <2>7, Zenon
  <2>9. unscheduled' = Cardinality(events')
    BY <1>c, <1>2, <1>10 DEF Counted
  <2>10. CountInv'
    BY <2>8, <2>9 DEF CountInv
  <2>. QED
    BY <1>6, <1>7, <1>8, <2>5, <2>10
<1>. QED
  BY <1>12, <1>13

(* The destroy events are a list of their own; only ScheduleDestroy        *)
(* touches the uids as well.                                               *)
LEMMA DestroyListPreserves ==
  ASSUME SimInv, pc # "disposed", pc' = pc \/ pc' \in {"destroying", "destroyEvent"},
         UNCHANGED <<caller, keyVars, clockVars, listVars>>, DestroyType'
  PROVE  SimInv'
<1> USE DEF SimInv, TypeInv, keyVars, clockVars, listVars
<1>1. TypeInv' /\ FlagInv'
  BY DEF ThreadType, KeyType, ListType, Keys, Given, FlagInv
<1>2. pc' # "disposed" /\ UniqueInv' /\ OrderInv'
  BY DEF UniqueInv, OrderInv, IsLater
<1>3. PlaceInv' /\ CountInv'
  BY DEF PlaceInv, CountInv, Gone, uids
<1>. QED
  BY <1>1, <1>2, <1>3

LEMMA DestroyPreserves ==
  ASSUME SimInv,
         \/ \E n \in 1..destroys : CancelDestroy(n) \/ RemoveDestroy(n)
         \/ InvokeDestroyEvent
  PROVE  SimInv'
<1>1. destroys \in Nat /\ destroyEvents \in Seq(1..destroys)
  BY DEF SimInv, TypeInv, DestroyType
<1>2. CASE \E n \in 1..destroys : CancelDestroy(n)
  <2>1. /\ pc # "disposed" /\ destroyEvents' = destroyEvents /\ destroys' = destroys
        /\ pc' = pc /\ UNCHANGED <<caller, keyVars, clockVars, listVars>>
    BY <1>2 DEF CancelDestroy, Calling, ctlVars
  <2>. QED
    BY <1>1, <2>1, DestroyListPreserves DEF DestroyType
<1>3. CASE \E n \in 1..destroys : RemoveDestroy(n)
  <2>1. PICK i \in DOMAIN destroyEvents : destroyEvents' = SeqExt!RemoveAt(destroyEvents, i)
    BY <1>3 DEF RemoveDestroy
  <2>2. /\ pc # "disposed" /\ destroys' = destroys
        /\ pc' = pc /\ UNCHANGED <<caller, keyVars, clockVars, listVars>>
    BY <1>3 DEF RemoveDestroy, Calling, ctlVars
  <2>3. i \in 1..Len(destroyEvents) /\ Len(destroyEvents) \in Nat
    BY <1>1, <2>1
  <2> DEFINE S == 1..destroys
             a == SubSeq(destroyEvents, 1, i - 1)
             b == SubSeq(destroyEvents, i + 1, Len(destroyEvents))
  <2>4. a \in Seq(S) /\ b \in Seq(S)
    <3> HIDE DEF S
    <3>1. destroyEvents \in Seq(S)
      BY <1>1 DEF S
    <3>2. /\ 1 \in 1..(Len(destroyEvents) + 1) /\ i - 1 \in 0..Len(destroyEvents)
          /\ i + 1 \in 1..(Len(destroyEvents) + 1)
          /\ Len(destroyEvents) \in i..Len(destroyEvents)
      BY <2>3
    <3>. QED
      BY <3>1, <3>2, <2>3, SubSeqProperties
  <2>5. a \o b \in Seq(S)
    BY <2>4, ConcatProperties
  <2>6. destroyEvents' = a \o b
    BY <2>1 DEF SeqExt!RemoveAt
  <2>. QED
    BY <1>1, <2>2, <2>5, <2>6, DestroyListPreserves DEF DestroyType
<1>4. CASE InvokeDestroyEvent
  <2>1. /\ destroyEvents # <<>> /\ destroyEvents' = Tail(destroyEvents)
        /\ pc # "disposed" /\ destroys' = destroys /\ pc' \in {"destroying", "destroyEvent"}
        /\ UNCHANGED <<caller, keyVars, clockVars, listVars>>
    BY <1>4 DEF InvokeDestroyEvent
  <2>2. destroyEvents' \in Seq(1..destroys)
    BY <1>1, <2>1, HeadTailProperties
  <2>. QED
    BY <1>1, <2>1, <2>2, DestroyListPreserves DEF DestroyType
<1>. QED
  BY <1>2, <1>3, <1>4

LEMMA ScheduleDestroyPreserves ==
  ASSUME SimInv, ScheduleDestroy
  PROVE  SimInv'
<1>1. /\ pc # "disposed" /\ uid' = uid + 1 /\ destroys' = destroys + 1
      /\ destroyEvents' = Append(destroyEvents, destroys + 1)
      /\ UNCHANGED <<events, cancelled, unscheduled, ids, pc, caller, currentTs,
                     currentUid, fired, withContext, withContextEmpty, posts>>
  BY DEF ScheduleDestroy, Calling, ctlVars, clockVars, listVars
<1> USE DEF SimInv, TypeInv
<1>2. /\ Given \subseteq Given' /\ Keys \subseteq Keys'
      /\ uid' \in Nat /\ uid' >= FirstUid /\ currentUid' < uid'
  BY <1>1 DEF KeyType, Given, Keys, FirstUid
<1>3. KeyType'
  <2>1. fired \in Seq(Given)
    BY DEF KeyType
  <2>2. fired' \in Seq(Given')
    BY <1>1, <1>2, <2>1, SeqMonotonic
  <2>. QED
    BY <1>1, <1>2, <2>2 DEF KeyType
<1>4. DestroyType'
  <2>1. destroys \in Nat /\ destroyEvents \in Seq(1..destroys)
    BY DEF DestroyType
  <2>2. /\ 1..destroys \subseteq 1..(destroys + 1)
        /\ destroys + 1 \in 1..(destroys + 1)
    BY <2>1
  <2> DEFINE S == 1..(destroys + 1)
  <2>3. destroyEvents \in Seq(S) /\ destroys + 1 \in S
    BY <2>1, <2>2, SeqMonotonic
  <2>4. Append(destroyEvents, destroys + 1) \in Seq(S)
    <3> HIDE DEF S
    <3>. QED
      BY <2>3, AppendProperties
  <2>. QED
    BY <1>1, <2>1, <2>4 DEF DestroyType
<1>5. ThreadType' /\ ListType' /\ FlagInv'
  BY <1>1 DEF ThreadType, ListType, FlagInv
<1>6. UniqueInv' /\ OrderInv'
  BY <1>1 DEF UniqueInv, OrderInv, IsLater
<1>7. PlaceInv' /\ CountInv'
  BY <1>1 DEF PlaceInv, CountInv, Gone, uids
<1>. QED
  BY <1>3, <1>4, <1>5, <1>6, <1>7

LEMMA DropEventsPreserves ==
  ASSUME SimInv, DropEvents
  PROVE  SimInv'
<1>1. /\ events' = {} /\ pc' = "disposed"
      /\ UNCHANGED <<cancelled, uid, ids, caller, currentTs, currentUid, fired,
                     listVars, destroyVars>>
  BY DEF DropEvents, clockVars
<1> USE DEF SimInv, TypeInv, listVars, destroyVars
<1>2. TypeInv'
  BY <1>1 DEF ThreadType, KeyType, ListType, DestroyType, Keys, Given
<1>3. FlagInv' /\ UniqueInv' /\ OrderInv' /\ CountInv'
  BY <1>1 DEF FlagInv, UniqueInv, OrderInv, CountInv
<1>4. PlaceInv'
  BY <1>1, FS_EmptySet DEF PlaceInv
<1>. QED
  BY <1>2, <1>3, <1>4

LEMMA NextPreservesSimInv == SimInv /\ [Next]_vars => SimInv'
<1> SUFFICES ASSUME SimInv, [Next]_vars PROVE SimInv'
  OBVIOUS
<1>1. CASE Schedule
  BY <1>1, SchedulePreserves
<1>2. CASE \E id \in ids : Cancel(id) \/ Remove(id)
  BY <1>2, CancelPreserves, RemovePreserves
<1>3. CASE ScheduleDestroy
  BY <1>3, ScheduleDestroyPreserves
<1>4. CASE \/ \E n \in 1..destroys : CancelDestroy(n) \/ RemoveDestroy(n)
           \/ InvokeDestroyEvent
  BY <1>4, DestroyPreserves
<1>5. CASE \/ Run \/ LookAtFlag \/ EventReturns \/ RunReturns \/ Destroy
           \/ DestroyEventReturns \/ DoDispose \/ Stop
  BY <1>5, MainControlPreserves
<1>6. CASE ProcessEventsWithContext
  BY <1>6, ProcessEventsWithContextPreserves
<1>7. CASE ProcessOneEvent
  BY <1>7, ProcessOneEventPreserves
<1>8. CASE DropEvents
  BY <1>8, DropEventsPreserves
<1>9. CASE ScheduleWithContext
  BY <1>9, ScheduleWithContextPreserves
<1>10. CASE UNCHANGED vars
  <2> USE <1>10 DEF vars, ctlVars, keyVars, clockVars, listVars, destroyVars, SimInv
  <2>1. TypeInv' /\ FlagInv'
    BY DEF TypeInv, ThreadType, KeyType, ListType, DestroyType, Keys, Given, FlagInv
  <2>2. UniqueInv' /\ OrderInv'
    BY DEF UniqueInv, OrderInv, IsLater
  <2>3. PlaceInv' /\ CountInv'
    BY DEF PlaceInv, CountInv, Gone, uids
  <2>. QED
    BY <2>1, <2>2, <2>3
<1>. QED
  BY <1>1, <1>2, <1>3, <1>4, <1>5, <1>6, <1>7, <1>8, <1>9, <1>10
     DEF Next, Calls, MainThread

-----------------------------------------------------------------------------
(* The inductive invariant of the event loop holds in every reachable      *)
(* state, whatever events and the program call and whenever other threads  *)
(* hand in events.                                                         *)
THEOREM SimulatorInvariant == Spec => []SimInv
<1>1. Init => SimInv
  BY InitSimInv
<1>2. SimInv /\ [Next]_vars => SimInv'
  BY NextPreservesSimInv
<1>. QED
  BY <1>1, <1>2, PTL DEF Spec

(* Type correctness: no uid is used before m_uid has passed it, and        *)
(* ProcessEventsWithContext never swaps an empty list, although the flag   *)
(* is read without the mutex.                                              *)
THEOREM SimulatorTypeOK == Spec => []TypeOK
<1>1. SimInv => TypeOK
  <2> SUFFICES ASSUME SimInv PROVE TypeOK
    OBVIOUS
  <2>1. /\ pc \in {"program", "lookAtFlag", "swap", "loop", "event", "destroying",
                   "destroyEvent", "dispose", "disposed"}
    BY DEF SimInv, TypeInv, ThreadType
  <2>2. /\ events \subseteq [ts : Nat, uid : FirstUid..(uid - 1)]
        /\ cancelled \subseteq FirstUid..(uid - 1) /\ currentUid < uid
    BY DEF SimInv, TypeInv, KeyType, Keys, Given
  <2>3. destroyEvents \in Seq(1..destroys)
    BY DEF SimInv, TypeInv, DestroyType
  <2>4. Range(destroyEvents) \subseteq 1..destroys
    BY <2>3, ElementOfSeq, LenProperties DEF Range
  <2>5. pc = "swap" => withContext # <<>>
    BY DEF SimInv, FlagInv
  <2>. QED
    BY <2>1, <2>2, <2>4, <2>5, Zenon DEF TypeOK
<1>. QED
  BY <1>1, SimulatorInvariant, PTL

(* IsExpired tells the truth about every id that Schedule returned, after  *)
(* any mix of Cancel, Remove and runs of events.                           *)
THEOREM SimulatorExpiredExact == Spec => []ExpiredExact
<1>1. SimInv => ExpiredExact
  <2> SUFFICES ASSUME SimInv, pc # "disposed", NEW id \in ids
               PROVE  ~IsExpired(id) <=> id \in events /\ id.uid \notin cancelled
    BY DEF ExpiredExact
  <2>1. /\ id.ts \in Nat /\ id.uid \in Nat /\ currentTs \in Nat /\ currentUid \in Nat
    BY DEF SimInv, TypeInv, KeyType, Keys, Given, FirstUid
  <2>2. ~IsExpired(id) <=> IsLater(id) /\ id.uid \notin cancelled
    BY <2>1 DEF IsExpired, IsLater
  <2>. QED
    BY <2>2 DEF SimInv, OrderInv
<1>. QED
  BY <1>1, SimulatorInvariant, PTL

(* Every event that was scheduled or handed in waits, is scheduled, was    *)
(* taken back or has run, in one of these places only, and the count       *)
(* m_unscheduledEvents is right.                                           *)
THEOREM SimulatorEventsConserved == Spec => []EventsConserved
<1>1. SimInv => EventsConserved
  <2> SUFFICES ASSUME SimInv, pc # "disposed"
               PROVE  /\ IsInjective(fired)
                      /\ Cardinality(ids) + posts
                           = Len(withContext) + Len(fired) + Cardinality(events)
                               + Cardinality(cancelled \ uids(events))
                      /\ Range(fired) \cap (uids(events) \cup cancelled) = {}
                      /\ unscheduled = Cardinality(events)
    BY Zenon DEF EventsConserved
  <2>1. DOMAIN fired = 1..Len(fired)
    BY DEF SimInv, TypeInv, KeyType
  <2>2. /\ \A i, j \in DOMAIN fired : fired[i] = fired[j] => i = j
        /\ \A i \in DOMAIN fired : fired[i] \notin uids(events) \cup cancelled
    BY <2>1, Zenon DEF SimInv, PlaceInv
  <2>3. IsInjective(fired) /\ Range(fired) \cap (uids(events) \cup cancelled) = {}
    BY <2>2, Zenon DEF IsInjective, Range
  <2>4. /\ unscheduled = Cardinality(events)
        /\ Balanced(Cardinality(ids), posts, Len(withContext), Len(fired),
                    Cardinality(events), Cardinality(Gone))
    BY DEF SimInv, CountInv
  <2>. QED
    BY <2>3, <2>4, Zenon DEF Balanced, Gone
<1>. QED
  BY <1>1, SimulatorInvariant, PTL

-----------------------------------------------------------------------------
(* The refinement: the agenda holds the events that are scheduled and not  *)
(* cancelled.                                                              *)

Planned == {e \in events : e.uid \notin cancelled}

LEMMA ScheduleRefines ==
  ASSUME SimInv, Schedule
  PROVE  Agenda!Plan
<1>1. PICK d \in Delays :
        events' = events \cup {[ts |-> currentTs + d, uid |-> uid]}
  BY DEF Schedule
<1>2. PICK e : e = [ts |-> currentTs + d, uid |-> uid]
  OBVIOUS
<1>3. /\ uid \in Nat /\ currentTs \in Nat /\ d \in Nat
      /\ uid \notin Given /\ \A x \in Given : x \in Nat /\ x < uid
  BY SimulatorAssumption DEF SimInv, TypeInv, KeyType, Given, FirstUid
<1>4. /\ e \in [ts : Nat, uid : Nat] /\ e.ts >= currentTs /\ e.uid = uid
  BY <1>2, <1>3
<1>5. /\ events' = events \cup {e} /\ cancelled' = cancelled /\ currentTs' = currentTs
  BY <1>1, <1>2 DEF Schedule, clockVars
<1>6. /\ \A x \in events : x.uid \in Given
      /\ cancelled \subseteq Given
  BY DEF SimInv, TypeInv, KeyType, Keys
<1>7. Planned' = Planned \cup {e} /\ e \notin Planned
  BY <1>3, <1>4, <1>5, <1>6 DEF Planned
<1>8. \A f \in Planned : f.uid < e.uid /\ f.uid # e.uid
  BY <1>3, <1>4, <1>6 DEF Planned
<1>. QED
  BY <1>4, <1>5, <1>7, <1>8 DEF Agenda!Plan, Planned

LEMMA TakeOverRefines ==
  ASSUME SimInv, ProcessEventsWithContext
  PROVE  Agenda!Plan
<1>1. PICK New :
        New = {[ts |-> currentTs + withContext[i], uid |-> uid + i - 1] :
                 i \in DOMAIN withContext}
  OBVIOUS
<1>2. /\ events' = events \cup New /\ cancelled' = cancelled /\ currentTs' = currentTs
      /\ pc = "swap"
  BY <1>1 DEF ProcessEventsWithContext, clockVars
<1>3. /\ \A x \in New : /\ x.ts \in Nat /\ x.ts >= currentTs
                        /\ x.uid \in uid..(uid + Len(withContext) - 1)
                        /\ x \in [ts : Nat, uid : Nat]
      /\ \A x, y \in New : x.uid = y.uid => x = y
  BY <1>1, TakenOverKeys
<1>4. New # {}
  <2>1. withContext \in Seq(Nat) /\ withContext # <<>>
    BY <1>2 DEF SimInv, TypeInv, ListType, FlagInv
  <2>2. 1 \in DOMAIN withContext
    BY <2>1
  <2>. QED
    BY <1>1, <2>2
<1>5. /\ uid \in Nat /\ Len(withContext) \in Nat
      /\ \A x \in Given : x \in Nat /\ x < uid
  BY DEF SimInv, TypeInv, KeyType, ListType, Given, FirstUid
<1>6. /\ \A x \in events : x.uid \in Given
      /\ cancelled \subseteq Given
  BY DEF SimInv, TypeInv, KeyType, Keys
<1>7. \A x \in New : x.uid \notin Given /\ \A y \in Given : y < x.uid
  BY <1>3, <1>5
<1>8. Planned' = Planned \cup New /\ Planned \cap New = {}
  BY <1>2, <1>6, <1>7 DEF Planned
<1>9. \A e \in New, f \in Planned : f.uid < e.uid /\ f.uid # e.uid
  BY <1>6, <1>7 DEF Planned
<1>. QED
  BY <1>2, <1>3, <1>4, <1>8, <1>9 DEF Agenda!Plan, Planned

(* Cancel leaves the event in the scheduler, Remove does not: the agenda   *)
(* does not see the difference.                                            *)
LEMMA TakeBackRefines ==
  ASSUME SimInv, NEW id \in ids, Cancel(id) \/ Remove(id)
  PROVE  Agenda!TakeBack
<1>1. /\ pc # "disposed" /\ ~IsExpired(id) /\ currentTs' = currentTs
      /\ cancelled' = cancelled \cup {id.uid}
      /\ events' = events \/ events' = events \ {id}
  BY DEF Cancel, Remove, Calling, clockVars
<1>2. id \in events /\ id.uid \notin cancelled
  BY <1>1, PendingIsScheduled
<1>3. \A x \in events : x.uid = id.uid => x = id
  BY <1>2 DEF SimInv, UniqueInv
<1>4. id \in Planned /\ Planned' = Planned \ {id}
  BY <1>1, <1>2, <1>3 DEF Planned
<1>. QED
  BY <1>1, <1>4 DEF Agenda!TakeBack, Planned

(* The next event runs, or the clock moves to a cancelled one, which does  *)
(* not lie behind any that is still planned.                               *)
LEMMA ProcessOneEventRefines ==
  ASSUME SimInv, ProcessOneEvent
  PROVE  Agenda!Fire \/ Agenda!Pass \/ UNCHANGED <<Planned, currentTs>>
<1>1. PICK next : next = PeekNext
  OBVIOUS
<1>2. /\ pc = "loop" /\ events # {} /\ events' = events \ {next}
      /\ currentTs' = next.ts /\ cancelled' = cancelled
  BY <1>1 DEF ProcessOneEvent
<1>3. next \in events /\ \A f \in events \ {next} : Before(next, f)
  BY <1>1, <1>2, PeekNextIsLeast DEF SimInv, TypeInv, KeyType
<1>4. /\ currentTs \in Nat /\ next.ts \in Nat
      /\ \A x \in events : x.ts \in Nat
  BY <1>3 DEF SimInv, TypeInv, KeyType, Keys
<1>5. next.ts >= currentTs
  <2>1. IsLater(next)
    BY <1>2, <1>3 DEF SimInv, OrderInv
  <2>. QED
    BY <1>4, <2>1 DEF IsLater
<1>6. Planned' = Planned \ {next}
  BY <1>2 DEF Planned
<1>7. CASE next \in Planned
  <2>1. \A f \in Planned \ {next} :
          next.ts < f.ts \/ (next.ts = f.ts /\ next.uid < f.uid)
    BY <1>3 DEF Planned, Before
  <2>2. Agenda!IsNext(next)
    BY <2>1 DEF Agenda!IsNext, Planned
  <2>. QED
    BY <1>2, <1>6, <1>7, <2>2 DEF Agenda!Fire, Planned
<1>8. CASE next \notin Planned
  <2>1. Planned' = Planned
    BY <1>6, <1>8
  <2>2. CASE next.ts = currentTs
    BY <1>2, <2>1, <2>2
  <2>3. CASE next.ts # currentTs
    <3>1. currentTs' > currentTs
      BY <1>2, <1>4, <1>5, <2>3
    <3>2. ASSUME NEW f \in Planned PROVE currentTs' <= f.ts
      <4>1. f \in events \ {next}
        BY <1>8 DEF Planned
      <4>2. Before(next, f)
        BY <1>3, <4>1
      <4>. QED
        BY <1>2, <1>4, <4>1, <4>2 DEF Before
    <3>. QED
      BY <2>1, <3>1, <3>2 DEF Agenda!Pass, Planned
  <2>. QED
    BY <2>2, <2>3
<1>. QED
  BY <1>7, <1>8

LEMMA StepRefines ==
  ASSUME SimInv, [Next]_vars
  PROVE  Agenda!AgendaNext \/ UNCHANGED <<Planned, currentTs>>
<1>1. CASE Schedule \/ ProcessEventsWithContext
  BY <1>1, ScheduleRefines, TakeOverRefines DEF Agenda!AgendaNext
<1>2. CASE \E id \in ids : Cancel(id) \/ Remove(id)
  BY <1>2, TakeBackRefines DEF Agenda!AgendaNext
<1>3. CASE ProcessOneEvent
  BY <1>3, ProcessOneEventRefines DEF Agenda!AgendaNext
<1>4. CASE DropEvents
  <2>1. Planned' = {} /\ currentTs' = currentTs
    BY <1>4 DEF DropEvents, clockVars, Planned
  <2>2. Agenda!Discard
    BY <2>1 DEF Agenda!Discard, Planned
  <2>. QED
    BY <2>2 DEF Agenda!AgendaNext
<1>5. CASE UNCHANGED <<events, cancelled, currentTs>>
  BY <1>5 DEF Planned
<1>6. CASE Calls \/ ScheduleWithContext
  BY <1>1, <1>2, <1>5, <1>6
     DEF Calls, Stop, ScheduleDestroy, CancelDestroy, RemoveDestroy,
         ScheduleWithContext, keyVars, clockVars
<1>7. CASE MainThread
  BY <1>1, <1>3, <1>4, <1>5, <1>7
     DEF MainThread, Run, LookAtFlag, EventReturns, RunReturns, Destroy,
         InvokeDestroyEvent, DestroyEventReturns, DoDispose, keyVars, clockVars
<1>. QED
  BY <1>5, <1>6, <1>7 DEF Next, vars, keyVars, clockVars

(* DefaultSimulatorImpl with its MapScheduler implements the agenda: the   *)
(* clock never passes an event that is still planned, and events of one    *)
(* instant run in the order in which they were scheduled.                  *)
THEOREM SimulatorImplementsAgenda == Spec => AgendaSpec
<1>1. Init => Agenda!AgendaInit
  BY DEF Init, Agenda!AgendaInit
<1>2. SimInv /\ [Next]_vars => [Agenda!AgendaNext]_(Agenda!agendaVars)
  BY StepRefines DEF Agenda!agendaVars, Planned
<1>. QED
  BY <1>1, <1>2, SimulatorInvariant, PTL DEF Spec, AgendaSpec, Agenda!AgendaSpec

=============================================================================
