----------------------------- MODULE Simulator ------------------------------
(***************************************************************************)
(* The event loop on which everything else runs: DefaultSimulatorImpl of   *)
(* ns-3 with the MapScheduler, the ids that Schedule gives out, the two    *)
(* ways to take an event back, Stop, destroy events, and the list through  *)
(* which other threads hand in events.  That list is protected by a mutex, *)
(* but the main thread first looks at a flag without it.                   *)
(*                                                                         *)
(* The code an event runs, and the program outside of Run, may make any    *)
(* sequence of calls.  Contexts only label events and are left out, and so *)
(* is SetScheduler, which moves the events to another container.  The uid  *)
(* is a uint32_t in the code: the bound MaxUid stands for 2^32, after      *)
(* which neither uids nor what rests on them would be ordered.             *)
(***************************************************************************)
EXTENDS Integers, Sequences, FiniteSets, Functions

SeqExt == INSTANCE SequencesExt

CONSTANTS
  Delays,          \* delays with which events are scheduled
  MaxUid,          \* bound on m_uid
  MaxPosts,        \* bound: events handed in by other threads
  MaxDestroy,      \* bound: destroy events
  MaxRuns          \* bound: calls of Run

FirstUid == 4      \* EventId::UID::VALID

ASSUME SimulatorAssumption ==
  /\ Delays \subseteq Nat
  /\ MaxUid \in Nat /\ MaxUid >= FirstUid
  /\ MaxPosts \in Nat /\ MaxDestroy \in Nat /\ MaxRuns \in Nat

VARIABLES
  pc,              \* where the main thread is
  caller,          \* who called ProcessEventsWithContext
  events,          \* m_events: keys of the scheduled events
  cancelled,       \* uids of events with m_cancel
  currentTs,       \* m_currentTs
  currentUid,      \* m_currentUid
  uid,             \* m_uid
  unscheduled,     \* m_unscheduledEvents
  stop,            \* m_stop
  withContext,     \* m_eventsWithContext: delays
  withContextEmpty,\* m_eventsWithContextEmpty
  destroyEvents,   \* m_destroyEvents, by number
  destroyCancelled,\* destroy events with m_cancel
  ids,             \* EventIds that Schedule returned
  fired,           \* history: uids of the events whose code has run, in order
  posts, destroys, runs   \* counts of calls, for the bounds

keyVars     == <<events, cancelled, uid, unscheduled, ids>>
clockVars   == <<currentTs, currentUid, fired>>
listVars    == <<withContext, withContextEmpty, posts>>
destroyVars == <<destroyEvents, destroyCancelled, destroys>>
ctlVars     == <<pc, caller, stop, runs>>
vars == <<ctlVars, keyVars, clockVars, listVars, destroyVars>>

Init ==
  /\ pc = "program" /\ caller = "Run"
  /\ events = {} /\ cancelled = {} /\ ids = {}
  /\ currentTs = 0 /\ currentUid = 0 /\ fired = <<>>
  /\ uid = FirstUid /\ unscheduled = 0
  /\ stop = FALSE
  /\ withContext = <<>> /\ withContextEmpty = TRUE
  /\ destroyEvents = <<>> /\ destroyCancelled = {}
  /\ posts = 0 /\ destroys = 0 /\ runs = 0

-----------------------------------------------------------------------------
(* MapScheduler *)

(* Mutant: keys are ordered by time alone; the last of equals comes first. *)
Before_Lifo(a, b) == a.ts < b.ts \/ (a.ts = b.ts /\ a.uid > b.uid)

(* The order of Scheduler::EventKey *)
Before(a, b) == a.ts < b.ts \/ (a.ts = b.ts /\ a.uid < b.uid)

PeekNext == CHOOSE e \in events : \A f \in events \ {e} : Before(e, f)

-----------------------------------------------------------------------------
(* Calls of the program and of running events *)

Calling == pc \in {"program", "event", "destroyEvent"}

(* Mutant: an event at the current time counts as pending by its time. *)
IsExpired_TimeOnly(id) == id.ts < currentTs \/ id.uid \in cancelled

IsExpired(id) ==
  \/ id.ts < currentTs
  \/ id.ts = currentTs /\ id.uid <= currentUid
  \/ id.uid \in cancelled

(* Schedule, ScheduleNow with delay 0, Stop(delay), and                    *)
(* ScheduleWithContext from the main thread                                *)
Schedule ==
  /\ Calling /\ uid < MaxUid
  /\ \E d \in Delays :
       LET e == [ts |-> currentTs + d, uid |-> uid]
       IN  events' = events \cup {e} /\ ids' = ids \cup {e}
  /\ uid' = uid + 1
  /\ unscheduled' = unscheduled + 1
  /\ UNCHANGED <<cancelled, ctlVars, clockVars, listVars, destroyVars>>

(* The event stays in the scheduler. *)
Cancel(id) ==
  /\ Calling
  /\ ~IsExpired(id)
  /\ cancelled' = cancelled \cup {id.uid}
  /\ UNCHANGED <<events, uid, unscheduled, ids, ctlVars, clockVars, listVars,
                 destroyVars>>

(* The event leaves the scheduler. *)
Remove(id) ==
  /\ Calling
  /\ ~IsExpired(id)
  /\ events' = events \ {id}
  /\ cancelled' = cancelled \cup {id.uid}
  /\ unscheduled' = unscheduled - 1
  /\ UNCHANGED <<uid, ids, ctlVars, clockVars, listVars, destroyVars>>

Stop ==
  /\ Calling
  /\ stop' = TRUE
  /\ UNCHANGED <<pc, caller, runs, keyVars, clockVars, listVars, destroyVars>>

(* A destroy event has the uid DESTROY, but m_uid is counted up. *)
ScheduleDestroy ==
  /\ Calling /\ uid < MaxUid /\ destroys < MaxDestroy
  /\ destroys' = destroys + 1
  /\ destroyEvents' = Append(destroyEvents, destroys + 1)
  /\ uid' = uid + 1
  /\ UNCHANGED <<events, cancelled, unscheduled, ids, destroyCancelled, ctlVars,
                 clockVars, listVars>>

IsDestroyExpired(n) ==
  n \in destroyCancelled \/ n \notin Range(destroyEvents)

(* Remove erases a destroy event if it is in the list, Cancel marks it. *)
RemoveDestroy(n) ==
  /\ Calling
  /\ \E i \in DOMAIN destroyEvents :
       /\ destroyEvents[i] = n
       /\ destroyEvents' = SeqExt!RemoveAt(destroyEvents, i)
  /\ UNCHANGED <<destroyCancelled, destroys, ctlVars, keyVars, clockVars,
                 listVars>>

CancelDestroy(n) ==
  /\ Calling
  /\ ~IsDestroyExpired(n)
  /\ destroyCancelled' = destroyCancelled \cup {n}
  /\ UNCHANGED <<destroyEvents, destroys, ctlVars, keyVars, clockVars, listVars>>

-----------------------------------------------------------------------------
(* Other threads *)

(* Mutant: the flag is left as it is. *)
ScheduleWithContext_NoFlag ==
  /\ pc \notin {"destroying", "destroyEvent", "disposed"} /\ caller # "DoDispose"
  /\ posts < MaxPosts
  /\ posts' = posts + 1
  /\ \E d \in Delays : withContext' = Append(withContext, d)
  /\ UNCHANGED <<withContextEmpty, ctlVars, keyVars, clockVars, destroyVars>>

(* ScheduleWithContext from a thread that is not the main one, under the   *)
(* mutex.  Such threads have ended when the program calls Destroy.         *)
ScheduleWithContext ==
  /\ pc \notin {"destroying", "destroyEvent", "disposed"} /\ caller # "DoDispose"
  /\ posts < MaxPosts
  /\ posts' = posts + 1
  /\ \E d \in Delays : withContext' = Append(withContext, d)
  /\ withContextEmpty' = FALSE
  /\ UNCHANGED <<ctlVars, keyVars, clockVars, destroyVars>>

-----------------------------------------------------------------------------
(* The main thread *)

Run ==
  /\ pc = "program" /\ runs < MaxRuns
  /\ runs' = runs + 1
  /\ pc' = "lookAtFlag" /\ caller' = "Run"
  /\ UNCHANGED <<stop, keyVars, clockVars, listVars, destroyVars>>

(* Where ProcessEventsWithContext returns to *)
ReturnToCaller ==
  CASE caller = "Run"             -> pc' = "loop" /\ stop' = FALSE
    [] caller = "ProcessOneEvent" -> pc' = "loop" /\ UNCHANGED stop
    [] caller = "DoDispose"       -> pc' = "dispose" /\ UNCHANGED stop

(* The flag is a plain bool that is read without the mutex: while other    *)
(* threads exist the main thread may miss a write of theirs.  Its own last *)
(* write, TRUE, it always sees, and in DoDispose the others have ended.    *)
LookAtFlag ==
  /\ pc = "lookAtFlag"
  /\ \/ /\ withContextEmpty \/ caller # "DoDispose"
        /\ ReturnToCaller
     \/ /\ ~withContextEmpty
        /\ pc' = "swap" /\ UNCHANGED stop
  /\ UNCHANGED <<caller, runs, keyVars, clockVars, listVars, destroyVars>>

(* Mutant: only the event that was seen is taken over. *)
ProcessEventsWithContext_First ==
  /\ pc = "swap" /\ uid < MaxUid
  /\ events' = events \cup {[ts |-> currentTs + withContext[1], uid |-> uid]}
  /\ uid' = uid + 1
  /\ unscheduled' = unscheduled + 1
  /\ withContext' = <<>> /\ withContextEmpty' = TRUE
  /\ ReturnToCaller
  /\ UNCHANGED <<cancelled, ids, posts, caller, runs, clockVars, destroyVars>>

(* Mutant: the flag is not set back. *)
ProcessEventsWithContext_KeepsFlag ==
  /\ pc = "swap"
  /\ events' = events \cup
       {[ts |-> currentTs + withContext[i], uid |-> uid + i - 1] :
          i \in DOMAIN withContext}
  /\ uid' = uid + Len(withContext)
  /\ unscheduled' = unscheduled + Len(withContext)
  /\ withContext' = <<>>
  /\ ReturnToCaller
  /\ UNCHANGED <<cancelled, ids, posts, withContextEmpty, caller, runs, clockVars,
                 destroyVars>>

(* The list is swapped under the mutex; its events get their times and     *)
(* uids now, in the order in which they were handed in.                    *)
ProcessEventsWithContext ==
  /\ pc = "swap"
  /\ events' = events \cup
       {[ts |-> currentTs + withContext[i], uid |-> uid + i - 1] :
          i \in DOMAIN withContext}
  /\ uid' = uid + Len(withContext)
  /\ unscheduled' = unscheduled + Len(withContext)
  /\ withContext' = <<>> /\ withContextEmpty' = TRUE
  /\ ReturnToCaller
  /\ UNCHANGED <<cancelled, ids, posts, caller, runs, clockVars, destroyVars>>

(* ProcessOneEvent up to Invoke, which skips a cancelled event *)
ProcessOneEvent ==
  /\ pc = "loop" /\ events # {} /\ ~stop
  /\ LET next == PeekNext
     IN  /\ events' = events \ {next}
         /\ currentTs' = next.ts /\ currentUid' = next.uid
         /\ IF next.uid \in cancelled
            THEN /\ pc' = "lookAtFlag" /\ caller' = "ProcessOneEvent"
                 /\ UNCHANGED fired
            ELSE /\ pc' = "event" /\ UNCHANGED caller
                 /\ fired' = Append(fired, next.uid)
  /\ unscheduled' = unscheduled - 1
  /\ UNCHANGED <<cancelled, uid, ids, stop, runs, listVars, destroyVars>>

EventReturns ==
  /\ pc = "event"
  /\ pc' = "lookAtFlag" /\ caller' = "ProcessOneEvent"
  /\ UNCHANGED <<stop, runs, keyVars, clockVars, listVars, destroyVars>>

RunReturns ==
  /\ pc = "loop" /\ (events = {} \/ stop)
  /\ pc' = "program"
  /\ UNCHANGED <<caller, stop, runs, keyVars, clockVars, listVars, destroyVars>>

(* Simulator::Destroy *)
Destroy ==
  /\ pc = "program"
  /\ pc' = "destroying"
  /\ UNCHANGED <<caller, stop, runs, keyVars, clockVars, listVars, destroyVars>>

InvokeDestroyEvent ==
  /\ pc = "destroying" /\ destroyEvents # <<>>
  /\ destroyEvents' = Tail(destroyEvents)
  /\ pc' = IF Head(destroyEvents) \in destroyCancelled THEN "destroying"
           ELSE "destroyEvent"
  /\ UNCHANGED <<destroyCancelled, destroys, caller, stop, runs, keyVars,
                 clockVars, listVars>>

DestroyEventReturns ==
  /\ pc = "destroyEvent"
  /\ pc' = "destroying"
  /\ UNCHANGED <<caller, stop, runs, keyVars, clockVars, listVars, destroyVars>>

(* DoDispose takes over what other threads handed in, then drops all. *)
DoDispose ==
  /\ pc = "destroying" /\ destroyEvents = <<>>
  /\ pc' = "lookAtFlag" /\ caller' = "DoDispose"
  /\ UNCHANGED <<stop, runs, keyVars, clockVars, listVars, destroyVars>>

DropEvents ==
  /\ pc = "dispose"
  /\ events' = {}
  /\ pc' = "disposed"
  /\ UNCHANGED <<cancelled, uid, unscheduled, ids, caller, stop, runs, clockVars,
                 listVars, destroyVars>>

-----------------------------------------------------------------------------
Calls ==
  \/ Schedule \/ Stop \/ ScheduleDestroy
  \/ \E id \in ids : Cancel(id) \/ Remove(id)
  \/ \E n \in 1..destroys : CancelDestroy(n) \/ RemoveDestroy(n)

MainThread ==
  \/ Run \/ LookAtFlag \/ ProcessEventsWithContext
  \/ ProcessOneEvent \/ EventReturns \/ RunReturns
  \/ Destroy \/ InvokeDestroyEvent \/ DestroyEventReturns
  \/ DoDispose \/ DropEvents

Next == Calls \/ MainThread \/ ScheduleWithContext

(* The main thread goes on: events return, and the program calls Run or    *)
(* Destroy in the end.                                                     *)
Spec == Init /\ [][Next]_vars /\ WF_vars(MainThread)

-----------------------------------------------------------------------------
(* Properties *)

uids(S) == {e.uid : e \in S}

(* The program counter and the tables keep their types, no uid is used     *)
(* before it is given out, and the main thread swaps the list only when it *)
(* holds an event, although it looked at the flag without the mutex.       *)
TypeOK ==
  /\ pc \in {"program", "lookAtFlag", "swap", "loop", "event", "destroying",
             "destroyEvent", "dispose", "disposed"}
  /\ events \subseteq [ts : Nat, uid : FirstUid..(uid - 1)]
  /\ cancelled \subseteq FirstUid..(uid - 1)
  /\ currentUid < uid
  /\ Range(destroyEvents) \subseteq 1..destroys
  /\ pc = "swap" => withContext # <<>>

(* An id knows about its event although it only compares numbers: IsExpired*)
(* is false exactly as long as the event is scheduled and has not been     *)
(* taken back, whatever was cancelled, removed or run in between.          *)
ExpiredExact ==
  pc # "disposed" =>
    \A id \in ids : ~IsExpired(id) <=> id \in events /\ id.uid \notin cancelled

(* No event is lost, runs twice or runs after it was taken back: every one *)
(* that was scheduled or handed in by a thread waits in the list, is       *)
(* scheduled, was taken back or has run, and only one of these.  The count *)
(* on which the consistency test at the end of Run rests is right at all   *)
(* times, however Cancel and Remove are mixed.                             *)
EventsConserved ==
  pc # "disposed" =>
    /\ IsInjective(fired)
    /\ Cardinality(ids) + posts
         = Len(withContext) + Len(fired)
             + Cardinality(events) + Cardinality(cancelled \ uids(events))
    /\ Range(fired) \cap (uids(events) \cup cancelled) = {}
    /\ unscheduled = Cardinality(events)

Agenda == INSTANCE EventAgenda WITH
  Event  <- [ts : Nat, uid : Nat],
  agenda <- {e \in events : e.uid \notin cancelled},
  clock  <- currentTs

(* The simulator implements the agenda: the clock never passes an event    *)
(* that is still planned, also when it moves for a cancelled one, and      *)
(* events of one instant run in the order in which they were scheduled.    *)
AgendaSpec == Agenda!AgendaSpec

(* An event that a thread hands in, at whatever moment of the unlocked     *)
(* look at the flag, is not overlooked for ever: a look that misses it is  *)
(* followed by one that does not, in Destroy at the latest.                *)
PostedTaken == withContext # <<>> ~> withContext = <<>>
=============================================================================
