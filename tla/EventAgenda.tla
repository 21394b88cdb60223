---------------------------- MODULE EventAgenda -----------------------------
(***************************************************************************)
(* What a discrete-event simulator promises to its models: an agenda of    *)
(* planned events, numbered in the order in which they were planned, and a *)
(* clock that never passes one of them.  The next event is the one with    *)
(* the least time, and of those the one that was planned first.            *)
(***************************************************************************)
EXTENDS Integers

CONSTANT Event      \* events, records with the fields ts and uid

VARIABLES agenda, clock

agendaVars == <<agenda, clock>>

AgendaInit == agenda = {} /\ clock = 0

(* New events, all in the future or now, are planned behind the others. *)
Plan ==
  /\ agenda \subseteq agenda' /\ agenda # agenda'
  /\ \A e \in agenda' \ agenda :
       /\ e \in Event /\ e.ts >= clock
       /\ \A f \in agenda : f.uid < e.uid
       /\ \A f \in agenda' : f.uid = e.uid => f = e
  /\ UNCHANGED clock

(* An event is taken back. *)
TakeBack ==
  /\ \E e \in agenda : agenda' = agenda \ {e}
  /\ UNCHANGED clock

IsNext(e) ==
  \A f \in agenda \ {e} : e.ts < f.ts \/ (e.ts = f.ts /\ e.uid < f.uid)

Fire ==
  \E e \in agenda :
    /\ IsNext(e)
    /\ agenda' = agenda \ {e}
    /\ clock' = e.ts

(* The clock moves without an event, up to the next one at most. *)
Pass ==
  /\ clock' > clock
  /\ \A e \in agenda : clock' <= e.ts
  /\ UNCHANGED agenda

(* The simulator is destroyed with what is still planned. *)
Discard == agenda' = {} /\ UNCHANGED clock

AgendaNext == Plan \/ TakeBack \/ Fire \/ Pass \/ Discard

AgendaSpec == AgendaInit /\ [][AgendaNext]_agendaVars
=============================================================================
