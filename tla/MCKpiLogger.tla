---------------------------- MODULE MCKpiLogger -----------------------------
(* KpiLogger for TLC: vehicles and nodes are interchangeable. *)
EXTENDS KpiLogger

Symmetry == Permutations(Vehicles) \cup Permutations(Nodes)

(* Bound: all UEs are in use together (so that a CAM has several eligible  *)
(* receivers) during the first two ticks only.                             *)
Bounded ==
  \/ now <= 2
  \/ \E n \in Nodes : appState[n] # "running" /\ ~IsNodeActive(n)
=============================================================================
