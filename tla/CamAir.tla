------------------------------- MODULE CamAir -------------------------------
(***************************************************************************)
(* What the pool of physical UEs promises to everyone who hears a CAM: at  *)
(* any time a UE is silent or speaks for one vehicle, no vehicle speaks    *)
(* through two UEs, and a UE falls silent before it speaks for another.    *)
(***************************************************************************)
CONSTANTS Vehicles, Nodes, NoVehicle

VARIABLE onAir   \* the vehicle each UE transmits for, or NoVehicle

Init == onAir = [n \in Nodes |-> NoVehicle]

StartCam(n, v) ==
  /\ onAir[n] = NoVehicle
  /\ \A m \in Nodes : onAir[m] # v
  /\ onAir' = [onAir EXCEPT ![n] = v]

StopCam(n) ==
  /\ onAir[n] # NoVehicle
  /\ onAir' = [onAir EXCEPT ![n] = NoVehicle]

Next == \E n \in Nodes : StopCam(n) \/ \E v \in Vehicles : StartCam(n, v)

Spec == Init /\ [][Next]_onAir
=============================================================================
