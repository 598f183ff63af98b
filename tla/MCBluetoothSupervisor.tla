----------------------- MODULE MCBluetoothSupervisor -----------------------
(***************************************************************************)
(* Instances of BluetoothSupervisor.                                       *)
(***************************************************************************)
EXTENDS BluetoothSupervisor

\* One mapping session, no media commands
MappingPlan(onMac, calls, workers) ==
  [live |-> onMac, changes |-> calls, inputs |-> {"mapping"},
   disturbances |-> 1, requests |-> 1, sends |-> 0, processes |-> workers]

\* Media commands, without input
MediaPlan(onMac, failures, profiles, commandsSent) ==
  [live |-> onMac, changes |-> {"drop"}, inputs |-> {},
   disturbances |-> failures, requests |-> profiles, sends |-> commandsSent,
   processes |-> 10]

AnyChange == {"select", "restart", "invalidate", "pair", "refresh"}

\* A switch of the profile takes a new worker on Windows, and none on macOS.
\* With media commands, macOS has either a failure or a switch, Windows both.
ThreadPlans ==
  {MappingPlan(FALSE, AnyChange, 3), MappingPlan(TRUE, AnyChange, 2),
   MediaPlan(FALSE, 1, 1, 2), MediaPlan(TRUE, 1, 0, 2), MediaPlan(TRUE, 0, 1, 2)}

LivePlans == {MediaPlan(FALSE, 1, 1, 1)}
ArmPlans  == {MappingPlan(FALSE, {"invalidate"}, 3)}
=============================================================================
