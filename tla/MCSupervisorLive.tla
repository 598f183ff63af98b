-------------------------- MODULE MCSupervisorLive --------------------------
(***************************************************************************)
(* The liveness of the supervisor, and under it that of the process whose  *)
(* channel it takes as given: each is a set of behaviours of its own, and  *)
(* part says whose behaviour it is.                                        *)
(***************************************************************************)
EXTENDS MCBluetoothSupervisor

CONSTANTS QueueCapacity, IncomingCapacity, PipeCapacity, MaxOwners, MaxSends, MaxMessages

VARIABLES part, host, owners

Process == INSTANCE WorkerProcess

ASSUME Process!ProcessAssumption

live_vars == <<vars, part, host, owners>>

LiveInit == part \in {"supervisor", "process"} /\ Init /\ Process!Init

InSupervisor == part = "supervisor" /\ UNCHANGED <<part, host, owners>>
InProcess == part = "process" /\ UNCHANGED <<part, vars>>

LiveNext ==
  \/ InSupervisor /\ Next
  \/ InProcess /\ Process!Calls
  \/ InProcess /\ Process!Waits
  \/ InProcess /\ Process!Processes

\* The fairness of FairSpec, and the work of the process
LiveSpec ==
  /\ LiveInit /\ [][LiveNext]_live_vars
  /\ WF_live_vars((InSupervisor /\ Supervisor) \/ (InProcess /\ Process!Work))
  /\ SF_live_vars(InSupervisor /\ SwitchExpires)
  /\ SF_live_vars(InSupervisor /\ Expire)

-----------------------------------------------------------------------------
\* Owned, StopEnds and OrphanExits of the process: there is one owner of the service, it is
\* told what was sent and nothing else, a stop waits for it and ends, and it does not outlive
\* the application.
OneOwnerRetires ==
  /\ [](Process!TypeOK /\ Process!Owned)
  /\ Process!StopEnds /\ Process!OrphanExits
=============================================================================
