-------------------------------- MODULE MCWaits --------------------------------
(* Instances for TLC of the machines whose callers wait: for the Lighthouse  *)
(* companion, for the monitor scheduler, for the callback of an              *)
(* authorization, for the lock of a token file.  They share no state, so a   *)
(* behaviour follows one of them and leaves the others as they were at the   *)
(* start.  Liveness is checked: no symmetry.                                 *)
EXTENDS Lighthouse, MonitorScheduler, LoopbackReceiver, TokenStore

WaitsInit == WorkerInit /\ QueueInit /\ LoopInit /\ Init

FollowWorker ==
  WorkerNext /\ QueueInit /\ LoopInit /\ Init /\ UNCHANGED <<queueVars, loopVars, vars>>

FollowQueue ==
  QueueNext /\ WorkerInit /\ LoopInit /\ Init /\ UNCHANGED <<workerVars, loopVars, vars>>

FollowListener ==
  LoopNext /\ WorkerInit /\ QueueInit /\ Init /\ UNCHANGED <<workerVars, queueVars, vars>>

FollowFile ==
  Next /\ WorkerInit /\ QueueInit /\ LoopInit /\ UNCHANGED <<workerVars, queueVars, loopVars>>

WaitsNext == FollowWorker \/ FollowQueue \/ FollowListener \/ FollowFile

WaitsSpec ==
  /\ WaitsInit
  /\ [][WaitsNext]_<<workerVars, queueVars, loopVars, vars>>
  /\ WorkerFairness /\ SupervisorFairness /\ AuditFairness /\ LoopFairness /\ Fairness
================================================================================
