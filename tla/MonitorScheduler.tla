--------------------------- MODULE MonitorScheduler ---------------------------
(***************************************************************************)
(* Does every monitor get its turn?  The supervisor loop of the HTTP       *)
(* service (_run_monitor_scheduler in src/src/rankrat/transports/http.py)  *)
(* and the order in which claim_due_monitor serves the due monitors        *)
(* (src/src/rankrat/state/sqlite.py).                                      *)
(*                                                                         *)
(* Time is abstracted to order.  `queue` holds the due enabled monitors,   *)
(* oldest next_run_at first.  A monitor becomes due after all those that   *)
(* already are, so it joins at the back; a finished run moves next_run_at  *)
(* into the future, so it leaves; a run that fails keeps next_run_at and   *)
(* with it the place.  Claims of live runs do not expire here (that is     *)
(* LiveRunKeepsClaim of Monitoring.tla); those of crashed processes do.    *)
(* Deleting a monitor is disabling it, as far as the queue can tell, and   *)
(* creating one is enabling it.                                            *)
(***************************************************************************)
EXTENDS Naturals, Sequences, SequencesExt

CONSTANTS
  Monitor,     \* monitor ids
  Scheduler,   \* HTTP processes, each with one supervisor loop
  Requester,   \* concurrent monitor_run requests
  None, Dead,  \* no owner of a claim; its owner crashed
  MaxDeaths    \* bound: process deaths in a behaviour

Runner == Scheduler \cup Requester

ASSUME SchedulerAssumption ==
  /\ Scheduler \cap Requester = {}
  /\ {None, Dead} \cap (Runner \cup Monitor) = {} /\ None # Dead
  /\ MaxDeaths \in Nat

VARIABLES
  enabled,  \* monitors with enabled = 1
  queue,    \* due enabled monitors in next_run_at order
  owner,    \* whose claim_token a monitor carries
  pc,       \* where each runner is
  job,      \* the monitor it works on
  deaths    \* process deaths so far

queueVars == <<enabled, queue, owner, pc, job, deaths>>

QueueInit ==
  /\ enabled = {}
  /\ queue = <<>>
  /\ owner = [m \in Monitor |-> None]
  /\ pc = [r \in Runner |-> IF r \in Scheduler THEN "off" ELSE "idle"]
  /\ job = [r \in Runner |-> None]
  /\ deaths = 0

-------------------------------------------------------------------------------
(* update_monitor: enabling makes the monitor due now, disabling clears    *)
(* its claim.                                                              *)
Enable(m) ==
  /\ m \notin enabled
  /\ enabled' = enabled \cup {m}
  /\ queue' = Append(queue, m)
  /\ UNCHANGED <<owner, pc, job, deaths>>

Disable(m) ==
  /\ m \in enabled
  /\ enabled' = enabled \ {m}
  /\ queue' = Remove(queue, m)
  /\ owner' = [owner EXCEPT ![m] = None]
  /\ UNCHANGED <<pc, job, deaths>>

(* The clock passes next_run_at. *)
Ripen(m) ==
  /\ m \in enabled
  /\ ~Contains(queue, m)
  /\ queue' = Append(queue, m)
  /\ UNCHANGED <<enabled, owner, pc, job, deaths>>

(* The clock passes claimed_until of a claim that nobody renews. *)
Expire(m) ==
  /\ owner[m] = Dead
  /\ owner' = [owner EXCEPT ![m] = None]
  /\ UNCHANGED <<enabled, queue, pc, job, deaths>>

-------------------------------------------------------------------------------
(* The due monitors that carry no claim, in the order of the queue. *)
Unclaimed ==
  LET Free(m) == owner[m] = None IN SelectSeq(queue, Free)

NewestDue == Last(Unclaimed)         \* mutant: ORDER BY next_run_at DESC

OldestDue == Head(Unclaimed)

Take(r, m) ==
  /\ owner' = [owner EXCEPT ![m] = r]
  /\ pc' = [pc EXCEPT ![r] = "running"]
  /\ job' = [job EXCEPT ![r] = m]
  /\ UNCHANGED <<enabled, queue, deaths>>

(* The service is started, and its lifespan starts the supervisor. *)
StartService(s) ==
  /\ pc[s] = "off"
  /\ pc' = [pc EXCEPT ![s] = "looking"]
  /\ UNCHANGED <<enabled, queue, owner, job, deaths>>

(* One turn of the supervisor: run_next_due, or sleep when nothing is due. *)
Look(s) ==
  /\ s \in Scheduler
  /\ pc[s] = "looking"
  /\ IF Unclaimed # <<>> THEN Take(s, OldestDue)
     ELSE /\ pc' = [pc EXCEPT ![s] = "sleeping"]
          /\ UNCHANGED <<enabled, queue, owner, job, deaths>>

Wake(s) ==
  /\ pc[s] = "sleeping"
  /\ pc' = [pc EXCEPT ![s] = "looking"]
  /\ UNCHANGED <<enabled, queue, owner, job, deaths>>

(* monitor_run: any enabled monitor without a claim, due or not. *)
Request(r, m) ==
  /\ r \in Requester
  /\ pc[r] = "idle"
  /\ m \in enabled /\ owner[m] = None
  /\ Take(r, m)

(* save_run succeeds; the supervisor looks again at once. *)
Save(r, m) ==
  /\ pc[r] = "running" /\ job[r] = m
  /\ owner[m] = r
  /\ queue' = Remove(queue, m)
  /\ owner' = [owner EXCEPT ![m] = None]
  /\ pc' = [pc EXCEPT ![r] = IF r \in Scheduler THEN "looking" ELSE "idle"]
  /\ job' = [job EXCEPT ![r] = None]
  /\ UNCHANGED <<enabled, deaths>>

(* release_claim: gives back what the runner still owns. *)
Released(r) ==
  [m \in Monitor |-> IF owner[m] = r THEN None ELSE owner[m]]

(* The run raises: release_claim, then every except clause of the          *)
(* supervisor sleeps.                                                      *)
RunFails(r) ==
  /\ pc[r] = "running"
  /\ owner' = Released(r)
  /\ pc' = [pc EXCEPT ![r] = IF r \in Scheduler THEN "sleeping" ELSE "idle"]
  /\ job' = [job EXCEPT ![r] = None]
  /\ UNCHANGED <<enabled, queue, deaths>>

(* The process dies with its claim in the table, and is started again. *)
Die(r) ==
  /\ deaths < MaxDeaths
  /\ pc[r] \notin {"off", "down"}
  /\ deaths' = deaths + 1
  /\ owner' = [m \in Monitor |-> IF owner[m] = r THEN Dead ELSE owner[m]]
  /\ pc' = [pc EXCEPT ![r] = "down"]
  /\ job' = [job EXCEPT ![r] = None]
  /\ UNCHANGED <<enabled, queue>>

Restart(r) ==
  /\ pc[r] = "down"
  /\ pc' = [pc EXCEPT ![r] = IF r \in Scheduler THEN "looking" ELSE "idle"]
  /\ UNCHANGED <<enabled, queue, owner, job, deaths>>

-------------------------------------------------------------------------------
QueueNext ==
  \/ \E m \in Monitor : Enable(m) \/ Disable(m) \/ Ripen(m) \/ Expire(m)
  \/ \E r \in Runner :
       \/ StartService(r) \/ Look(r) \/ Wake(r) \/ RunFails(r) \/ Die(r) \/ Restart(r)
       \/ \E m \in Monitor : Request(r, m) \/ Save(r, m)

RunEnds(r) == RunFails(r) \/ \E m \in Monitor : Save(r, m)

(* The event loop runs what is ready, the clock advances, a bounded crawl  *)
(* ends, the container is restarted.                                       *)
SupervisorFairness ==
  /\ \A s \in Scheduler : WF_queueVars(Look(s)) /\ WF_queueVars(Wake(s))
  /\ \A r \in Runner : WF_queueVars(RunEnds(r)) /\ WF_queueVars(Restart(r))
  /\ \A m \in Monitor : WF_queueVars(Ripen(m)) /\ WF_queueVars(Expire(m))

(* The audit of a monitor that is tried over and over succeeds in the end, *)
(* whoever runs it.  Without this a monitor that fails for ever would keep *)
(* the head of the queue, and those behind it would wait for ever too.     *)
AuditFairness == \A m \in Monitor : SF_queueVars(\E r \in Runner : Save(r, m))

QueueSpec == QueueInit /\ [][QueueNext]_queueVars /\ SupervisorFairness /\ AuditFairness

-------------------------------------------------------------------------------
(* Properties. *)

(* Once a service runs, every due monitor is run to completion (or         *)
(* switched off), in spite of failing runs, competing requests and crashes *)
(* that leave claims behind, as long as no monitor fails for ever.         *)
DueMonitorsComplete ==
  \A m \in Monitor :
    Contains(queue, m) /\ (\E s \in Scheduler : pc[s] # "off") ~> ~Contains(queue, m)
===============================================================================
