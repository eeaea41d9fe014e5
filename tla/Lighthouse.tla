------------------------------ MODULE Lighthouse ------------------------------
(***************************************************************************)
(* The Lighthouse companion: an HTTP worker on a Unix socket that runs one *)
(* audit at a time (src/lighthouse-worker/src/server.ts, runner.ts) and    *)
(* the client that calls it (src/src/rankrat/providers/lighthouse.py,      *)
(* services/lighthouse.py).                                                *)
(*                                                                         *)
(* A call is one connection: httpx opens it for one request and closes it. *)
(* The worker's handler runs to its next await without interruption, so    *)
(* the check of the busy flag and its setting are one step.  A runner is   *)
(* the child process of one audit; it drives a browser of its own.         *)
(* Timeouts are events that may come at any moment.  Reports are reduced   *)
(* to accepted or not.  GET /healthz only reads the flag, and the client   *)
(* always sends a well-formed POST with the JSON media type.               *)
(***************************************************************************)
EXTENDS Naturals

CONSTANTS
  Caller,       \* connections
  MaxCrashes  \* bound: deaths of the worker process

ASSUME LighthouseAssumption == MaxCrashes \in Nat

VARIABLES
  caller,   \* where the Python client of each connection is
  told,     \* what it was told last
  handler,  \* where handleRequest of each connection is
  runner,   \* the child process of each connection
  busy,     \* state.auditRunning
  crashes

workerVars == <<caller, told, handler, runner, busy, crashes>>

WorkerAnswer == {"report", "invalid", "busy", "timeout", "unavailable"}

(* The runner processes that exist, and those that have a browser open. *)
Alive == {"started", "browsing"}

(* A runner that has ended, with exit code 0 or not, and whose "close"     *)
(* event has not been delivered.                                           *)
Exited == {"done", "failed"}

WorkerInit ==
  /\ caller = [k \in Caller |-> "idle"]
  /\ told = [k \in Caller |-> "nothing"]
  /\ handler = [k \in Caller |-> "none"]
  /\ runner = [k \in Caller |-> "none"]
  /\ busy = FALSE
  /\ crashes = 0

-------------------------------------------------------------------------------
TellReportsOnly(k, a) ==             \* mutant: a failed audit is not answered
  IF caller[k] = "waiting" /\ a # "unavailable"
  THEN caller' = [caller EXCEPT ![k] = "idle"] /\ told' = [told EXCEPT ![k] = a]
  ELSE UNCHANGED <<caller, told>>

(* What a caller that still listens is told; the others have hung up. *)
Tell(k, a) ==
  IF caller[k] = "waiting"
  THEN caller' = [caller EXCEPT ![k] = "idle"] /\ told' = [told EXCEPT ![k] = a]
  ELSE UNCHANGED <<caller, told>>

(* LighthouseWorkerClient.audit opens the connection. *)
Dial(k) ==
  /\ caller[k] = "idle" /\ handler[k] = "none"
  /\ caller' = [caller EXCEPT ![k] = "waiting"]
  /\ told' = [told EXCEPT ![k] = "nothing"]
  /\ handler' = [handler EXCEPT ![k] = "queued"]
  /\ UNCHANGED <<runner, busy, crashes>>

(* httpx.TimeoutException: the client hangs up, the worker goes on. *)
HangUpFreesSlot(k) ==                \* mutant: hanging up ends the audit's slot
  /\ caller[k] = "waiting"
  /\ Tell(k, "timeout")
  /\ busy' = (busy /\ handler[k] # "auditing")
  /\ UNCHANGED <<handler, runner, crashes>>

HangUp(k) ==
  /\ caller[k] = "waiting"
  /\ Tell(k, "timeout")
  /\ UNCHANGED <<handler, runner, busy, crashes>>

-------------------------------------------------------------------------------
(* handleRequest up to its first await: 409, or the slot is taken. *)
Accept(k) ==
  /\ handler[k] = "queued"
  /\ IF busy
     THEN Tell(k, "busy") /\ handler' = [handler EXCEPT ![k] = "none"] /\ UNCHANGED busy
     ELSE /\ busy' = TRUE
          /\ handler' = [handler EXCEPT ![k] = "reading"]
          /\ UNCHANGED <<caller, told>>
  /\ UNCHANGED <<runner, crashes>>

SettledByAudit(k, a) ==              \* mutant: only a run audit frees the slot
  /\ Tell(k, a)
  /\ handler' = [handler EXCEPT ![k] = "none"]
  /\ busy' = (busy /\ handler[k] = "reading")

(* The catch and finally clauses: an answer, and the slot is free again. *)
Settled(k, a) ==
  /\ Tell(k, a)
  /\ handler' = [handler EXCEPT ![k] = "none"]
  /\ busy' = FALSE

(* The whole body arrived and parsed: runAudit spawns a runner. *)
Spawn(k) ==
  /\ handler[k] = "reading"
  /\ handler' = [handler EXCEPT ![k] = "auditing"]
  /\ runner' = [runner EXCEPT ![k] = "started"]
  /\ UNCHANGED <<caller, told, busy, crashes>>

(* The body is too large, not JSON or not a request; or the client hung up *)
(* before it was complete.                                                 *)
BodyFails(k) ==
  /\ handler[k] = "reading"
  /\ Settled(k, "unavailable")
  /\ UNCHANGED <<runner, crashes>>

(* The child's "error" event: there is no process. *)
SpawnFails(k) ==
  /\ handler[k] = "auditing" /\ runner[k] = "started"
  /\ Settled(k, "unavailable")
  /\ runner' = [runner EXCEPT ![k] = "none"]
  /\ UNCHANGED crashes

(* The child's "close" event, and what the caller makes of the answer: a   *)
(* report can still fail validation on either side.                        *)
Close(k) ==
  /\ runner[k] \in Exited
  /\ \E a \in (IF runner[k] = "done" THEN {"report", "invalid", "unavailable"}
               ELSE {"unavailable"}) : Settled(k, a)
  /\ runner' = [runner EXCEPT ![k] = "none"]
  /\ UNCHANGED crashes

-------------------------------------------------------------------------------
(* The runner process: chromeLauncher.launch, then Lighthouse, and the     *)
(* finally clause that closes the browser.                                 *)
Launch(k) ==
  /\ runner[k] = "started"
  /\ runner' = [runner EXCEPT ![k] = "browsing"]
  /\ UNCHANGED <<caller, told, handler, busy, crashes>>

Finish(k) ==
  /\ runner[k] = "browsing"
  /\ runner' = [runner EXCEPT ![k] = "done"]
  /\ UNCHANGED <<caller, told, handler, busy, crashes>>

Fail(k) ==
  /\ runner[k] \in Alive
  /\ runner' = [runner EXCEPT ![k] = "failed"]
  /\ UNCHANGED <<caller, told, handler, busy, crashes>>

(* SIGKILL, at the deadline or for too much output.  No finally clause     *)
(* runs, so the browser, a process group of its own, stays (not modelled). *)
KillIfBrowsing(k) ==                 \* mutant: the timer starts with the browser
  /\ runner[k] = "browsing"
  /\ runner' = [runner EXCEPT ![k] = "failed"]
  /\ UNCHANGED <<caller, told, handler, busy, crashes>>

Kill(k) ==
  /\ runner[k] \in Alive
  /\ runner' = [runner EXCEPT ![k] = "failed"]
  /\ UNCHANGED <<caller, told, handler, busy, crashes>>

(* The worker dies.  Its container, with every process in it, is started   *)
(* again; open connections break.                                          *)
Crash ==
  /\ crashes < MaxCrashes
  /\ crashes' = crashes + 1
  /\ told' = [k \in Caller |-> IF caller[k] = "waiting" THEN "unavailable" ELSE told[k]]
  /\ caller' = [k \in Caller |-> "idle"]
  /\ handler' = [k \in Caller |-> "none"]
  /\ runner' = [k \in Caller |-> "none"]
  /\ busy' = FALSE

-------------------------------------------------------------------------------
CallerStep(k) ==
  \/ Dial(k) \/ HangUp(k)
  \/ Accept(k) \/ Spawn(k) \/ BodyFails(k) \/ SpawnFails(k) \/ Close(k)
  \/ Launch(k) \/ Finish(k) \/ Fail(k) \/ Kill(k)

WorkerNext == Crash \/ \E k \in Caller : CallerStep(k)

(* The worker's event loop delivers headers, the end of a body, the        *)
(* deadline of a runner and its "close" event.  Neither the runner nor the *)
(* client's patience is fair.                                              *)
WorkerFairness ==
  \A k \in Caller :
    /\ WF_workerVars(Accept(k))
    /\ WF_workerVars(Spawn(k) \/ BodyFails(k))
    /\ WF_workerVars(Kill(k))
    /\ WF_workerVars(Close(k))

WorkerSpec == WorkerInit /\ [][WorkerNext]_workerVars /\ WorkerFairness

-------------------------------------------------------------------------------
(* Properties. *)

(* docs/lighthouse.md: one audit at a time.  A caller that hangs up and    *)
(* tries again never gets a second runner started beside the first.        *)
OneAudit ==
  \A j, k \in Caller : runner[j] # "none" /\ runner[k] # "none" => j = k

(* The busy flag tells the truth: it is set exactly while one handler is   *)
(* between taking the slot and giving it back, on every way out of it.     *)
BusyIsTrue == busy <=> \E k \in Caller : handler[k] \in {"reading", "auditing"}

(* A slot that is taken is given back, even when the page never settles    *)
(* and the caller has long gone.                                           *)
SlotFreed == busy ~> ~busy

(* Every caller gets an answer, without its own timeout. *)
CallersAnswered == \A k \in Caller : caller[k] = "waiting" ~> caller[k] = "idle"
===============================================================================
