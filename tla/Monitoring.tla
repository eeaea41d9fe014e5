------------------------------ MODULE Monitoring ------------------------------
(***************************************************************************)
(* Persistent monitors: the SQLite tables that every process shares        *)
(* (src/src/rankrat/state/sqlite.py) and the runs that work on them        *)
(* (src/src/rankrat/operator/monitoring.py).                               *)
(*                                                                         *)
(* A worker is one call of MonitoringOperator._execute in one process: the *)
(* HTTP scheduler's loop, or a monitor_run request of an HTTP or a stdio   *)
(* process.  Every repository method is one BEGIN IMMEDIATE transaction,   *)
(* so one action; the awaits between them are where other workers and the  *)
(* operator's requests interleave.                                         *)
(*                                                                         *)
(* Time is the wall clock of the host in a unit that divides the claim's   *)
(* 900 and the renewal's 300 seconds.  A prompt worker's next step is at   *)
(* most MaxLag late; a stalling one (a busy event loop, a paused host) may *)
(* sleep past the expiry of its claim and wake up at any time.             *)
(***************************************************************************)
EXTENDS IssueLifecycle

CONSTANTS
  Monitor,         \* monitor ids (uuid4: an id is never issued twice)
  NoMonitor,       \* the monitor of an idle worker
  Site,            \* (kind, account_id, site_url), UNIQUE in `monitors`
  Identity,        \* issue identities, sha256(code, resource)
  Worker,          \* concurrent runs, in any process
  Interval,        \* values of interval_seconds that requests use
  ClaimSeconds,    \* MONITOR_CLAIM_SECONDS
  RenewalSeconds,  \* MONITOR_CLAIM_RENEWAL_SECONDS
  Retention,       \* retention_days
  Stalling,        \* the workers that may be late without limit
  MaxLag,          \* how late the due step of any other worker may be
  MaxRepeat,       \* how often one report may name one identity
  MaxTime,         \* bound: the clock stops here
  MaxClaims,       \* bound: claims granted in a behaviour
  MaxEvents        \* bound: the operator stops editing an issue whose log is longer

ASSUME MonitoringAssumption ==
  /\ NoMonitor \notin Monitor /\ Stalling \subseteq Worker
  /\ Interval \subseteq Nat \ {0}
  /\ ClaimSeconds \in Nat /\ RenewalSeconds \in Nat /\ Retention \in Nat
  /\ MaxLag \in Nat /\ MaxRepeat \in Nat
  /\ MaxTime \in Nat /\ MaxClaims \in Nat /\ MaxEvents \in Nat

VARIABLES
  now,        \* datetime.now(UTC)
  created,    \* every monitor id that was ever inserted
  rows,       \* ids present in `monitors`
  row,        \* the columns of `monitors`
  snapshots,  \* `snapshots` of each monitor, with the token of their claim
  issues,     \* `issues` of each monitor
  events,     \* `issue_events` of each issue, in id order
  granted,    \* number of claim tokens (uuid4) handed out so far
  work,       \* what each worker is doing
  revoked     \* history: tokens that disabling a monitor has cleared

store == <<rows, row, snapshots, issues, events>>
vars == <<now, created, store, granted, work, revoked>>

Token == 1..MaxClaims
Time  == 0..MaxTime

EmptyRow == [site |-> Nil, interval |-> Nil, enabled |-> FALSE,
             nextRun |-> Nil, claimedUntil |-> Nil, claimToken |-> Nil]

NoFindings == [i \in Identity |-> 0]

IdleWork == [phase |-> "idle", monitor |-> NoMonitor, token |-> Nil,
             interval |-> Nil, due |-> Nil, findings |-> NoFindings]

Phase == {"idle", "claimed", "running", "saving", "releasing", "orphan"}

(* Phases in which the _execute call is alive and has a step to make. *)
Active == {"claimed", "running", "saving", "releasing"}

Prompt == Worker \ Stalling

Init ==
  /\ now = 0
  /\ created = {}
  /\ rows = {}
  /\ row = [m \in Monitor |-> EmptyRow]
  /\ snapshots = [m \in Monitor |-> {}]
  /\ issues = [m \in Monitor |-> [i \in Identity |-> NoIssue]]
  /\ events = [m \in Monitor |-> [i \in Identity |-> <<>>]]
  /\ granted = 0
  /\ work = [w \in Worker |-> IdleWork]
  /\ revoked = {}

-------------------------------------------------------------------------------
(* Requests of the operator. *)

InsertedRow(s, i) ==
  [site |-> s, interval |-> i, enabled |-> TRUE, nextRun |-> now,
   claimedUntil |-> Nil, claimToken |-> Nil]

CreateMonitor(m, s, i) ==
  /\ m \notin created
  /\ \A o \in rows : row[o].site # s
  /\ created' = created \cup {m}
  /\ rows' = rows \cup {m}
  /\ row' = [row EXCEPT ![m] = InsertedRow(s, i)]
  /\ UNCHANGED <<now, snapshots, issues, events, granted, work, revoked>>

(* The row that update_monitor writes: enabling schedules a run at once,   *)
(* disabling throws the claim away, and a new interval leaves next_run_at  *)
(* as it is.                                                               *)
UpdatedRowKeepsClaim(r, i, on) ==    \* mutant: disabling forgets the claim columns
  [r EXCEPT !.interval = i, !.enabled = on,
            !.nextRun = IF ~r.enabled /\ on THEN now ELSE @]

UpdatedRow(r, i, on) ==
  [r EXCEPT !.interval     = i,
            !.enabled      = on,
            !.nextRun      = IF ~r.enabled /\ on THEN now ELSE @,
            !.claimedUntil = IF on THEN @ ELSE Nil,
            !.claimToken   = IF on THEN @ ELSE Nil]

UpdateMonitor(m, i, on) ==
  /\ m \in rows
  /\ row' = [row EXCEPT ![m] = UpdatedRow(row[m], i, on)]
  /\ revoked' = IF on THEN revoked ELSE revoked \cup ({row[m].claimToken} \ {Nil})
  /\ UNCHANGED <<now, created, rows, snapshots, issues, events, granted, work>>

(* ON DELETE CASCADE takes the snapshots, the issues and their events. *)
DeleteMonitor(m) ==
  /\ m \in rows
  /\ rows' = rows \ {m}
  /\ row' = [row EXCEPT ![m] = EmptyRow]
  /\ snapshots' = [snapshots EXCEPT ![m] = {}]
  /\ issues' = [issues EXCEPT ![m] = [i \in Identity |-> NoIssue]]
  /\ events' = [events EXCEPT ![m] = [i \in Identity |-> <<>>]]
  /\ UNCHANGED <<now, created, granted, work, revoked>>

SetIssueStatus(m, i, s) ==
  /\ m \in rows
  /\ issues[m][i].status \notin {"none", s}
  /\ Len(events[m][i]) < MaxEvents
  /\ issues' = [issues EXCEPT ![m][i] = IssueAfterStatus(@, s, now)]
  /\ events' = [events EXCEPT ![m][i] = Append(@, [kind |-> s, at |-> now])]
  /\ UNCHANGED <<now, created, rows, row, snapshots, granted, work, revoked>>

-------------------------------------------------------------------------------
(* Claiming.  The UPDATE that claims and the SELECT that reads the monitor *)
(* back are two transactions: Start is the second one.                     *)

Free(r) == r.claimedUntil = Nil \/ r.claimedUntil < now

Claimable(m) == m \in rows /\ row[m].enabled /\ Free(row[m])

Due(m) == Claimable(m) /\ row[m].nextRun <= now

Granted(r) == [r EXCEPT !.claimedUntil = now + ClaimSeconds,
                        !.claimToken   = granted + 1]

Claim(m) ==
  [phase |-> "claimed", monitor |-> m, token |-> granted + 1,
   interval |-> Nil, due |-> now, findings |-> NoFindings]

Grant(w, m) ==
  /\ granted < MaxClaims
  /\ work[w].phase = "idle"
  /\ granted' = granted + 1
  /\ row' = [row EXCEPT ![m] = Granted(@)]
  /\ work' = [work EXCEPT ![w] = Claim(m)]
  /\ UNCHANGED <<now, created, rows, snapshots, issues, events, revoked>>

(* run_monitor: a request names the monitor. *)
ClaimMonitor(w, m) == Claimable(m) /\ Grant(w, m)

(* run_next_due: the scheduler takes the monitor that has waited longest   *)
(* (ties go to the smaller id, and ids are random).                        *)
ClaimDueMonitor(w, m) ==
  /\ Due(m)
  /\ \A o \in Monitor : Due(o) => row[m].nextRun <= row[o].nextRun
  /\ Grant(w, m)

(* get_monitor of the claim: the run works with the interval it reads      *)
(* here.  A deleted row raises StateNotFoundError before _execute begins.  *)
Start(w) ==
  /\ work[w].phase = "claimed"
  /\ work' = [work EXCEPT ![w] =
                IF @.monitor \in rows
                THEN [@ EXCEPT !.phase    = "running",
                               !.interval = row[work[w].monitor].interval,
                               !.due      = now + RenewalSeconds]
                ELSE IdleWork]
  /\ UNCHANGED <<now, created, store, granted, revoked>>

-------------------------------------------------------------------------------
(* _execute and its heartbeat _renew_claim. *)

OwnsAnyRow(w) ==                     \* mutant: the token is not compared
  work[w].monitor \in rows

Owns(w) ==
  LET m == work[w].monitor IN m \in rows /\ row[m].claimToken = work[w].token

HeartbeatDue(w) == work[w].phase = "running" /\ now >= work[w].due

RenewedShort(r) ==                   \* mutant: extends by the wrong constant
  [r EXCEPT !.claimedUntil = now + RenewalSeconds]

Renewed(r) == [r EXCEPT !.claimedUntil = now + ClaimSeconds]

Renew(w) ==
  /\ HeartbeatDue(w)
  /\ Owns(w)
  /\ row[work[w].monitor].enabled
  /\ row' = [row EXCEPT ![work[w].monitor] = Renewed(@)]
  /\ work' = [work EXCEPT ![w] = [@ EXCEPT !.due = now + RenewalSeconds]]
  /\ UNCHANGED <<now, created, rows, snapshots, issues, events, granted, revoked>>

(* The run moves on to another phase, whose first step is due at once. *)
Moved(r, phase) == [r EXCEPT !.phase = phase, !.due = now]

(* The renewal matched no row: the heartbeat raises, the audit is          *)
(* cancelled and awaited, and _execute goes to its finally clause.         *)
LoseClaim(w) ==
  /\ HeartbeatDue(w)
  /\ ~(Owns(w) /\ row[work[w].monitor].enabled)
  /\ work' = [work EXCEPT ![w] = Moved(@, "releasing")]
  /\ UNCHANGED <<now, created, store, granted, revoked>>

FinishAudit(w, f) ==
  /\ work[w].phase = "running"
  /\ work' = [work EXCEPT ![w] = [Moved(@, "saving") EXCEPT !.findings = f]]
  /\ UNCHANGED <<now, created, store, granted, revoked>>

(* The audit, the renewal's connection or the save raised.  A save whose   *)
(* token no longer matches always ends here.                               *)
RunFails(w) ==
  /\ work[w].phase \in {"running", "saving"}
  /\ work' = [work EXCEPT ![w] = Moved(@, "releasing")]
  /\ UNCHANGED <<now, created, store, granted, revoked>>

Cleared(r) == [r EXCEPT !.claimedUntil = Nil, !.claimToken = Nil]

(* release_claim: the table after a worker gave back what it still owns. *)
ClaimCleared(w) ==
  IF Owns(w) THEN [row EXCEPT ![work[w].monitor] = Cleared(@)] ELSE row

CutoffTooSoon == now - Retention + 1   \* mutant: off by one

Cutoff == now - Retention

(* save_run: one transaction that checks the token, appends the snapshot,  *)
(* upserts and resolves the issues, schedules the next run with the        *)
(* interval the claim read, frees the claim and prunes every monitor's     *)
(* history.                                                                *)
SaveRun(w) ==
  LET m == work[w].monitor
      f == work[w].findings
      Shot == [token |-> work[w].token, at |-> now]
  IN
  /\ work[w].phase = "saving"
  /\ Owns(w)
  /\ snapshots' = [o \in Monitor |->
       {s \in snapshots[o] \cup (IF o = m THEN {Shot} ELSE {}) : s.at >= Cutoff}]
  /\ issues' = [issues EXCEPT ![m] =
       [i \in Identity |-> IssueAfterRun(@[i], f[i], now)]]
  /\ events' = [o \in Monitor |-> [i \in Identity |->
       KeptEvents(IF o = m THEN events[m][i]
                                  \o EventsAfterRun(issues[m][i], f[i], now)
                  ELSE events[o][i], Cutoff)]]
  /\ row' = [row EXCEPT ![m] =
       [Cleared(@) EXCEPT !.nextRun = now + work[w].interval]]
  /\ work' = [work EXCEPT ![w] = IdleWork]
  /\ UNCHANGED <<now, created, rows, granted, revoked>>

(* The finally clause of a run that did not complete. *)
Release(w) ==
  /\ work[w].phase = "releasing"
  /\ row' = ClaimCleared(w)
  /\ work' = [work EXCEPT ![w] = IdleWork]
  /\ UNCHANGED <<now, created, rows, snapshots, issues, events, granted, revoked>>

(* The task that runs _execute is cancelled (an MCP client cancels its     *)
(* request, the HTTP lifespan ends).  asyncio.wait does not cancel what it *)
(* waits for, so a crawl in progress goes on without its heartbeat.  A     *)
(* second cancellation delivered at "await heartbeat" skips release_claim. *)
Cancel(w, released) ==
  /\ work[w].phase \in {"running", "saving", "releasing"}
  /\ row' = IF released THEN ClaimCleared(w) ELSE row
  /\ work' = [work EXCEPT ![w] =
       IF @.phase = "running" THEN [@ EXCEPT !.phase = "orphan"] ELSE IdleWork]
  /\ UNCHANGED <<now, created, rows, snapshots, issues, events, granted, revoked>>

(* The abandoned crawl ends; nobody reads its report. *)
OrphanEnds(w) ==
  /\ work[w].phase = "orphan"
  /\ work' = [work EXCEPT ![w] = IdleWork]
  /\ UNCHANGED <<now, created, store, granted, revoked>>

(* The process dies; its claim stays in the table. *)
Crash(w) ==
  /\ work[w].phase # "idle"
  /\ work' = [work EXCEPT ![w] = IdleWork]
  /\ UNCHANGED <<now, created, store, granted, revoked>>

Tick ==
  /\ now < MaxTime
  /\ \A w \in Prompt :
       work[w].phase \in Active => now + 1 <= work[w].due + MaxLag
  /\ now' = now + 1
  /\ UNCHANGED <<created, store, granted, work, revoked>>

-------------------------------------------------------------------------------
OperatorStep ==
  \E m \in Monitor :
    \/ \E s \in Site, i \in Interval : CreateMonitor(m, s, i)
    \/ \E i \in Interval, on \in BOOLEAN : UpdateMonitor(m, i, on)
    \/ DeleteMonitor(m)
    \/ \E i \in Identity, s \in Status : SetIssueStatus(m, i, s)

WorkerStep(w) ==
  \/ \E m \in Monitor : ClaimMonitor(w, m)
  \/ \E m \in Monitor : ClaimDueMonitor(w, m)
  \/ Start(w)
  \/ Renew(w)
  \/ LoseClaim(w)
  \/ \E f \in [Identity -> 0..MaxRepeat] : FinishAudit(w, f)
  \/ RunFails(w)
  \/ SaveRun(w)
  \/ Release(w)
  \/ \E released \in BOOLEAN : Cancel(w, released)
  \/ OrphanEnds(w)
  \/ Crash(w)

Next == Tick \/ OperatorStep \/ \E w \in Worker : WorkerStep(w)

Spec == Init /\ [][Next]_vars

-------------------------------------------------------------------------------
(* Properties. *)

RowType == [site : Site \cup {Nil}, interval : Interval \cup {Nil},
            enabled : BOOLEAN, nextRun : Nat \cup {Nil},
            claimedUntil : Nat \cup {Nil}, claimToken : Token \cup {Nil}]

WorkType == [phase : Phase, monitor : Monitor \cup {NoMonitor},
             token : Token \cup {Nil}, interval : Interval \cup {Nil},
             due : Nat \cup {Nil}, findings : [Identity -> 0..MaxRepeat]]

SnapshotType == [token : Token, at : Nat]

(* The words and times in the event logs are left to HistoryTellsStatus. *)
TypeOK ==
  /\ now \in Time
  /\ created \subseteq Monitor
  /\ rows \subseteq created
  /\ row \in [Monitor -> RowType]
  /\ snapshots \in [Monitor -> SUBSET SnapshotType]
  /\ issues \in [Monitor -> [Identity -> Issue]]
  /\ DOMAIN events = Monitor
  /\ granted \in 0..MaxClaims
  /\ work \in [Worker -> WorkType]
  /\ revoked \subseteq Token
  /\ \A m \in rows : row[m].interval \in Interval
  /\ \A w \in Worker :
       /\ work[w].phase # "idle" => work[w].token \in Token
       /\ work[w].phase \in {"running", "saving"} => work[w].interval \in Interval

(* Runs of one monitor publish in the order in which their claims were     *)
(* granted, each at most once: a run whose claim expired and was taken     *)
(* over never lands its older report after the newer one, however late its *)
(* process wakes up.                                                       *)
SnapshotsInClaimOrder ==
  \A m \in Monitor : \A s, t \in snapshots[m] :
    /\ s.token <= t.token => s.at <= t.at
    /\ s.token = t.token => s = t

(* Disabling a monitor is final for the run in progress: a run whose claim *)
(* was thrown away never publishes, even if the monitor is enabled and     *)
(* claimed again before that run ends.                                     *)
RevokedNeverSaves ==
  \A m \in Monitor : \A s \in snapshots[m] : s.token \notin revoked

(* Worker w is in the middle of a run that no operator has called off. *)
Undisturbed(w) ==
  /\ work[w].phase \in {"claimed", "running", "saving"}
  /\ work[w].token \notin revoked
  /\ work[w].monitor \in rows

(* Nobody else can claim the monitor of a prompt worker's run in progress: *)
(* its heartbeat keeps ahead of the expiry, whatever the others do.        *)
LiveRunKeepsClaim == \A w \in Prompt : Undisturbed(w) => Owns(w)

(* The event history of an issue accounts for its status, whatever mix of  *)
(* runs and manual changes produced it: replaying the log ends in the      *)
(* status of the row, unless retention has taken every word that set it;   *)
(* and resolved_at is there exactly while the issue is resolved.           *)
HistoryTellsStatus ==
  \A m \in Monitor, i \in Identity :
    /\ \/ ToldStatus(events[m][i]) = issues[m][i].status
       \/ /\ ToldStatus(events[m][i]) = "unknown"
          /\ issues[m][i].status = "none" \/ now > Retention
    /\ issues[m][i].status = "resolved" <=> issues[m][i].resolvedAt # Nil

(* A run never undoes an acknowledgement: only the operator turns an       *)
(* acknowledged issue back to open.                                        *)
AcknowledgementSticks ==
  [][\A m \in Monitor, i \in Identity :
       issues[m][i].status = "acknowledged" /\ issues'[m][i].status = "open"
         => UNCHANGED work]_vars

(* Retention and saves of one monitor never lose recent history of any     *)
(* monitor: only deleting the monitor does.                                *)
RecentHistoryKept ==
  [][\A m \in rows \cap rows' :
       /\ \A s \in snapshots[m] : s.at >= now - Retention => s \in snapshots'[m]
       /\ \A i \in Identity : \A k \in DOMAIN events[m][i] :
            events[m][i][k].at >= now - Retention
              => \E j \in DOMAIN events'[m][i] : events'[m][i][j] = events[m][i][k]]_vars
===============================================================================
