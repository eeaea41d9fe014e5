---------------------------- MODULE IssueLifecycle ----------------------------
(***************************************************************************)
(* The life of one tracked issue of a monitor, as the pure functions that  *)
(* SQLiteStateRepository applies to the rows of `issues` and               *)
(* `issue_events` (src/src/rankrat/state/sqlite.py).  The module has no    *)
(* state of its own: Monitoring.tla keeps the two tables and calls these   *)
(* operators inside its transactions.                                      *)
(*                                                                         *)
(* Abstracted: code, resource, severity, message and remediation of an     *)
(* issue (an update overwrites them and nothing reads them back) and       *)
(* first_seen_at, which is written once.                                   *)
(***************************************************************************)
EXTENDS Integers, Sequences, FiniteSets

(* SQL NULL in a time or token column. *)
Nil == -1

Status == {"open", "acknowledged", "resolved"}

(* What issue_events.event may hold: the four words save_run writes and    *)
(* the status words set_issue_status writes.                               *)
EventKind == {"opened", "observed", "reopened"} \cup Status

(* A row of `issues`; the status "none" stands for "no such row". *)
NoIssue == [status |-> "none", observations |-> 0, resolvedAt |-> Nil]

Issue == [status : Status \cup {"none"}, observations : Nat,
          resolvedAt : Nat \cup {Nil}]

Event == [kind : EventKind, at : Nat]

-------------------------------------------------------------------------------
(* _upsert_findings: a run reported the issue n times at time t.  Only the *)
(* first report of a run can open or reopen it; the others, and every      *)
(* report of an issue that is already open or acknowledged, count one more *)
(* observation and keep the status.                                        *)
UpsertedReopens(issue, n) ==         \* mutant: every report opens the issue
  IF n = 0 THEN issue
  ELSE [status |-> "open", observations |-> issue.observations + n,
        resolvedAt |-> Nil]

UpsertedEventWord(issue, n) ==       \* mutant: the status takes the event's word
  IF n = 0 THEN issue
  ELSE [status |-> IF issue.status = "resolved" THEN "reopened" ELSE "open",
        observations |-> issue.observations + n, resolvedAt |-> Nil]

Upserted(issue, n) ==
  IF n = 0 THEN issue
  ELSE [status       |-> IF issue.status \in {"none", "resolved"} THEN "open"
                         ELSE issue.status,
        observations |-> issue.observations + n,
        resolvedAt   |-> Nil]

UpsertKindForgetsReopen(issue) ==    \* mutant: a reopening is logged as a sighting
  IF issue.status = "none" THEN "opened" ELSE "observed"

UpsertKind(issue) ==
  CASE issue.status = "none"     -> "opened"
    [] issue.status = "resolved" -> "reopened"
    [] OTHER                     -> "observed"

UpsertEvents(issue, n, t) ==
  [k \in 1..n |-> [kind |-> IF k = 1 THEN UpsertKind(issue) ELSE "observed",
                   at   |-> t]]

(* _resolve_missing_findings: the run did not report the issue at all. *)
Missing(issue, n) == n = 0 /\ issue.status \in {"open", "acknowledged"}

Resolved(issue, t) == [issue EXCEPT !.status = "resolved", !.resolvedAt = t]

(* Both loops of save_run, for one identity. *)
IssueAfterRun(issue, n, t) ==
  IF Missing(issue, n) THEN Resolved(issue, t) ELSE Upserted(issue, n)

EventsAfterRun(issue, n, t) ==
  IF Missing(issue, n) THEN <<[kind |-> "resolved", at |-> t]>>
  ELSE UpsertEvents(issue, n, t)

(* set_issue_status: the operator's own transition. *)
IssueAfterStatus(issue, status, t) ==
  [issue EXCEPT !.status     = status,
                !.resolvedAt = IF status = "resolved" THEN t ELSE Nil]

(* _prune: entries older than the cutoff are deleted.  The clock does not  *)
(* go back, so a log is in the order of its times and they come first.     *)
KeptEvents(log, cutoff) ==
  LET old == {k \in DOMAIN log : log[k].at < cutoff}
  IN  SubSeq(log, Cardinality(old) + 1, Len(log))

-------------------------------------------------------------------------------
(* The status that an event log tells: its last word that is not           *)
(* "observed" (which changes nothing).  "unknown" when retention has       *)
(* removed every such word.                                                *)
Telling(log) == {k \in DOMAIN log : log[k].kind # "observed"}

ToldStatus(log) ==
  IF Telling(log) = {} THEN "unknown"
  ELSE LET last == log[CHOOSE k \in Telling(log) :
                         \A j \in Telling(log) : j <= k].kind
       IN IF last \in {"opened", "reopened"} THEN "open" ELSE last
===============================================================================
