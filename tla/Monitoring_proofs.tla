--------------------------- MODULE Monitoring_proofs ---------------------------
(* Machine-checked proofs about Monitoring, for every value of its constants. *)
EXTENDS MonitorLease, FiniteSetTheorems, TLAPS

-------------------------------------------------------------------------------
(* The records that the actions write are well typed. *)

LEMMA UpsertedType ==
  ASSUME NEW issue \in Issue, NEW n \in Nat
  PROVE  Upserted(issue, n) \in Issue
BY DEF Upserted, Issue, Status

LEMMA ResolvedType ==
  ASSUME NEW issue \in Issue, NEW t \in Nat
  PROVE  Resolved(issue, t) \in Issue
BY DEF Resolved, Issue, Status

LEMMA IssueAfterRunType ==
  ASSUME NEW issue \in Issue, NEW n \in Nat, NEW t \in Nat
  PROVE  IssueAfterRun(issue, n, t) \in Issue
BY UpsertedType, ResolvedType DEF IssueAfterRun

LEMMA IssueAfterStatusType ==
  ASSUME NEW issue \in Issue, NEW s \in Status, NEW t \in Nat
  PROVE  IssueAfterStatus(issue, s, t) \in Issue
BY DEF IssueAfterStatus, Issue, Status

LEMMA EmptyRowType == EmptyRow \in RowType
BY DEF EmptyRow, RowType

LEMMA IdleWorkType == IdleWork \in WorkType
BY MonitoringAssumption DEF IdleWork, WorkType, Phase, NoFindings

LEMMA InsertedRowType ==
  ASSUME now \in Nat, NEW s \in Site, NEW i \in Interval
  PROVE  InsertedRow(s, i) \in RowType
BY DEF InsertedRow, RowType

LEMMA UpdatedRowType ==
  ASSUME now \in Nat, NEW r \in RowType, NEW i \in Interval, NEW on \in BOOLEAN
  PROVE  UpdatedRow(r, i, on) \in RowType
BY DEF UpdatedRow, RowType

LEMMA GrantedType ==
  ASSUME now \in Nat, granted + 1 \in Token, NEW r \in RowType
  PROVE  Granted(r) \in RowType
<1>1. now + ClaimSeconds \in Nat
  BY MonitoringAssumption
<1>2. QED
  BY <1>1 DEF Granted, RowType

LEMMA ClaimType ==
  ASSUME now \in Nat, granted + 1 \in Token, NEW m \in Monitor
  PROVE  Claim(m) \in WorkType
BY MonitoringAssumption DEF Claim, WorkType, Phase, NoFindings

LEMMA RenewedType ==
  ASSUME now \in Nat, NEW r \in RowType
  PROVE  Renewed(r) \in RowType
BY MonitoringAssumption DEF Renewed, RowType

LEMMA ClearedType ==
  ASSUME NEW r \in RowType
  PROVE  Cleared(r) \in RowType
BY DEF Cleared, RowType

LEMMA MovedType ==
  ASSUME now \in Nat, NEW r \in WorkType, NEW phase \in Phase
  PROVE  Moved(r, phase) \in WorkType
BY DEF Moved, WorkType

LEMMA ClaimClearedType ==
  ASSUME TypeOK, NEW w \in Worker
  PROVE  ClaimCleared(w) \in [Monitor -> RowType]
BY ClearedType DEF TypeOK, ClaimCleared, Owns

-------------------------------------------------------------------------------
(* Type correctness. *)

LEMMA InitTypeOK == Init => TypeOK
<1> SUFFICES ASSUME Init PROVE TypeOK
  OBVIOUS
<1>1. NoIssue \in Issue
  BY DEF NoIssue, Issue, Status
<1>2. work \in [Worker -> WorkType] /\ \A w \in Worker : work[w].phase = "idle"
  BY IdleWorkType DEF Init, IdleWork
<1>3. QED
  BY <1>1, <1>2, EmptyRowType, MonitoringAssumption DEF Init, TypeOK, Time

(* What TypeOK says of the row and work tables beyond their record types. *)
RowsTyped == row \in [Monitor -> RowType] /\ \A m \in rows : row[m].interval \in Interval

WorkTyped ==
  /\ work \in [Worker -> WorkType]
  /\ \A w \in Worker :
       /\ work[w].phase # "idle" => work[w].token \in Token
       /\ work[w].phase \in {"running", "saving"} => work[w].interval \in Interval

(* A worker that goes idle leaves the work table well typed. *)
LEMMA IdleTyped ==
  ASSUME WorkTyped, NEW w \in Worker, work' = [work EXCEPT ![w] = IdleWork]
  PROVE  WorkTyped'
<1>1. IdleWork.phase = "idle"
  BY DEF IdleWork
<1>2. QED
  BY <1>1, IdleWorkType DEF WorkTyped

(* So does one that moves on within its run. *)
LEMMA MovedTyped ==
  ASSUME WorkTyped, now \in Nat, NEW w \in Worker, NEW phase \in Phase,
         work[w].phase \in {"running", "saving"},
         work' = [work EXCEPT ![w] = Moved(@, phase)]
  PROVE  WorkTyped'
<1>1. Moved(work[w], phase) \in WorkType
  BY MovedType DEF WorkTyped
<1>2. /\ Moved(work[w], phase).token = work[w].token
      /\ Moved(work[w], phase).interval = work[w].interval
  BY DEF Moved, WorkTyped, WorkType
<1>3. QED
  BY <1>1, <1>2 DEF WorkTyped

LEMMA ClearedTyped ==
  ASSUME TypeOK, NEW w \in Worker, row' = ClaimCleared(w), rows' = rows
  PROVE  RowsTyped'
<1>1. row' \in [Monitor -> RowType]
  BY ClaimClearedType
<1>2. \A m \in Monitor : row'[m].interval = row[m].interval
  BY DEF ClaimCleared, Cleared, Owns, TypeOK, RowType
<1>3. QED
  BY <1>1, <1>2 DEF RowsTyped, TypeOK

LEMMA NextTypeOK == TypeOK /\ [Next]_vars => TypeOK'
<1> SUFFICES ASSUME TypeOK, [Next]_vars PROVE TypeOK'
  OBVIOUS
<1>0. now \in Nat /\ granted \in Nat /\ RowsTyped /\ WorkTyped
  BY MonitoringAssumption DEF TypeOK, Time, RowsTyped, WorkTyped
<1>1. ASSUME NEW m \in Monitor, NEW s \in Site, NEW i \in Interval, CreateMonitor(m, s, i)
      PROVE  TypeOK'
  <2>1. row' \in [Monitor -> RowType]
    BY <1>0, <1>1, InsertedRowType DEF CreateMonitor, TypeOK
  <2>2. \A o \in rows' : row'[o].interval \in Interval
    BY <1>1 DEF CreateMonitor, InsertedRow, TypeOK
  <2>3. QED
    BY <1>1, <2>1, <2>2 DEF CreateMonitor, TypeOK
<1>2. ASSUME NEW m \in Monitor, NEW i \in Interval, NEW on \in BOOLEAN, UpdateMonitor(m, i, on)
      PROVE  TypeOK'
  <2>1. row' \in [Monitor -> RowType]
    BY <1>0, <1>2, UpdatedRowType DEF UpdateMonitor, TypeOK
  <2>2. \A o \in rows' : row'[o].interval \in Interval
    BY <1>2 DEF UpdateMonitor, UpdatedRow, TypeOK, RowType
  <2>3. revoked' \subseteq Token
    BY <1>2 DEF UpdateMonitor, TypeOK, RowType
  <2>4. QED
    BY <1>2, <2>1, <2>2, <2>3 DEF UpdateMonitor, TypeOK
<1>3. ASSUME NEW m \in Monitor, DeleteMonitor(m) PROVE TypeOK'
  <2>1. NoIssue \in Issue
    BY DEF NoIssue, Issue, Status
  <2>2. QED
    BY <1>3, <2>1, EmptyRowType DEF DeleteMonitor, TypeOK
<1>4. ASSUME NEW m \in Monitor, NEW i \in Identity, NEW s \in Status, SetIssueStatus(m, i, s)
      PROVE  TypeOK'
  BY <1>0, <1>4, IssueAfterStatusType DEF SetIssueStatus, TypeOK
<1>5. ASSUME NEW w \in Worker, NEW m \in rows, Grant(w, m) PROVE TypeOK'
  <2>0. granted + 1 \in Token /\ granted' \in 0..MaxClaims
    BY <1>0, <1>5, MonitoringAssumption DEF Grant, Token
  <2>1. row' \in [Monitor -> RowType]
    BY <1>0, <1>5, <2>0, GrantedType DEF Grant, TypeOK
  <2>2. \A o \in rows : row'[o].interval \in Interval
    BY <1>5 DEF Grant, Granted, TypeOK, RowType
  <2>3. Claim(m) \in WorkType /\ Claim(m).phase = "claimed" /\ Claim(m).token \in Token
    BY <1>0, <2>0, ClaimType DEF TypeOK, Claim
  <2>4. WorkTyped'
    BY <1>0, <1>5, <2>3 DEF Grant, WorkTyped
  <2>5. QED
    BY <1>5, <2>0, <2>1, <2>2, <2>4 DEF Grant, TypeOK, WorkTyped
<1>6. ASSUME NEW w \in Worker, Start(w) PROVE TypeOK'
  <2>1. CASE work[w].monitor \in rows
    <3> DEFINE r == [work[w] EXCEPT !.phase = "running",
                                    !.interval = row[work[w].monitor].interval,
                                    !.due = now + RenewalSeconds]
    <3>1. now + RenewalSeconds \in Nat /\ row[work[w].monitor].interval \in Interval
      BY <1>0, <2>1, MonitoringAssumption DEF TypeOK
    <3>2. r \in WorkType /\ r.token = work[w].token /\ r.interval \in Interval
      BY ZenonT(60), <1>0, <3>1 DEF WorkTyped, WorkType, Phase
    <3>3. work' = [work EXCEPT ![w] = r]
      BY <1>6, <2>1 DEF Start, TypeOK
    <3>4. WorkTyped'
      BY <1>0, <1>6, <3>2, <3>3 DEF WorkTyped, Start
    <3>5. QED
      BY <1>6, <3>4 DEF Start, TypeOK, WorkTyped, store
  <2>2. CASE work[w].monitor \notin rows
    BY <1>0, <1>6, <2>2, IdleTyped DEF Start, TypeOK, WorkTyped, store
  <2>3. QED
    BY <2>1, <2>2
<1>7. ASSUME NEW w \in Worker, Renew(w) PROVE TypeOK'
  <2>1. RowsTyped'
    BY <1>0, <1>7, RenewedType DEF Renew, Renewed, Owns, TypeOK, RowsTyped, RowType
  <2>2. now + RenewalSeconds \in Nat
    BY <1>0, MonitoringAssumption
  <2>3. WorkTyped'
    BY <1>0, <1>7, <2>2 DEF Renew, WorkTyped, WorkType
  <2>4. QED
    BY <1>7, <2>1, <2>3 DEF Renew, TypeOK, RowsTyped, WorkTyped
<1>8. ASSUME NEW w \in Worker, LoseClaim(w) \/ RunFails(w) PROVE TypeOK'
  <2>1. WorkTyped'
    BY <1>0, <1>8, MovedTyped DEF LoseClaim, RunFails, HeartbeatDue, Phase
  <2>2. QED
    BY <1>8, <2>1 DEF LoseClaim, RunFails, TypeOK, WorkTyped, store
<1>9. ASSUME NEW w \in Worker, NEW f \in [Identity -> 0..MaxRepeat], FinishAudit(w, f)
      PROVE  TypeOK'
  <2> DEFINE r == [Moved(work[w], "saving") EXCEPT !.findings = f]
  <2>1. Moved(work[w], "saving") \in WorkType
    BY <1>0, MovedType DEF WorkTyped, Phase
  <2>2. r \in WorkType /\ r.token = work[w].token /\ r.interval = work[w].interval
    BY <1>0, <2>1 DEF WorkType, Moved, WorkTyped
  <2>3. work' = [work EXCEPT ![w] = r] /\ work[w].phase = "running"
    BY <1>9 DEF FinishAudit, TypeOK
  <2>4. WorkTyped'
    BY <1>0, <2>2, <2>3 DEF WorkTyped
  <2>5. QED
    BY <1>9, <2>4 DEF FinishAudit, TypeOK, WorkTyped, store
<1>11. ASSUME NEW w \in Worker, SaveRun(w) PROVE TypeOK'
  <2> DEFINE m == work[w].monitor
             f == work[w].findings
             next == now + work[w].interval
             r == [Cleared(row[m]) EXCEPT !.nextRun = next]
  <2>1. /\ m \in rows /\ m \in Monitor /\ work[w].token \in Token
        /\ work[w].interval \in Interval /\ f \in [Identity -> 0..MaxRepeat]
    <3>1. work[w] \in WorkType /\ work[w].phase = "saving" /\ m \in rows /\ rows \subseteq Monitor
      BY <1>11 DEF SaveRun, Owns, TypeOK
    <3>2. work[w].token \in Token /\ work[w].interval \in Interval
      BY <1>0, <3>1 DEF WorkTyped
    <3>3. f \in [Identity -> 0..MaxRepeat]
      BY <3>1 DEF WorkType
    <3>4. QED
      BY <3>1, <3>2, <3>3
  <2>2. r \in RowType /\ r.interval = row[m].interval
    <3> HIDE DEF r
    <3>1. next \in Nat
      <4>1. now \in Nat /\ work[w].interval \in Nat
        BY <1>0, <2>1, MonitoringAssumption
      <4>2. QED
        BY <4>1
    <3> HIDE DEF next
    <3>2. Cleared(row[m]) \in RowType
      BY <2>1, ClearedType DEF TypeOK
    <3>3. Cleared(row[m]).interval = row[m].interval
      BY <2>1 DEF Cleared, TypeOK, RowType
    <3>4. QED
      BY <3>1, <3>2, <3>3 DEF RowType, r
  <2>3. row' = [row EXCEPT ![m] = r]
    BY <1>11, <2>1 DEF SaveRun, TypeOK
  <2>4. RowsTyped'
    BY <1>0, <1>11, <2>1, <2>2, <2>3 DEF RowsTyped, SaveRun
  <2>5. snapshots' \in [Monitor -> SUBSET SnapshotType]
    <3>1. [token |-> work[w].token, at |-> now] \in SnapshotType
      BY <1>0, <2>1 DEF SnapshotType
    <3>2. QED
      BY <1>11, <3>1 DEF SaveRun, TypeOK
  <2>6. issues' \in [Monitor -> [Identity -> Issue]]
    <3>1. ASSUME NEW i \in Identity
          PROVE  IssueAfterRun(issues[m][i], f[i], now) \in Issue
      BY <1>0, <2>1, IssueAfterRunType, MonitoringAssumption DEF TypeOK
    <3>2. issues' = [issues EXCEPT ![m] =
                       [i \in Identity |-> IssueAfterRun(issues[m][i], f[i], now)]]
      BY <1>11, <2>1 DEF SaveRun, TypeOK
    <3>3. QED
      BY <2>1, <3>1, <3>2 DEF TypeOK
  <2>7. WorkTyped'
    BY <1>0, <1>11, IdleTyped DEF SaveRun
  <2>8. DOMAIN events' = Monitor
    BY <1>11 DEF SaveRun
  <2>9. QED
    BY <1>11, <2>4, <2>5, <2>6, <2>7, <2>8 DEF SaveRun, TypeOK, RowsTyped, WorkTyped
<1>12. ASSUME NEW w \in Worker, Release(w) PROVE TypeOK'
  BY <1>0, <1>12, ClearedTyped, IdleTyped DEF Release, TypeOK, RowsTyped, WorkTyped
<1>13. ASSUME NEW w \in Worker, NEW released \in BOOLEAN, Cancel(w, released) PROVE TypeOK'
  <2>1. RowsTyped'
    BY <1>0, <1>13, ClearedTyped DEF Cancel, RowsTyped
  <2>2. WorkTyped'
    BY ZenonT(60), <1>0, <1>13, IdleTyped DEF Cancel, WorkTyped, WorkType, Phase
  <2>3. QED
    BY <1>13, <2>1, <2>2 DEF Cancel, TypeOK, RowsTyped, WorkTyped
<1>14. ASSUME NEW w \in Worker, OrphanEnds(w) \/ Crash(w) PROVE TypeOK'
  BY <1>0, <1>14, IdleTyped DEF OrphanEnds, Crash, store, TypeOK, WorkTyped
<1>15. CASE Tick
  BY <1>0, <1>15, MonitoringAssumption DEF Tick, store, TypeOK, Time
<1>16. CASE UNCHANGED vars
  BY <1>16 DEF vars, store, TypeOK
<1>17. QED
  BY <1>1, <1>2, <1>3, <1>4, <1>5, <1>6, <1>7, <1>8, <1>9, <1>11, <1>12, <1>13, <1>14,
     <1>15, <1>16
  DEF Next, OperatorStep, WorkerStep, ClaimMonitor, ClaimDueMonitor, Claimable, Due, TypeOK

(* Every reachable state is well typed: in particular a claim token, a     *)
(* snapshot's token and a revoked token are always ones that were granted  *)
(* within the bound, and a run that saves knows its interval.              *)
THEOREM TypeCorrect == Spec => []TypeOK
<1>1. QED
  BY InitTypeOK, NextTypeOK, PTL DEF Spec

-------------------------------------------------------------------------------
(* Publication order and revocation.                                       *)
(*                                                                         *)
(* The inductive invariant: a token that sits in the table was granted,    *)
(* sits in one row only, is newer than every snapshot of that row, has     *)
(* published nothing yet and has not been revoked.                         *)
Live(m) == row[m].claimToken # Nil

ClaimInv ==
  /\ \A m \in Monitor : Live(m) =>
       /\ row[m].claimToken \in 1..granted
       /\ row[m].claimToken \notin revoked
       /\ \A s \in snapshots[m] : s.token < row[m].claimToken
  /\ \A m, o \in Monitor :
       /\ Live(m) /\ row[m].claimToken = row[o].claimToken => m = o
       /\ Live(m) => \A s \in snapshots[o] : s.token # row[m].claimToken
  /\ \A m \in Monitor : \A s \in snapshots[m] : s.token \in 1..granted /\ s.at <= now
  /\ revoked \subseteq 1..granted

LEMMA InitClaimInv == Init => ClaimInv
BY DEF Init, ClaimInv, Live, EmptyRow

(* A step that at most frees claims and drops snapshots. *)
LEMMA ClaimInvFrame ==
  ASSUME TypeOK, ClaimInv,
         now' \in Nat, now <= now', granted' = granted, revoked' = revoked,
         \A m \in Monitor : row'[m].claimToken \in {row[m].claimToken, Nil},
         \A m \in Monitor : snapshots'[m] \subseteq snapshots[m]
  PROVE  ClaimInv'
<1>0. now \in Nat /\ \A m \in Monitor : \A s \in snapshots[m] : s.at \in Nat
  BY MonitoringAssumption DEF TypeOK, Time, SnapshotType
<1>1. ASSUME NEW m \in Monitor, Live(m)'
      PROVE  Live(m) /\ row'[m].claimToken = row[m].claimToken
  BY <1>1 DEF Live
<1>2. (\A m \in Monitor : Live(m) =>
        /\ row[m].claimToken \in 1..granted
        /\ row[m].claimToken \notin revoked
        /\ \A s \in snapshots[m] : s.token < row[m].claimToken)'
  BY <1>1 DEF ClaimInv
<1>3. (\A m, o \in Monitor :
        /\ Live(m) /\ row[m].claimToken = row[o].claimToken => m = o
        /\ Live(m) => \A s \in snapshots[o] : s.token # row[m].claimToken)'
  <2> SUFFICES ASSUME NEW m \in Monitor, NEW o \in Monitor, Live(m)'
               PROVE  (/\ row[m].claimToken = row[o].claimToken => m = o
                       /\ \A s \in snapshots[o] : s.token # row[m].claimToken)'
    OBVIOUS
  <2>1. Live(m) /\ row'[m].claimToken = row[m].claimToken
    BY <1>1
  <2>2. row'[o].claimToken = row'[m].claimToken => row'[o].claimToken = row[o].claimToken
    BY <2>1 DEF Live
  <2>3. QED
    BY <2>1, <2>2 DEF ClaimInv
<1>4. (\A m \in Monitor : \A s \in snapshots[m] : s.token \in 1..granted /\ s.at <= now)'
  BY <1>0 DEF ClaimInv
<1>5. (revoked \subseteq 1..granted)'
  BY DEF ClaimInv
<1>6. QED
  BY <1>2, <1>3, <1>4, <1>5 DEF ClaimInv

LEMMA UpdateClaimInv ==
  ASSUME TypeOK, ClaimInv, NEW m \in Monitor, NEW i \in Interval, NEW on \in BOOLEAN,
         UpdateMonitor(m, i, on)
  PROVE  ClaimInv'
<1>0. now \in Nat /\ now' = now /\ granted' = granted /\ snapshots' = snapshots
  BY MonitoringAssumption DEF UpdateMonitor, TypeOK, Time
<1>1. \A o \in Monitor : o # m => row'[o] = row[o]
  BY DEF UpdateMonitor, TypeOK
<1>2. row'[m].claimToken = IF on THEN row[m].claimToken ELSE Nil
  BY DEF UpdateMonitor, UpdatedRow, TypeOK, RowType
<1>3. CASE on
  <2>1. \A o \in Monitor : row'[o].claimToken \in {row[o].claimToken, Nil}
    BY <1>1, <1>2, <1>3
  <2>2. revoked' = revoked
    BY <1>3 DEF UpdateMonitor
  <2>3. QED
    BY <1>0, <2>1, <2>2, ClaimInvFrame
<1>4. CASE ~on
  <2>1. revoked' = revoked \cup ({row[m].claimToken} \ {Nil}) /\ ~Live(m)'
    BY <1>2, <1>4 DEF UpdateMonitor, Live
  <2>2. ASSUME NEW o \in Monitor, Live(o)'
        PROVE  o # m /\ Live(o) /\ row'[o] = row[o] /\ row[o].claimToken \notin revoked'
    BY <1>1, <2>1, <2>2 DEF Live, ClaimInv
  <2>3. revoked' \subseteq 1..granted
    BY <2>1 DEF ClaimInv, Live
  <2>4. ASSUME NEW o \in Monitor, NEW q \in Monitor, Live(o)',
               row'[o].claimToken = row'[q].claimToken
        PROVE  o = q
    <3>1. Live(q)'
      BY <2>4 DEF Live
    <3>2. row'[o] = row[o] /\ row'[q] = row[q] /\ Live(o)
      BY <2>2, <2>4, <3>1
    <3>3. QED
      BY <2>4, <3>2 DEF ClaimInv
  <2>5. QED
    BY <1>0, <2>2, <2>3, <2>4 DEF ClaimInv
<1>5. QED
  BY <1>3, <1>4

LEMMA GrantClaimInv ==
  ASSUME TypeOK, ClaimInv, NEW w \in Worker, NEW m \in Monitor, Grant(w, m)
  PROVE  ClaimInv'
<1>0. /\ now \in Nat /\ now' = now /\ snapshots' = snapshots /\ revoked' = revoked
      /\ granted \in Nat /\ granted' = granted + 1
  BY MonitoringAssumption DEF Grant, TypeOK, Time
<1>1. \A o \in Monitor : o # m => row'[o] = row[o]
  BY DEF Grant, TypeOK
<1>2. row'[m].claimToken = granted + 1
  BY DEF Grant, Granted, TypeOK, RowType
<1>3. \A o \in Monitor : \A s \in snapshots[o] : s.token \in 1..granted /\ s.at <= now
  BY DEF ClaimInv
<1>4. revoked \subseteq 1..granted /\ granted + 1 \notin revoked
  BY <1>0 DEF ClaimInv
<1>5. \A o \in Monitor : o # m /\ Live(o)' => Live(o) /\ row[o].claimToken \in 1..granted
  BY <1>1 DEF ClaimInv, Live
<1>6. ASSUME NEW o \in Monitor, Live(o)'
      PROVE  /\ row'[o].claimToken \in 1..granted'
             /\ row'[o].claimToken \notin revoked'
             /\ \A s \in snapshots'[o] : s.token < row'[o].claimToken
  BY <1>0, <1>1, <1>2, <1>3, <1>4, <1>5, <1>6 DEF ClaimInv
<1>7. ASSUME NEW o \in Monitor, NEW q \in Monitor, Live(o)'
      PROVE  /\ row'[o].claimToken = row'[q].claimToken => o = q
             /\ \A s \in snapshots'[q] : s.token # row'[o].claimToken
  <2>1. CASE o = m
    <3>1. \A s \in snapshots[q] : s.token # granted + 1
      BY <1>0, <1>3
    <3>2. ASSUME q # m, row'[q].claimToken = granted + 1 PROVE FALSE
      <4>1. Live(q)'
        BY <1>2, <1>7, <2>1, <3>2 DEF Live
      <4>2. QED
        BY <1>0, <1>1, <1>5, <3>2, <4>1
    <3>3. QED
      BY <1>0, <1>2, <2>1, <3>1, <3>2
  <2>2. CASE o # m
    <3>1. Live(o) /\ row[o].claimToken \in 1..granted /\ row'[o] = row[o]
      BY <1>1, <1>5, <1>7, <2>2
    <3>2. row'[m].claimToken # row'[o].claimToken
      BY <1>0, <1>2, <3>1
    <3>3. QED
      BY <1>0, <1>1, <3>1, <3>2 DEF ClaimInv
  <2>3. QED
    BY <2>1, <2>2
<1>8. QED
  BY <1>0, <1>3, <1>4, <1>6, <1>7 DEF ClaimInv

LEMMA SaveClaimInv ==
  ASSUME TypeOK, ClaimInv, NEW w \in Worker, SaveRun(w)
  PROVE  ClaimInv'
<1> DEFINE m == work[w].monitor
           t == work[w].token
           Shot == [token |-> t, at |-> now]
<1>0. /\ now \in Nat /\ now' = now /\ granted' = granted /\ revoked' = revoked
      /\ m \in rows /\ m \in Monitor /\ row[m].claimToken = t /\ t \in Token /\ t # Nil
  <2>1. work[w].phase = "saving" /\ m \in rows /\ row[m].claimToken = t /\ t \in Token
    BY DEF SaveRun, Owns, TypeOK
  <2>2. t # Nil
    BY <2>1, MonitoringAssumption DEF Token, Nil
  <2>3. QED
    BY <2>1, <2>2, MonitoringAssumption DEF SaveRun, TypeOK, Time
<1>1. \A o \in Monitor : o # m => row'[o] = row[o]
  BY DEF SaveRun, TypeOK
<1>2. row'[m].claimToken = Nil
  BY <1>0 DEF SaveRun, Cleared, TypeOK, RowType
<1>3. Live(m) /\ t \in 1..granted
  BY <1>0 DEF ClaimInv, Live
<1>4. \A o \in Monitor : \A s \in snapshots'[o] : s \in snapshots[o] \/ (o = m /\ s = Shot)
  BY DEF SaveRun
<1>5. \A o \in Monitor : Live(o)' => o # m /\ Live(o) /\ row'[o] = row[o]
  BY <1>1, <1>2 DEF Live
<1>6. \A o \in Monitor : Live(o)' => row[o].claimToken # t
  BY <1>0, <1>3, <1>5 DEF ClaimInv
<1>7. \A o \in Monitor : \A s \in snapshots'[o] : s.token \in 1..granted' /\ s.at <= now'
  BY <1>0, <1>3, <1>4 DEF ClaimInv
<1>8. \A o, q \in Monitor :
        Live(o)' => \A s \in snapshots'[q] : s.token # row'[o].claimToken
  BY <1>4, <1>5, <1>6 DEF ClaimInv
<1>9. \A o, q \in Monitor :
        Live(o)' /\ row'[o].claimToken = row'[q].claimToken => o = q
  <2> SUFFICES ASSUME NEW o \in Monitor, NEW q \in Monitor, Live(o)',
                      row'[o].claimToken = row'[q].claimToken
               PROVE  o = q
    OBVIOUS
  <2>1. Live(q)'
    BY DEF Live
  <2>2. QED
    BY <1>5, <2>1 DEF ClaimInv
<1>10. \A o \in Monitor : Live(o)' =>
         /\ row'[o].claimToken \in 1..granted'
         /\ row'[o].claimToken \notin revoked'
         /\ \A s \in snapshots'[o] : s.token < row'[o].claimToken
  BY <1>0, <1>4, <1>5 DEF ClaimInv
<1>11. QED
  BY <1>0, <1>7, <1>8, <1>9, <1>10 DEF ClaimInv

(* What the remaining actions do to claims. *)
LEMMA ClearedToken ==
  ASSUME TypeOK, NEW w \in Worker, NEW m \in Monitor
  PROVE  ClaimCleared(w)[m].claimToken \in {row[m].claimToken, Nil}
BY DEF ClaimCleared, Cleared, Owns, TypeOK, RowType

LEMMA NextClaimInv == TypeOK /\ ClaimInv /\ [Next]_vars => ClaimInv'
<1> SUFFICES ASSUME TypeOK, ClaimInv, [Next]_vars PROVE ClaimInv'
  OBVIOUS
<1>0. now \in Nat /\ now <= now
  BY MonitoringAssumption DEF TypeOK, Time
<1>1. ASSUME NEW m \in Monitor, NEW s \in Site, NEW i \in Interval, CreateMonitor(m, s, i)
      PROVE  ClaimInv'
  <2>1. \A o \in Monitor : row'[o].claimToken \in {row[o].claimToken, Nil}
    BY <1>1 DEF CreateMonitor, InsertedRow, TypeOK
  <2>2. QED
    BY <1>0, <1>1, <2>1, ClaimInvFrame DEF CreateMonitor
<1>2. ASSUME NEW m \in Monitor, DeleteMonitor(m) PROVE ClaimInv'
  <2>1. \A o \in Monitor : row'[o].claimToken \in {row[o].claimToken, Nil}
    BY <1>2 DEF DeleteMonitor, EmptyRow, TypeOK
  <2>2. \A o \in Monitor : snapshots'[o] \subseteq snapshots[o]
    BY <1>2 DEF DeleteMonitor, TypeOK
  <2>3. QED
    BY <1>0, <1>2, <2>1, <2>2, ClaimInvFrame DEF DeleteMonitor
<1>3. ASSUME NEW m \in Monitor, NEW i \in Identity, NEW s \in Status, SetIssueStatus(m, i, s)
      PROVE  ClaimInv'
  BY <1>0, <1>3, ClaimInvFrame DEF SetIssueStatus
<1>4. ASSUME NEW w \in Worker, Renew(w) PROVE ClaimInv'
  <2>1. \A o \in Monitor : row'[o].claimToken = row[o].claimToken
    BY <1>4 DEF Renew, Renewed, Owns, TypeOK, RowType
  <2>2. QED
    BY <1>0, <1>4, <2>1, ClaimInvFrame DEF Renew
<1>5. ASSUME NEW w \in Worker,
             NEW f \in [Identity -> 0..MaxRepeat],
             \/ Start(w) \/ LoseClaim(w) \/ RunFails(w) \/ FinishAudit(w, f)
             \/ OrphanEnds(w) \/ Crash(w)
      PROVE  ClaimInv'
  BY <1>0, <1>5, ClaimInvFrame
  DEF Start, LoseClaim, RunFails, FinishAudit, OrphanEnds, Crash, store
<1>6. ASSUME NEW w \in Worker, Release(w) PROVE ClaimInv'
  BY <1>0, <1>6, ClearedToken, ClaimInvFrame DEF Release
<1>7. ASSUME NEW w \in Worker, NEW released \in BOOLEAN, Cancel(w, released) PROVE ClaimInv'
  BY <1>0, <1>7, ClearedToken, ClaimInvFrame DEF Cancel
<1>8. CASE Tick
  BY <1>0, <1>8, ClaimInvFrame DEF Tick, store
<1>9. CASE UNCHANGED vars
  BY <1>0, <1>9, ClaimInvFrame DEF vars, store
<1>10. ASSUME NEW w \in Worker, NEW m \in Monitor,
              ClaimMonitor(w, m) \/ ClaimDueMonitor(w, m)
       PROVE  ClaimInv'
  BY <1>10, GrantClaimInv DEF ClaimMonitor, ClaimDueMonitor
<1>11. NoFindings \in [Identity -> 0..MaxRepeat]
  BY MonitoringAssumption DEF NoFindings
<1>12. CASE OperatorStep
  BY <1>1, <1>2, <1>3, <1>12, UpdateClaimInv DEF OperatorStep
<1>13. ASSUME NEW w \in Worker, WorkerStep(w) PROVE ClaimInv'
  BY <1>4, <1>5, <1>6, <1>7, <1>10, <1>11, <1>13, SaveClaimInv DEF WorkerStep
<1>14. QED
  BY <1>8, <1>9, <1>12, <1>13 DEF Next


(* Both publication properties, given the claims' invariant. *)
LEMMA NextPublished ==
  ASSUME TypeOK, ClaimInv, SnapshotsInClaimOrder, RevokedNeverSaves, [Next]_vars
  PROVE  SnapshotsInClaimOrder' /\ RevokedNeverSaves'
<1>0. now \in Nat
  BY MonitoringAssumption DEF TypeOK, Time
<1>1. CASE /\ \A m \in Monitor : snapshots'[m] \subseteq snapshots[m]
           /\ revoked' = revoked
  BY <1>1 DEF SnapshotsInClaimOrder, RevokedNeverSaves
<1>2. ASSUME NEW m \in Monitor, NEW i \in Interval, NEW on \in BOOLEAN, UpdateMonitor(m, i, on)
      PROVE  SnapshotsInClaimOrder' /\ RevokedNeverSaves'
  <2>1. snapshots' = snapshots /\ revoked' \subseteq revoked \cup ({row[m].claimToken} \ {Nil})
    BY <1>2 DEF UpdateMonitor
  <2>2. Live(m) => \A o \in Monitor : \A s \in snapshots[o] : s.token # row[m].claimToken
    BY DEF ClaimInv
  <2>3. QED
    BY <2>1, <2>2 DEF SnapshotsInClaimOrder, RevokedNeverSaves, Live
<1>3. ASSUME NEW w \in Worker, SaveRun(w)
      PROVE  SnapshotsInClaimOrder' /\ RevokedNeverSaves'
  <2> DEFINE m == work[w].monitor
             Shot == [token |-> work[w].token, at |-> now]
  <2>1. m \in Monitor /\ row[m].claimToken = work[w].token /\ work[w].token \in Token
    BY <1>3 DEF SaveRun, Owns, TypeOK
  <2>2. Live(m) /\ revoked' = revoked
    BY <1>3, <2>1, MonitoringAssumption DEF Live, Token, Nil, SaveRun
  <2>3. /\ Shot.token \notin revoked
        /\ \A s \in snapshots[m] : s.token < Shot.token /\ s.at <= Shot.at
    BY <2>1, <2>2 DEF ClaimInv
  <2>4. \A o \in Monitor : \A s \in snapshots'[o] : s \in snapshots[o] \/ (o = m /\ s = Shot)
    BY <1>3 DEF SaveRun
  <2>5. \A s \in snapshots[m] : s.token \in Nat /\ s.at \in Nat
    BY <2>1, MonitoringAssumption DEF TypeOK, SnapshotType, Token
  <2>6. Shot.token \in Nat /\ Shot.at \in Nat
    BY <1>0, <2>1, MonitoringAssumption DEF Token
  <2>7. RevokedNeverSaves'
    BY <2>2, <2>3, <2>4 DEF RevokedNeverSaves
  <2>8. SnapshotsInClaimOrder'
    <3> SUFFICES ASSUME NEW o \in Monitor, NEW s \in snapshots'[o], NEW t \in snapshots'[o]
                 PROVE  /\ s.token <= t.token => s.at <= t.at
                        /\ s.token = t.token => s = t
      BY DEF SnapshotsInClaimOrder
    <3>1. CASE s \in snapshots[o] /\ t \in snapshots[o]
      BY <3>1 DEF SnapshotsInClaimOrder
    <3>2. CASE s \notin snapshots[o] \/ t \notin snapshots[o]
      BY <2>3, <2>4, <2>5, <2>6, <3>2
    <3>3. QED
      BY <3>1, <3>2
  <2>9. QED
    BY <2>7, <2>8
<1>4. ASSUME NEW m \in Monitor, DeleteMonitor(m)
      PROVE  SnapshotsInClaimOrder' /\ RevokedNeverSaves'
  BY <1>1, <1>4 DEF DeleteMonitor, TypeOK
<1>5. QED
  BY <1>1, <1>2, <1>3, <1>4
  DEF Next, OperatorStep, WorkerStep, CreateMonitor, SetIssueStatus, ClaimMonitor,
      ClaimDueMonitor, Grant, Start, Renew, LoseClaim, RunFails, FinishAudit, Release,
      Cancel, OrphanEnds, Crash, Tick, vars, store

LEMMA PublicationInv ==
  Spec => [](TypeOK /\ ClaimInv /\ SnapshotsInClaimOrder /\ RevokedNeverSaves)
<1>1. Init => SnapshotsInClaimOrder /\ RevokedNeverSaves
  BY DEF Init, SnapshotsInClaimOrder, RevokedNeverSaves
<1>2. QED
  BY <1>1, InitTypeOK, NextTypeOK, InitClaimInv, NextClaimInv, NextPublished, PTL DEF Spec

(* Runs of one monitor publish in the order of their claims and at most    *)
(* once each, for any number of workers and monitors and however late a    *)
(* worker wakes up.                                                        *)
THEOREM PublicationOrder == Spec => []SnapshotsInClaimOrder
<1>1. QED
  BY PublicationInv, PTL

(* Disabling a monitor is final for the run in progress, under the same    *)
(* conditions.                                                             *)
THEOREM RevocationIsFinal == Spec => []RevokedNeverSaves
<1>1. QED
  BY PublicationInv, PTL

-------------------------------------------------------------------------------
(* The lease of a punctual run.                                            *)

(* Three late steps and one renewal period fit into a claim.  The code's   *)
(* 900 and 300 seconds leave every step 200 seconds.                       *)
Punctual == 3 * MaxLag + RenewalSeconds <= ClaimSeconds

(* How far the expiry of a claim lies beyond the due time of the step that *)
(* its run makes next, at least.                                           *)
Margin(phase) ==
  CASE phase = "claimed" -> ClaimSeconds
    [] phase = "running" -> ClaimSeconds - MaxLag - RenewalSeconds
    [] OTHER             -> ClaimSeconds - 2 * MaxLag - RenewalSeconds

Leased(w) ==
  LET r == row[work[w].monitor] IN
  /\ r.claimToken = work[w].token
  /\ r.claimedUntil # Nil
  /\ work[w].due + Margin(work[w].phase) <= r.claimedUntil

(* Every run has a token of its own and is not behind its schedule. *)
RunInv ==
  /\ \A w \in Worker : work[w].phase # "idle" =>
       /\ work[w].monitor \in created
       /\ work[w].token \in 1..granted
       /\ work[w].due \in Nat
  /\ \A v, w \in Worker :
       work[v].phase # "idle" /\ work[w].phase # "idle" /\ work[v].token = work[w].token
         => v = w
  /\ \A w \in Prompt : work[w].phase \in Active => now <= work[w].due + MaxLag

LeaseInv == \A w \in Prompt : Undisturbed(w) => Leased(w)

LEMMA InitLease == Init => RunInv /\ LeaseInv
BY DEF Init, RunInv, LeaseInv, Undisturbed, IdleWork, Active, Prompt

(* A worker takes its next step, or gives its run up. *)
LEMMA RunInvFrame ==
  ASSUME TypeOK, RunInv, NEW w \in Worker, NEW r,
         now' = now, granted' = granted, created' = created,
         work' = [work EXCEPT ![w] = r],
         \/ r.phase = "idle"
         \/ /\ work[w].phase # "idle"
            /\ r.monitor = work[w].monitor
            /\ r.token = work[w].token
            /\ r.due \in Nat
            /\ r.phase \in Active => now <= r.due + MaxLag
  PROVE  RunInv'
<1>1. work'[w] = r /\ \A v \in Worker : v # w => work'[v] = work[v]
  BY DEF TypeOK
<1>2. "idle" \notin Active
  BY DEF Active
<1>3. QED
  BY <1>1, <1>2 DEF RunInv

LEMMA NextRunInv == TypeOK /\ RunInv /\ [Next]_vars => RunInv'
<1> SUFFICES ASSUME TypeOK, RunInv, [Next]_vars PROVE RunInv'
  OBVIOUS
<1>0. now \in Nat /\ granted \in Nat /\ MaxLag \in Nat /\ now <= now + MaxLag
  BY MonitoringAssumption DEF TypeOK, Time
<1>1. CASE UNCHANGED <<now, granted, work>> /\ created \subseteq created'
  BY <1>1 DEF RunInv
<1>2. ASSUME NEW w \in Worker, NEW m \in Monitor, m \in rows, Grant(w, m) PROVE RunInv'
  <2>1. work'[w] = Claim(m) /\ \A v \in Worker : v # w => work'[v] = work[v]
    BY <1>2 DEF Grant, TypeOK
  <2>2. Claim(m).token = granted + 1 /\ Claim(m).monitor \in created /\ Claim(m).due = now
    BY <1>2 DEF Claim, TypeOK
  <2>3. now' = now /\ granted' = granted + 1 /\ created' = created
    BY <1>2 DEF Grant
  <2>4. \A v \in Worker : v # w /\ work[v].phase # "idle" => work[v].token # granted + 1
    BY <1>0 DEF RunInv
  <2>5. (\A v \in Worker : work[v].phase # "idle" =>
          work[v].monitor \in created /\ work[v].token \in 1..granted /\ work[v].due \in Nat)'
    BY <1>0, <2>1, <2>2, <2>3 DEF RunInv
  <2>6. (\A u, v \in Worker :
          work[v].phase # "idle" /\ work[u].phase # "idle" /\ work[v].token = work[u].token
            => v = u)'
    BY <2>1, <2>2, <2>4 DEF RunInv
  <2>7. (\A v \in Prompt : work[v].phase \in Active => now <= work[v].due + MaxLag)'
    BY <1>0, <2>1, <2>2, <2>3 DEF RunInv, Prompt
  <2>8. QED
    BY <2>5, <2>6, <2>7 DEF RunInv
<1>3. ASSUME NEW w \in Worker, Start(w) PROVE RunInv'
  <2>1. CASE work[w].monitor \in rows
    <3> DEFINE r == [work[w] EXCEPT !.phase = "running",
                                    !.interval = row[work[w].monitor].interval,
                                    !.due = now + RenewalSeconds]
    <3>1. now + RenewalSeconds \in Nat /\ now <= now + RenewalSeconds + MaxLag
      BY <1>0, MonitoringAssumption
    <3>2. work[w].phase # "idle" /\ work' = [work EXCEPT ![w] = r]
      BY <1>3, <2>1 DEF Start, TypeOK
    <3>3. /\ r.monitor = work[w].monitor /\ r.token = work[w].token
          /\ r.due \in Nat /\ now <= r.due + MaxLag
      BY <3>1 DEF TypeOK, WorkType
    <3>4. QED
      BY <1>3, <3>2, <3>3, RunInvFrame DEF Start
  <2>2. CASE work[w].monitor \notin rows
    BY <1>3, <2>2, RunInvFrame DEF Start, IdleWork, TypeOK
  <2>3. QED
    BY <2>1, <2>2
<1>4. ASSUME NEW w \in Worker, Renew(w) PROVE RunInv'
  <2> DEFINE r == [work[w] EXCEPT !.due = now + RenewalSeconds]
  <2>1. now + RenewalSeconds \in Nat /\ now <= now + RenewalSeconds + MaxLag
    BY <1>0, MonitoringAssumption
  <2>2. work[w].phase # "idle" /\ work' = [work EXCEPT ![w] = r]
    BY <1>4 DEF Renew, HeartbeatDue, TypeOK
  <2>3. /\ r.monitor = work[w].monitor /\ r.token = work[w].token
        /\ r.due \in Nat /\ now <= r.due + MaxLag
    BY <2>1 DEF TypeOK, WorkType
  <2>4. QED
    BY <1>4, <2>2, <2>3, RunInvFrame DEF Renew
<1>5. ASSUME NEW w \in Worker, LoseClaim(w) \/ RunFails(w) PROVE RunInv'
  <2> DEFINE r == Moved(work[w], "releasing")
  <2>1. work[w].phase # "idle" /\ work' = [work EXCEPT ![w] = r]
    BY <1>5 DEF LoseClaim, RunFails, HeartbeatDue, TypeOK
  <2>2. /\ r.monitor = work[w].monitor /\ r.token = work[w].token
        /\ r.due \in Nat /\ now <= r.due + MaxLag
    BY <1>0 DEF Moved, TypeOK, WorkType
  <2>3. QED
    BY <1>5, <2>1, <2>2, RunInvFrame DEF LoseClaim, RunFails, store
<1>6. ASSUME NEW w \in Worker, NEW f \in [Identity -> 0..MaxRepeat], FinishAudit(w, f)
      PROVE  RunInv'
  <2> DEFINE r == [Moved(work[w], "saving") EXCEPT !.findings = f]
  <2>1. work[w].phase # "idle" /\ work' = [work EXCEPT ![w] = r]
    BY <1>6 DEF FinishAudit, TypeOK
  <2>2. /\ r.monitor = work[w].monitor /\ r.token = work[w].token
        /\ r.due \in Nat /\ now <= r.due + MaxLag
    BY <1>0 DEF Moved, TypeOK, WorkType
  <2>3. QED
    BY <1>6, <2>1, <2>2, RunInvFrame DEF FinishAudit, store
<1>7. ASSUME NEW w \in Worker, SaveRun(w) \/ Release(w) \/ OrphanEnds(w) \/ Crash(w)
      PROVE  RunInv'
  <2>1. work' = [work EXCEPT ![w] = IdleWork] /\ IdleWork.phase = "idle"
    BY <1>7 DEF SaveRun, Release, OrphanEnds, Crash, IdleWork
  <2>2. now' = now /\ granted' = granted /\ created' = created
    BY <1>7 DEF SaveRun, Release, OrphanEnds, Crash
  <2>3. QED
    BY <2>1, <2>2, RunInvFrame
<1>8. ASSUME NEW w \in Worker, NEW released \in BOOLEAN, Cancel(w, released) PROVE RunInv'
  <2>1. CASE work[w].phase = "running"
    <3> DEFINE r == [work[w] EXCEPT !.phase = "orphan"]
    <3>1. work' = [work EXCEPT ![w] = r]
      BY <1>8, <2>1 DEF Cancel, TypeOK
    <3>2. /\ r.monitor = work[w].monitor /\ r.token = work[w].token
          /\ r.due \in Nat /\ r.phase \notin Active
      BY <2>1 DEF Active, RunInv, TypeOK, WorkType
    <3>3. QED
      BY <1>8, <2>1, <3>1, <3>2, RunInvFrame DEF Cancel
  <2>2. CASE work[w].phase # "running"
    BY <1>8, <2>2, RunInvFrame DEF Cancel, IdleWork, TypeOK
  <2>3. QED
    BY <2>1, <2>2
<1>9. CASE Tick
  <2>1. \A w \in Prompt : work[w].phase \in Active => now' <= work[w].due + MaxLag
    BY <1>9 DEF Tick
  <2>2. QED
    BY <1>9, <2>1 DEF Tick, RunInv
<1>10. CASE OperatorStep
  BY <1>1, <1>10
  DEF OperatorStep, CreateMonitor, UpdateMonitor, DeleteMonitor, SetIssueStatus
<1>11. CASE UNCHANGED vars
  BY <1>1, <1>11 DEF vars
<1>12. QED
  BY <1>2, <1>3, <1>4, <1>5, <1>6, <1>7, <1>8, <1>9, <1>10, <1>11
  DEF Next, WorkerStep, ClaimMonitor, ClaimDueMonitor, Claimable, Due

(* A run that keeps its claim and its place keeps its lease. *)
LEMMA StillLeased ==
  ASSUME LeaseInv, NEW w \in Prompt, Undisturbed(w), work'[w] = work[w],
         row'[work[w].monitor].claimToken = row[work[w].monitor].claimToken,
         row'[work[w].monitor].claimedUntil = row[work[w].monitor].claimedUntil
  PROVE  Leased(w)'
BY DEF LeaseInv, Leased, Margin

(* Two runs in progress never share a row. *)
LEMMA RowIsMine ==
  ASSUME RunInv, LeaseInv, NEW v \in Prompt, NEW w \in Worker, v # w,
         Undisturbed(v), work[w].phase # "idle", Owns(w)
  PROVE  work[v].monitor # work[w].monitor
BY DEF RunInv, LeaseInv, Undisturbed, Leased, Owns, Prompt

(* Giving a claim back touches the row of the worker that owns it only. *)
LEMMA ClearedRow ==
  ASSUME TypeOK, NEW w \in Worker, NEW o \in Monitor
  PROVE  ClaimCleared(w)[o] = row[o] \/ (Owns(w) /\ o = work[w].monitor)
BY DEF ClaimCleared, TypeOK

(* The claim of a punctual run has not expired. *)
LEMMA NotFree ==
  ASSUME Punctual, TypeOK, RunInv, LeaseInv, NEW w \in Prompt, Undisturbed(w)
  PROVE  ~Free(row[work[w].monitor])
<1> DEFINE r == row[work[w].monitor]
<1>1. /\ work[w].phase \in {"claimed", "running", "saving"}
      /\ work[w].due \in Nat /\ now <= work[w].due + MaxLag
  BY DEF Undisturbed, RunInv, Active, Prompt
<1>2. r.claimedUntil \in Nat /\ r.claimedUntil # Nil
      /\ work[w].due + Margin(work[w].phase) <= r.claimedUntil
  <2>1. r \in RowType
    BY DEF Undisturbed, TypeOK
  <2>2. QED
    BY <2>1 DEF LeaseInv, Leased, RowType
<1>3. MaxLag <= Margin(work[w].phase) /\ Margin(work[w].phase) \in Int
  BY <1>1, MonitoringAssumption DEF Margin, Punctual
<1>4. now \in Nat /\ MaxLag \in Nat
  BY MonitoringAssumption DEF TypeOK, Time
<1> HIDE DEF r
<1>5. now <= r.claimedUntil
  BY <1>1, <1>2, <1>3, <1>4
<1>6. QED
  BY <1>2, <1>4, <1>5 DEF Free, r

LEMMA NextLeaseInv ==
  ASSUME Punctual, TypeOK, RunInv, LeaseInv, [Next]_vars
  PROVE  LeaseInv'
<1> USE DEF Prompt
<1>0. /\ now \in Nat /\ MaxLag \in Nat /\ ClaimSeconds \in Nat /\ RenewalSeconds \in Nat
      /\ \A w \in Worker : work[w].phase # "idle" => work[w].due \in Nat
  BY MonitoringAssumption DEF TypeOK, Time, RunInv
<1>1. ASSUME UNCHANGED <<row, work>>, rows' \cap created \subseteq rows, revoked' = revoked
      PROVE  LeaseInv'
  <2>1. \A w \in Worker : Undisturbed(w)' => Undisturbed(w)
    BY <1>1 DEF Undisturbed, RunInv
  <2>2. QED
    BY <1>1, <2>1, StillLeased DEF LeaseInv
<1>2. ASSUME NEW m \in Monitor, NEW s \in Site, NEW i \in Interval, CreateMonitor(m, s, i)
      PROVE  LeaseInv'
  <2>1. \A w \in Worker : Undisturbed(w)' => Undisturbed(w) /\ work[w].monitor # m
    BY <1>2 DEF CreateMonitor, Undisturbed, RunInv
  <2>2. \A o \in Monitor : o # m => row'[o] = row[o]
    BY <1>2 DEF CreateMonitor, TypeOK
  <2>3. \A w \in Worker : Undisturbed(w) => work[w].monitor \in Monitor
    BY DEF Undisturbed, TypeOK
  <2>4. QED
    BY <1>2, <2>1, <2>2, <2>3, StillLeased DEF LeaseInv, CreateMonitor
<1>3. ASSUME NEW m \in Monitor, NEW i \in Interval, NEW on \in BOOLEAN, UpdateMonitor(m, i, on)
      PROVE  LeaseInv'
  <2> SUFFICES ASSUME NEW w \in Prompt, Undisturbed(w)' PROVE Leased(w)'
    BY DEF LeaseInv
  <2>1. Undisturbed(w) /\ work' = work /\ work[w].token \notin revoked'
    BY <1>3 DEF UpdateMonitor, Undisturbed
  <2>2. work[w].monitor \in Monitor /\ Leased(w)
    BY <2>1 DEF Undisturbed, TypeOK, LeaseInv
  <2>3. CASE work[w].monitor # m
    BY <1>3, <2>1, <2>2, <2>3, StillLeased DEF UpdateMonitor, TypeOK
  <2>4. CASE work[w].monitor = m /\ on
    <3>1. /\ row'[m].claimToken = row[m].claimToken
          /\ row'[m].claimedUntil = row[m].claimedUntil
      BY <1>3, <2>4 DEF UpdateMonitor, UpdatedRow, TypeOK, RowType
    <3>2. QED
      BY <2>1, <2>4, <3>1, StillLeased
  <2>5. CASE work[w].monitor = m /\ ~on
    <3>1. work[w].token # Nil
      BY <2>1, MonitoringAssumption DEF Undisturbed, RunInv, Nil, TypeOK, Token
    <3>2. row[m].claimToken = work[w].token
      BY <2>2, <2>5 DEF Leased
    <3>3. work[w].token \in revoked'
      BY <1>3, <2>5, <3>1, <3>2 DEF UpdateMonitor
    <3>4. QED
      BY <2>1, <3>3
  <2>6. QED
    BY <2>3, <2>4, <2>5
<1>4. ASSUME NEW m \in Monitor, DeleteMonitor(m) PROVE LeaseInv'
  <2>1. \A w \in Worker : Undisturbed(w)' =>
          Undisturbed(w) /\ work[w].monitor # m /\ work[w].monitor \in Monitor
    BY <1>4 DEF DeleteMonitor, Undisturbed, TypeOK
  <2>2. \A o \in Monitor : o # m => row'[o] = row[o]
    BY <1>4 DEF DeleteMonitor, TypeOK
  <2>3. QED
    BY <1>4, <2>1, <2>2, StillLeased DEF LeaseInv, DeleteMonitor
<1>5. ASSUME NEW w \in Worker, NEW m \in rows, Claimable(m), Grant(w, m) PROVE LeaseInv'
  <2> SUFFICES ASSUME NEW v \in Prompt, Undisturbed(v)' PROVE Leased(v)'
    BY DEF LeaseInv
  <2>1. m \in Monitor /\ \A o \in Monitor : o # m => row'[o] = row[o]
    BY <1>5 DEF Grant, TypeOK
  <2>2. CASE v # w
    <3>1. work'[v] = work[v] /\ Undisturbed(v)
      BY <1>5, <2>2 DEF Grant, TypeOK, Undisturbed
    <3>2. work[v].monitor # m /\ work[v].monitor \in Monitor
      BY <1>5, <3>1, NotFree DEF Claimable, Undisturbed, TypeOK
    <3>3. QED
      BY <2>1, <3>1, <3>2, StillLeased
  <2>3. CASE v = w
    <3>1. work'[w] = Claim(m) /\ row'[m] = Granted(row[m])
      BY <1>5, <2>1 DEF Grant, TypeOK
    <3>2. /\ Claim(m).monitor = m /\ Claim(m).token = granted + 1
          /\ Claim(m).due = now /\ Claim(m).phase = "claimed"
      BY DEF Claim
    <3>3. /\ Granted(row[m]).claimToken = granted + 1
          /\ Granted(row[m]).claimedUntil = now + ClaimSeconds
      BY <2>1 DEF Granted, TypeOK, RowType
    <3>4. now + ClaimSeconds # Nil /\ now + ClaimSeconds <= now + ClaimSeconds
      BY <1>0 DEF Nil
    <3>5. QED
      BY <2>3, <3>1, <3>2, <3>3, <3>4 DEF Leased, Margin
  <2>4. QED
    BY <2>2, <2>3
(* Steps of a worker that leave the row of every other run alone. *)
<1>6. ASSUME NEW w \in Worker,
             \A v \in Worker : v # w => work'[v] = work[v],
             rows' = rows, revoked' = revoked,
             \A v \in Prompt : v # w /\ Undisturbed(v) => row'[work[v].monitor] = row[work[v].monitor],
             w \in Prompt /\ Undisturbed(w)' => Leased(w)'
      PROVE  LeaseInv'
  <2>1. \A v \in Worker : v # w /\ Undisturbed(v)' => Undisturbed(v)
    BY <1>6 DEF Undisturbed
  <2>2. QED
    BY <1>6, <2>1, StillLeased DEF LeaseInv
<1>7. ASSUME NEW w \in Worker, Start(w) PROVE LeaseInv'
  <2>1. CASE work[w].monitor \in rows
    <3> DEFINE r == [work[w] EXCEPT !.phase = "running",
                                    !.interval = row[work[w].monitor].interval,
                                    !.due = now + RenewalSeconds]
    <3>1. work' = [work EXCEPT ![w] = r] /\ work'[w] = r
      BY <1>7, <2>1 DEF Start, TypeOK
    <3>2. /\ r.monitor = work[w].monitor /\ r.token = work[w].token
          /\ r.due = now + RenewalSeconds /\ r.phase = "running"
      BY DEF TypeOK, WorkType
    <3>3. ASSUME w \in Prompt, Undisturbed(w)' PROVE Leased(w)'
      <4>1. Undisturbed(w) /\ work[w].phase = "claimed" /\ row' = row
        BY <1>7, <3>1, <3>2, <3>3 DEF Start, Undisturbed, store
      <4>2. Leased(w) /\ now <= work[w].due + MaxLag
        BY <3>3, <4>1 DEF LeaseInv, RunInv, Active
      <4> DEFINE c == row[work[w].monitor]
      <4>3. c.claimedUntil \in Nat /\ work[w].due + ClaimSeconds <= c.claimedUntil
        <5>1. c \in RowType
          BY <4>1 DEF Undisturbed, TypeOK
        <5>2. QED
          BY <4>1, <4>2, <5>1 DEF Leased, Margin, RowType
      <4> HIDE DEF c
      <4>4. now + RenewalSeconds + (ClaimSeconds - MaxLag - RenewalSeconds) <= c.claimedUntil
        BY <1>0, <4>1, <4>2, <4>3
      <4>5. QED
        BY <3>1, <3>2, <4>1, <4>2, <4>4 DEF Leased, Margin, c
    <3>4. QED
      BY <1>6, <1>7, <3>1, <3>3 DEF Start, store
  <2>2. CASE work[w].monitor \notin rows
    <3>1. work'[w] = IdleWork /\ \A v \in Worker : v # w => work'[v] = work[v]
      BY <1>7, <2>2 DEF Start, TypeOK
    <3>2. ~Undisturbed(w)'
      BY <3>1 DEF Undisturbed, IdleWork
    <3>3. QED
      BY <1>6, <1>7, <3>1, <3>2 DEF Start, store
  <2>3. QED
    BY <2>1, <2>2
<1>8. ASSUME NEW w \in Worker, Renew(w) PROVE LeaseInv'
  <2> DEFINE r == [work[w] EXCEPT !.due = now + RenewalSeconds]
             m == work[w].monitor
  <2>1. /\ work' = [work EXCEPT ![w] = r] /\ work'[w] = r /\ m \in Monitor
        /\ row' = [row EXCEPT ![m] = Renewed(row[m])] /\ Owns(w)
        /\ work[w].phase = "running"
    BY <1>8 DEF Renew, Owns, HeartbeatDue, TypeOK
  <2>2. /\ r.monitor = m /\ r.token = work[w].token
        /\ r.due = now + RenewalSeconds /\ r.phase = "running"
    BY <2>1 DEF TypeOK, WorkType
  <2>3. /\ row'[m].claimToken = row[m].claimToken
        /\ row'[m].claimedUntil = now + ClaimSeconds
    BY <2>1 DEF Renewed, TypeOK, RowType
  <2>4. \A v \in Prompt : v # w /\ Undisturbed(v) => row'[work[v].monitor] = row[work[v].monitor]
    BY <2>1, RowIsMine DEF Undisturbed, TypeOK
  <2>5. /\ now + ClaimSeconds # Nil
        /\ now + RenewalSeconds + (ClaimSeconds - MaxLag - RenewalSeconds) <= now + ClaimSeconds
    BY <1>0 DEF Nil
  <2>6. Leased(w)'
    BY <2>1, <2>2, <2>3, <2>5 DEF Leased, Margin, Owns
  <2>7. QED
    BY <1>6, <1>8, <2>1, <2>4, <2>6 DEF Renew
<1>9. ASSUME NEW w \in Worker, LoseClaim(w) \/ RunFails(w) PROVE LeaseInv'
  <2>0. Moved(work[w], "releasing").phase = "releasing"
    BY DEF Moved, TypeOK, WorkType
  <2>1. work'[w].phase = "releasing" /\ \A v \in Worker : v # w => work'[v] = work[v]
    BY <1>9, <2>0 DEF LoseClaim, RunFails, TypeOK
  <2>2. ~Undisturbed(w)'
    BY <2>1 DEF Undisturbed
  <2>3. QED
    BY <1>6, <1>9, <2>1, <2>2 DEF LoseClaim, RunFails, store
<1>10. ASSUME NEW w \in Worker, NEW f \in [Identity -> 0..MaxRepeat], FinishAudit(w, f)
       PROVE  LeaseInv'
  <2> DEFINE r == [Moved(work[w], "saving") EXCEPT !.findings = f]
  <2>1. /\ work' = [work EXCEPT ![w] = r] /\ work'[w] = r /\ work[w].phase = "running"
        /\ row' = row /\ rows' = rows /\ revoked' = revoked
    BY <1>10 DEF FinishAudit, TypeOK, store
  <2>2. /\ r.monitor = work[w].monitor /\ r.token = work[w].token
        /\ r.due = now /\ r.phase = "saving"
    BY DEF Moved, TypeOK, WorkType
  <2>3. ASSUME w \in Prompt, Undisturbed(w)' PROVE Leased(w)'
    <3>1. Undisturbed(w)
      BY <2>1, <2>2, <2>3 DEF Undisturbed
    <3>2. Leased(w) /\ now <= work[w].due + MaxLag
      BY <2>1, <2>3, <3>1 DEF LeaseInv, RunInv, Active
    <3> DEFINE c == row[work[w].monitor]
    <3>3. /\ c.claimedUntil \in Nat
          /\ work[w].due + (ClaimSeconds - MaxLag - RenewalSeconds) <= c.claimedUntil
      <4>1. c \in RowType
        BY <3>1 DEF Undisturbed, TypeOK
      <4>2. QED
        BY <2>1, <3>2, <4>1 DEF Leased, Margin, RowType
    <3> HIDE DEF c
    <3>4. now + (ClaimSeconds - 2 * MaxLag - RenewalSeconds) <= c.claimedUntil
      BY <1>0, <2>1, <3>2, <3>3
    <3>5. QED
      BY <2>1, <2>2, <3>2, <3>4 DEF Leased, Margin, c
  <2>4. QED
    BY <1>6, <2>1, <2>3 DEF TypeOK
<1>11. ASSUME NEW w \in Worker, ~Undisturbed(w)', work[w].phase # "idle",
              \A v \in Worker : v # w => work'[v] = work[v],
              rows' = rows, revoked' = revoked,
              \A o \in Monitor : row'[o] = row[o] \/ (Owns(w) /\ o = work[w].monitor)
       PROVE  LeaseInv'
  <2>1. ASSUME NEW v \in Prompt, v # w, Undisturbed(v)
        PROVE  row'[work[v].monitor] = row[work[v].monitor]
    <3>1. work[v].monitor \in Monitor
      BY <2>1 DEF Undisturbed, TypeOK
    <3>2. Owns(w) => work[v].monitor # work[w].monitor
      BY <1>11, <2>1, RowIsMine
    <3>3. QED
      BY <1>11, <3>1, <3>2
  <2>2. QED
    BY <1>6, <1>11, <2>1
<1>12. ASSUME NEW w \in Worker, SaveRun(w) PROVE LeaseInv'
  <2>1. work'[w] = IdleWork /\ \A v \in Worker : v # w => work'[v] = work[v]
    BY <1>12 DEF SaveRun, TypeOK
  <2>2. ~Undisturbed(w)'
    BY <2>1 DEF Undisturbed, IdleWork
  <2>3. \A o \in Monitor : row'[o] = row[o] \/ (Owns(w) /\ o = work[w].monitor)
    BY <1>12 DEF SaveRun, TypeOK
  <2>4. QED
    BY <1>11, <1>12, <2>1, <2>2, <2>3 DEF SaveRun
<1>13. ASSUME NEW w \in Worker, Release(w) \/ OrphanEnds(w) \/ Crash(w) PROVE LeaseInv'
  <2>1. work'[w] = IdleWork /\ \A v \in Worker : v # w => work'[v] = work[v]
    BY <1>13 DEF Release, OrphanEnds, Crash, TypeOK
  <2>2. ~Undisturbed(w)'
    BY <2>1 DEF Undisturbed, IdleWork
  <2>3. work[w].phase # "idle" /\ rows' = rows /\ revoked' = revoked
    BY <1>13 DEF Release, OrphanEnds, Crash, store
  <2>4. \A o \in Monitor : row'[o] = row[o] \/ (Owns(w) /\ o = work[w].monitor)
    BY <1>13, ClearedRow DEF Release, OrphanEnds, Crash, store
  <2>5. QED
    BY <1>11, <2>1, <2>2, <2>3, <2>4
<1>14. ASSUME NEW w \in Worker, NEW released \in BOOLEAN, Cancel(w, released) PROVE LeaseInv'
  <2> DEFINE r == IF work[w].phase = "running"
                  THEN [work[w] EXCEPT !.phase = "orphan"] ELSE IdleWork
  <2>1. work' = [work EXCEPT ![w] = r]
    BY <1>14, Zenon DEF Cancel
  <2>2. work[w].phase # "idle" /\ rows' = rows /\ revoked' = revoked
    BY <1>14 DEF Cancel
  <2>3. \A o \in Monitor : row'[o] = row[o] \/ (Owns(w) /\ o = work[w].monitor)
    BY <1>14, ClearedRow DEF Cancel
  <2>4. r.phase \in {"idle", "orphan"}
    BY DEF IdleWork, TypeOK, WorkType
  <2> HIDE DEF r
  <2>5. work'[w] = r /\ \A v \in Worker : v # w => work'[v] = work[v]
    BY <2>1 DEF TypeOK
  <2>6. ~Undisturbed(w)'
    BY <2>4, <2>5 DEF Undisturbed
  <2>7. QED
    BY <1>11, <2>2, <2>3, <2>5, <2>6
<1>15. CASE Tick \/ UNCHANGED vars \/ \E m \in Monitor, i \in Identity, s \in Status :
              SetIssueStatus(m, i, s)
  BY <1>1, <1>15 DEF Tick, SetIssueStatus, vars, store, TypeOK
<1>16. QED
  BY <1>2, <1>3, <1>4, <1>5, <1>7, <1>8, <1>9, <1>10, <1>12, <1>13, <1>14, <1>15
  DEF Next, OperatorStep, WorkerStep, ClaimMonitor, ClaimDueMonitor, Claimable, Due

(* If the worst delay of a step, three times, and one renewal period fit   *)
(* into a claim, nobody takes over the monitor of a prompt worker's run in *)
(* progress, for any number of workers and monitors, and beside any number *)
(* of workers that stall as long as they like.                             *)
THEOREM PunctualRunKeepsClaim == Punctual => (Spec => []LiveRunKeepsClaim)
<1> SUFFICES ASSUME Punctual PROVE Spec => []LiveRunKeepsClaim
  OBVIOUS
<1>1. TypeOK /\ RunInv /\ LeaseInv => LiveRunKeepsClaim
  BY DEF LiveRunKeepsClaim, LeaseInv, Leased, Owns, Undisturbed
<1>2. TypeOK /\ RunInv /\ LeaseInv /\ [Next]_vars => LeaseInv'
  BY NextLeaseInv
<1>3. QED
  BY <1>1, <1>2, InitTypeOK, NextTypeOK, InitLease, NextRunInv, PTL DEF Spec

-------------------------------------------------------------------------------
(* Acknowledgements. *)

(* What a run makes of an acknowledged issue: resolved or still acknowledged. *)
LEMMA RunKeepsAcknowledgement ==
  ASSUME NEW issue \in Issue, issue.status = "acknowledged",
         NEW n \in 0..MaxRepeat, NEW t \in Nat
  PROVE  IssueAfterRun(issue, n, t).status \in {"acknowledged", "resolved"}
<1>1. CASE n = 0
  BY <1>1 DEF IssueAfterRun, Missing, Resolved, Issue
<1>2. CASE n # 0
  BY <1>2 DEF IssueAfterRun, Missing, Upserted
<1>3. QED
  BY <1>1, <1>2

(* Whatever the reports say and however runs and requests interleave, only *)
(* the operator turns an acknowledged issue back to open.                  *)
THEOREM AcknowledgementIsTheOperators == Spec => AcknowledgementSticks
<1> DEFINE Sticks == \A m \in Monitor, i \in Identity :
             issues[m][i].status = "acknowledged" /\ issues'[m][i].status = "open"
               => UNCHANGED work
<1>1. ASSUME TypeOK, [Next]_vars PROVE Sticks
  <2>1. ASSUME NEW w \in Worker, SaveRun(w) PROVE Sticks
    <3> DEFINE m0 == work[w].monitor
               f == work[w].findings
    <3>1. issues' = [issues EXCEPT ![m0] =
             [i \in Identity |-> IssueAfterRun(@[i], f[i], now)]]
      BY <2>1 DEF SaveRun
    <3>2. f \in [Identity -> 0..MaxRepeat] /\ now \in Nat
      BY <1>1, MonitoringAssumption DEF TypeOK, WorkType, Time
    <3>3. ASSUME NEW m \in Monitor, NEW i \in Identity,
                 issues[m][i].status = "acknowledged"
          PROVE  issues'[m][i].status # "open"
      <4>1. issues[m][i] \in Issue
        BY <1>1 DEF TypeOK
      <4>2. CASE m = m0
        <5>1. issues'[m][i] = IssueAfterRun(issues[m][i], f[i], now)
          BY <1>1, <3>1, <4>2 DEF TypeOK
        <5>2. f[i] \in 0..MaxRepeat
          BY <3>2
        <5>3. QED
          BY <3>2, <3>3, <4>1, <5>1, <5>2, RunKeepsAcknowledgement
      <4>3. CASE m # m0
        BY <1>1, <3>1, <3>3, <4>3 DEF TypeOK
      <4>4. QED
        BY <4>2, <4>3
    <3>4. QED
      BY <3>3
  <2>2. ASSUME NEW m0 \in Monitor, DeleteMonitor(m0) PROVE Sticks
    BY <2>2 DEF DeleteMonitor
  <2>3. ASSUME NEW m0 \in Monitor, NEW i0 \in Identity, NEW s \in Status,
               SetIssueStatus(m0, i0, s)
        PROVE  Sticks
    BY <2>3 DEF SetIssueStatus
  <2>4. ASSUME UNCHANGED issues PROVE Sticks
    BY <2>4
  <2>5. QED
    BY <1>1, <2>1, <2>2, <2>3, <2>4
    DEF Next, OperatorStep, WorkerStep, Tick, CreateMonitor, UpdateMonitor, ClaimMonitor,
        ClaimDueMonitor, Grant, Start, Renew, LoseClaim, FinishAudit, RunFails, Release,
        Cancel, OrphanEnds, Crash, store, vars
<1>2. TypeOK /\ [Next]_vars => [Sticks]_vars
  BY <1>1
<1>3. QED
  BY <1>2, InitTypeOK, NextTypeOK, PTL DEF Spec, AcknowledgementSticks

-------------------------------------------------------------------------------
(* The store and the runs implement the leases of RunLease.                *)

(* The three mapped variables by name. *)
Holder == [m \in Monitor |-> row[m].claimToken]
Holds(r) == IF r.phase \in Active THEN r.token ELSE Nil
Running == [w \in Worker |-> Holds(work[w])]
Published == [m \in Monitor |-> {s.token : s \in snapshots[m]}]

(* A monitor that is not in the table has no claim. *)
AbsentUnclaimed == \A m \in Monitor : m \notin rows => row[m].claimToken = Nil

LEMMA InitAbsent == Init => AbsentUnclaimed
BY DEF Init, AbsentUnclaimed, EmptyRow

LEMMA NextAbsent == TypeOK /\ AbsentUnclaimed /\ [Next]_vars => AbsentUnclaimed'
<1> SUFFICES ASSUME TypeOK, AbsentUnclaimed, [Next]_vars PROVE AbsentUnclaimed'
  OBVIOUS
<1>1. ASSUME rows \subseteq rows', \A m \in Monitor \ rows' : row'[m] = row[m]
      PROVE  AbsentUnclaimed'
  BY <1>1 DEF AbsentUnclaimed
<1>2. CASE OperatorStep
  <2>1. ASSUME NEW m \in Monitor, DeleteMonitor(m) PROVE AbsentUnclaimed'
    BY <2>1 DEF DeleteMonitor, EmptyRow, AbsentUnclaimed, TypeOK
  <2>2. ASSUME NEW m \in Monitor, NEW s \in Site, NEW i \in Interval, CreateMonitor(m, s, i)
        PROVE  AbsentUnclaimed'
    BY <1>1, <2>2 DEF CreateMonitor, TypeOK
  <2>3. ASSUME NEW m \in Monitor, NEW i \in Interval, NEW on \in BOOLEAN, UpdateMonitor(m, i, on)
        PROVE  AbsentUnclaimed'
    BY <1>1, <2>3 DEF UpdateMonitor, TypeOK
  <2>4. ASSUME NEW m \in Monitor, NEW i \in Identity, NEW s \in Status, SetIssueStatus(m, i, s)
        PROVE  AbsentUnclaimed'
    BY <1>1, <2>4 DEF SetIssueStatus
  <2>5. QED
    BY <1>2, <2>1, <2>2, <2>3, <2>4 DEF OperatorStep
<1>3. ASSUME NEW w \in Worker, WorkerStep(w) PROVE AbsentUnclaimed'
  <2>1. rows' = rows
    BY <1>3 DEF WorkerStep, ClaimMonitor, ClaimDueMonitor, Grant, Start, Renew, LoseClaim,
      FinishAudit, RunFails, SaveRun, Release, Cancel, OrphanEnds, Crash, store
  <2>2. \A m \in Monitor \ rows : row'[m] = row[m]
    <3>1. CASE \E m \in Monitor : ClaimMonitor(w, m) \/ ClaimDueMonitor(w, m)
      BY <3>1 DEF ClaimMonitor, ClaimDueMonitor, Due, Claimable, Grant, TypeOK
    <3>2. CASE Renew(w)
      BY <3>2 DEF Renew, Owns, TypeOK
    <3>3. CASE SaveRun(w)
      BY <3>3 DEF SaveRun, Owns, TypeOK
    <3>4. CASE Release(w) \/ \E released \in BOOLEAN : Cancel(w, released)
      BY <3>4 DEF Release, Cancel, ClaimCleared, Owns, TypeOK
    <3>5. CASE \/ Start(w) \/ LoseClaim(w) \/ RunFails(w) \/ OrphanEnds(w) \/ Crash(w)
               \/ \E f \in [Identity -> 0..MaxRepeat] : FinishAudit(w, f)
      BY <3>5 DEF Start, LoseClaim, FinishAudit, RunFails, OrphanEnds, Crash, store
    <3>6. QED
      BY <1>3, <3>1, <3>2, <3>3, <3>4, <3>5 DEF WorkerStep
  <2>3. QED
    BY <1>1, <2>1, <2>2
<1>4. CASE Tick \/ UNCHANGED vars
  BY <1>1, <1>4 DEF Tick, vars, store
<1>5. QED
  BY <1>2, <1>3, <1>4 DEF Next

(* How the mapped variables follow the tables. *)
LEMMA SameHolder ==
  ASSUME \A m \in Monitor : row'[m].claimToken = row[m].claimToken
  PROVE  Holder' = Holder
BY DEF Holder

LEMMA HolderAt ==
  ASSUME TypeOK, NEW m \in Monitor, NEW r, row' = [row EXCEPT ![m] = r],
         NEW t, r.claimToken = t
  PROVE  Holder' = [Holder EXCEPT ![m] = t]
BY DEF Holder, TypeOK

LEMMA SamePublished ==
  ASSUME snapshots' = snapshots
  PROVE  Published' = Published
BY DEF Published

LEMMA RunningAt ==
  ASSUME TypeOK, NEW w \in Worker, NEW r, work' = [work EXCEPT ![w] = r]
  PROVE  Running' = [Running EXCEPT ![w] = Holds(r)]
BY DEF Running, TypeOK

LEMMA SameRunning ==
  ASSUME TypeOK, NEW w \in Worker, NEW r, work' = [work EXCEPT ![w] = r],
         Holds(r) = Holds(work[w])
  PROVE  Running' = Running
BY RunningAt DEF Running

(* A lease that a worker believes to hold is one that was granted. *)
LEMMA HoldsGranted ==
  ASSUME TypeOK, NEW w \in Worker, work[w].phase \in Active
  PROVE  Holds(work[w]) = work[w].token /\ Running[w] = work[w].token /\ work[w].token # Nil
<1>1. work[w].token \in Token
  BY DEF TypeOK, Active
<1>2. work[w].token # Nil
  BY <1>1, MonitoringAssumption DEF Token, Nil
<1>3. QED
  BY <1>2 DEF Holds, Running

LEMMA IdleHolds == Holds(IdleWork) = Nil
BY DEF Holds, IdleWork, Active

(* A run that ends without a report gives back its own lease or none. *)
LEMMA EndsUnpublished ==
  ASSUME TypeOK, NEW w \in Worker, work[w].phase \in Active,
         NEW r, work' = [work EXCEPT ![w] = r], Holds(r) = Nil,
         row' = ClaimCleared(w) \/ row' = row,
         snapshots' = snapshots, granted' = granted, revoked' = revoked
  PROVE  Lease!Next
<1>1. Running' = [Running EXCEPT ![w] = Nil] /\ Published' = Published
  BY RunningAt, SamePublished
<1>2. Running[w] = work[w].token /\ Running[w] # Nil
  BY HoldsGranted
<1>3. CASE row' = ClaimCleared(w) /\ Owns(w)
  <2>0. PICK m \in Monitor : m = work[w].monitor
    BY <1>3 DEF Owns, TypeOK
  <2>1. row[m].claimToken = work[w].token
    BY <1>3, <2>0 DEF Owns
  <2>2. row' = [row EXCEPT ![m] = Cleared(row[m])]
    BY <1>3, <2>0 DEF ClaimCleared, TypeOK
  <2>3. Cleared(row[m]).claimToken = Nil
    BY <2>1 DEF Cleared, TypeOK, RowType
  <2>4. Holder' = [Holder EXCEPT ![m] = Nil]
    BY <2>1, <2>2, <2>3, HolderAt
  <2>5. Holder[m] = Running[w]
    BY <1>2, <2>1 DEF Holder
  <2>6. Lease!GiveBack(w, m)
    BY <1>1, <2>4, <2>5 DEF Lease!GiveBack, Holder, Running, Published, Holds
  <2>7. QED
    BY <2>6 DEF Lease!Next
<1>4. CASE row' = row
  <2>1. Lease!Vanish(w)
    BY <1>1, <1>2, <1>4, SameHolder DEF Lease!Vanish, Holder, Running, Published, Holds
  <2>2. QED
    BY <2>1 DEF Lease!Next
<1>5. QED
  BY <1>3, <1>4 DEF ClaimCleared

LEMMA LeaseStep ==
  ASSUME TypeOK, AbsentUnclaimed, [Next]_vars
  PROVE  [Lease!Next]_(Lease!vars)
<1>1. ASSUME granted' = granted, revoked' = revoked, Holder' = Holder,
             Running' = Running, Published' = Published
      PROVE  UNCHANGED Lease!vars
  BY <1>1 DEF Lease!vars, Holder, Running, Published, Holds
<1>2. ASSUME NEW m \in Monitor, NEW s \in Site, NEW i \in Interval, CreateMonitor(m, s, i)
      PROVE  UNCHANGED Lease!vars
  <2>1. InsertedRow(s, i).claimToken = Nil /\ row[m].claimToken = Nil
    BY <1>2 DEF InsertedRow, CreateMonitor, AbsentUnclaimed, TypeOK
  <2>2. Holder' = Holder
    BY <1>2, <2>1, SameHolder DEF CreateMonitor, TypeOK
  <2>3. QED
    BY <1>1, <1>2, <2>2, SamePublished DEF CreateMonitor, Running
<1>3. ASSUME NEW m \in Monitor, NEW i \in Interval, NEW on \in BOOLEAN, UpdateMonitor(m, i, on)
      PROVE  [Lease!Next]_(Lease!vars)
  <2>1. /\ row' = [row EXCEPT ![m] = UpdatedRow(row[m], i, on)]
        /\ Running' = Running /\ Published' = Published /\ granted' = granted
    BY <1>3, SamePublished DEF UpdateMonitor, TypeOK, Running
  <2>2. UpdatedRow(row[m], i, on).claimToken = IF on THEN row[m].claimToken ELSE Nil
    BY DEF UpdatedRow, TypeOK, RowType
  <2>3. CASE on \/ row[m].claimToken = Nil
    <3>1. revoked' = revoked
      BY <1>3, <2>3 DEF UpdateMonitor
    <3>2. Holder' = Holder
      BY <2>1, <2>2, <2>3, SameHolder DEF TypeOK
    <3>3. QED
      BY <1>1, <2>1, <3>1, <3>2
  <2>4. CASE ~on /\ row[m].claimToken # Nil
    <3>1. revoked' = revoked \cup {row[m].claimToken}
      BY <1>3, <2>4 DEF UpdateMonitor
    <3>2. Holder' = [Holder EXCEPT ![m] = Nil] /\ Holder[m] = row[m].claimToken
      BY <2>1, <2>2, <2>4, HolderAt DEF Holder
    <3>3. Lease!Withdraw(m)
      BY <2>1, <2>4, <3>1, <3>2 DEF Lease!Withdraw, Holder, Running, Published, Holds
    <3>4. QED
      BY <3>3 DEF Lease!Next
  <2>5. QED
    BY <2>3, <2>4
<1>4. ASSUME NEW m \in Monitor, DeleteMonitor(m) PROVE Lease!Next
  <2>0. EmptyRow.claimToken = Nil
    BY DEF EmptyRow
  <2>1. Holder' = [Holder EXCEPT ![m] = Nil]
    BY <1>4, <2>0, HolderAt DEF DeleteMonitor
  <2>2. Published' = [Published EXCEPT ![m] = {}]
    BY <1>4 DEF DeleteMonitor, Published, TypeOK
  <2>3. Lease!Forget(m)
    BY <1>4, <2>1, <2>2 DEF Lease!Forget, DeleteMonitor, Holder, Running, Published, Holds
  <2>4. QED
    BY <2>3 DEF Lease!Next
<1>5. ASSUME NEW m \in Monitor, NEW i \in Identity, NEW s \in Status, SetIssueStatus(m, i, s)
      PROVE  UNCHANGED Lease!vars
  BY <1>1, <1>5, SameHolder, SamePublished DEF SetIssueStatus, Running
<1>6. ASSUME NEW w \in Worker, NEW m \in Monitor, Grant(w, m) PROVE Lease!Next
  <2>1. /\ granted' = granted + 1 /\ revoked' = revoked /\ Published' = Published
        /\ row' = [row EXCEPT ![m] = Granted(row[m])]
        /\ work' = [work EXCEPT ![w] = Claim(m)]
    BY <1>6, SamePublished DEF Grant, TypeOK
  <2>2. Granted(row[m]).claimToken = granted + 1 /\ Holds(Claim(m)) = granted + 1
    BY DEF Granted, Claim, Holds, Active, TypeOK, RowType
  <2>3. Running[w] = Nil
    BY <1>6 DEF Grant, Running, Holds, Active
  <2>4. Holder' = [Holder EXCEPT ![m] = granted + 1]
    BY <2>1, <2>2, HolderAt
  <2>5. Running' = [Running EXCEPT ![w] = granted + 1]
    BY <2>1, <2>2, RunningAt
  <2>6. Lease!Acquire(w, m)
    BY <2>1, <2>3, <2>4, <2>5 DEF Lease!Acquire, Holder, Running, Published, Holds
  <2>7. QED
    BY <2>6 DEF Lease!Next
<1>7. ASSUME NEW w \in Worker, Start(w) PROVE [Lease!Next]_(Lease!vars)
  <2>1. CASE work[w].monitor \in rows
    <3> DEFINE r == [work[w] EXCEPT !.phase = "running",
                                    !.interval = row[work[w].monitor].interval,
                                    !.due = now + RenewalSeconds]
    <3>1. work' = [work EXCEPT ![w] = r] /\ work[w].phase = "claimed"
      BY <1>7, <2>1 DEF Start, TypeOK
    <3>2. r.phase = "running" /\ r.token = work[w].token
      BY DEF TypeOK, WorkType
    <3>3. Holds(r) = Holds(work[w])
      BY <3>1, <3>2 DEF Holds, Active
    <3> HIDE DEF r
    <3>4. QED
      BY <1>1, <1>7, <3>1, <3>3, SameRunning, SameHolder, SamePublished DEF Start, store
  <2>2. CASE work[w].monitor \notin rows
    BY <1>7, <2>2, IdleHolds, EndsUnpublished DEF Start, store, Active, TypeOK
  <2>3. QED
    BY <2>1, <2>2
<1>8. ASSUME NEW w \in Worker, Renew(w) PROVE UNCHANGED Lease!vars
  <2> DEFINE r == [work[w] EXCEPT !.due = now + RenewalSeconds]
  <2>1. work' = [work EXCEPT ![w] = r]
    BY <1>8 DEF Renew, TypeOK
  <2>2. r.phase = work[w].phase /\ r.token = work[w].token
    BY DEF TypeOK, WorkType
  <2>3. Holds(r) = Holds(work[w])
    BY <2>2 DEF Holds
  <2>4. \A m \in Monitor : row'[m].claimToken = row[m].claimToken
    BY <1>8 DEF Renew, Renewed, Owns, TypeOK, RowType
  <2> HIDE DEF r
  <2>5. QED
    BY <1>1, <1>8, <2>1, <2>3, <2>4, SameRunning, SameHolder, SamePublished DEF Renew
<1>9. ASSUME NEW w \in Worker, LoseClaim(w) \/ RunFails(w) PROVE UNCHANGED Lease!vars
  <2>1. /\ work' = [work EXCEPT ![w] = Moved(work[w], "releasing")]
        /\ work[w].phase \in {"running", "saving"}
    BY <1>9 DEF LoseClaim, RunFails, HeartbeatDue, TypeOK
  <2>2. Holds(Moved(work[w], "releasing")) = Holds(work[w])
    BY <2>1 DEF Moved, Holds, Active, TypeOK, WorkType
  <2>3. QED
    BY <1>1, <1>9, <2>1, <2>2, SameRunning, SameHolder, SamePublished
    DEF LoseClaim, RunFails, store
<1>10. ASSUME NEW w \in Worker, NEW f \in [Identity -> 0..MaxRepeat], FinishAudit(w, f)
       PROVE  UNCHANGED Lease!vars
  <2> DEFINE r == [Moved(work[w], "saving") EXCEPT !.findings = f]
  <2>1. work' = [work EXCEPT ![w] = r] /\ work[w].phase = "running"
    BY <1>10 DEF FinishAudit, TypeOK
  <2>2. r.phase = "saving" /\ r.token = work[w].token
    BY DEF Moved, TypeOK, WorkType
  <2>3. Holds(r) = Holds(work[w])
    BY <2>1, <2>2 DEF Holds, Active
  <2> HIDE DEF r
  <2>4. QED
    BY <1>1, <1>10, <2>1, <2>3, SameRunning, SameHolder, SamePublished DEF FinishAudit, store
<1>11. ASSUME NEW w \in Worker, SaveRun(w) PROVE Lease!Next
  <2>0. PICK m \in Monitor, t \in Token : m = work[w].monitor /\ t = work[w].token
    BY <1>11 DEF SaveRun, Owns, TypeOK
  <2> DEFINE Shot == [token |-> t, at |-> now]
             r == [Cleared(row[m]) EXCEPT !.nextRun = now + work[w].interval]
  <2>1. /\ row[m].claimToken = t /\ work[w].phase = "saving"
        /\ row' = [row EXCEPT ![m] = r] /\ work' = [work EXCEPT ![w] = IdleWork]
        /\ granted' = granted /\ revoked' = revoked
    BY <1>11, <2>0 DEF SaveRun, Owns, TypeOK
  <2>2. Running[w] = t /\ t # Nil /\ Holder[m] = t
    BY <2>0, <2>1, HoldsGranted DEF Active, Holder
  <2>3. r.claimToken = Nil
    BY <2>1 DEF Cleared, TypeOK, RowType
  <2>4. Holder' = [Holder EXCEPT ![m] = Nil]
    <3> HIDE DEF r
    <3>1. QED
      BY <2>1, <2>3, HolderAt
  <2>4a. Running' = [Running EXCEPT ![w] = Nil]
    BY <2>1, RunningAt, IdleHolds
  <2>5. \A o \in Monitor \ {m} : Published'[o] \subseteq Published[o]
    BY <1>11, <2>0 DEF SaveRun, Published
  <2>6. Published'[m] \subseteq Published[m] \cup {t}
    BY <1>11, <2>0 DEF SaveRun, Published
  <2>7. t \in Published'[m]
    <3>1. now - Retention <= now
      BY MonitoringAssumption DEF TypeOK, Time
    <3>2. Shot \in snapshots'[m]
      BY <1>11, <2>0, <3>1 DEF SaveRun, Cutoff
    <3>3. QED
      BY <3>2 DEF Published
  <2>8. Lease!Publish(w, m)
    BY <2>1, <2>2, <2>4, <2>4a, <2>5, <2>6, <2>7
    DEF Lease!Publish, Holder, Running, Published, Holds
  <2>9. QED
    BY <2>8 DEF Lease!Next
<1>12. ASSUME NEW w \in Worker, Release(w) PROVE Lease!Next
  BY <1>12, IdleHolds, EndsUnpublished DEF Release, Active
<1>13. ASSUME NEW w \in Worker, NEW released \in BOOLEAN, Cancel(w, released) PROVE Lease!Next
  <2> DEFINE r == IF work[w].phase = "running"
                  THEN [work[w] EXCEPT !.phase = "orphan"] ELSE IdleWork
  <2>1. work' = [work EXCEPT ![w] = r]
    BY <1>13, Zenon DEF Cancel
  <2>2. Holds(r) = Nil
    BY IdleHolds DEF Holds, Active, TypeOK, WorkType
  <2> HIDE DEF r
  <2>3. QED
    BY <1>13, <2>1, <2>2, EndsUnpublished DEF Cancel, Active
<1>14. ASSUME NEW w \in Worker, OrphanEnds(w) \/ Crash(w) PROVE [Lease!Next]_(Lease!vars)
  <2>1. CASE work[w].phase \in Active
    BY <1>14, <2>1, IdleHolds, EndsUnpublished DEF OrphanEnds, Crash, store
  <2>2. CASE work[w].phase \notin Active
    <3>1. Holds(work[w]) = Nil
      BY <2>2 DEF Holds
    <3>2. QED
      BY <1>1, <1>14, <3>1, IdleHolds, SameRunning, SameHolder, SamePublished
      DEF OrphanEnds, Crash, store
  <2>3. QED
    BY <2>1, <2>2
<1>15. CASE Tick \/ UNCHANGED vars
  BY <1>1, <1>15, SameHolder, SamePublished DEF Tick, vars, store, Running
<1>16. QED
  BY <1>2, <1>3, <1>4, <1>5, <1>6, <1>7, <1>8, <1>9, <1>10, <1>11, <1>12, <1>13, <1>14, <1>15
  DEF Next, OperatorStep, WorkerStep, ClaimMonitor, ClaimDueMonitor

(* The monitor store and its runs implement the abstract leases: whatever  *)
(* the clocks, delays, crashes, cancellations and requests, a report is    *)
(* published by the run that holds the monitor's lease and by no other,    *)
(* for any number of workers and monitors.                                 *)
THEOREM StoreImplementsLeases == Spec => LeasesHonoured
<1>1. Init => Lease!Init
  BY DEF Init, Lease!Init, EmptyRow, IdleWork, Active
<1>2. TypeOK /\ AbsentUnclaimed /\ [Next]_vars => [Lease!Next]_(Lease!vars)
  BY LeaseStep
<1>3. QED
  BY <1>1, <1>2, InitTypeOK, NextTypeOK, InitAbsent, NextAbsent, PTL
  DEF Spec, LeasesHonoured, Lease!Spec

-------------------------------------------------------------------------------
(* Issues and their event logs. *)

GoodLog(log, t) ==
  /\ log \in Seq(Event)
  /\ \A j, k \in DOMAIN log : j <= k => log[j].at <= log[k].at
  /\ \A k \in DOMAIN log : log[k].at <= t

Word(kind) == IF kind \in {"opened", "reopened"} THEN "open" ELSE kind

(* The last word that changes a status is s. *)
Tells(log, s) ==
  \E k \in Telling(log) : (\A j \in Telling(log) : j <= k) /\ Word(log[k].kind) = s

Accounts(log, issue, t) ==
  /\ \/ Tells(log, issue.status)
     \/ Telling(log) = {} /\ (issue.status = "none" \/ t > Retention)
  /\ issue.status = "resolved" <=> issue.resolvedAt # Nil

HistoryInv ==
  /\ events \in [Monitor -> [Identity -> Seq(Event)]]
  /\ \A m \in Monitor, i \in Identity :
       GoodLog(events[m][i], now) /\ Accounts(events[m][i], issues[m][i], now)

LEMMA ToldIsTheLast ==
  ASSUME NEW log \in Seq(Event)
  PROVE  /\ \A s : Tells(log, s) => ToldStatus(log) = s
         /\ Telling(log) = {} => ToldStatus(log) = "unknown"
<1>1. ASSUME NEW s, NEW k \in Telling(log), \A j \in Telling(log) : j <= k, Word(log[k].kind) = s
      PROVE  ToldStatus(log) = s
  <2>1. Telling(log) \subseteq Nat
    BY DEF Telling
  <2> DEFINE c == CHOOSE x \in Telling(log) : \A j \in Telling(log) : j <= x
  <2>2. c \in Telling(log) /\ c <= k /\ k <= c
    BY <1>1
  <2>3. c = k
    BY <2>1, <2>2
  <2>4. QED
    BY <1>1, <2>3 DEF ToldStatus, Word
<1>2. QED
  BY <1>1 DEF Tells, ToldStatus

LEMMA Entries ==
  ASSUME NEW log \in Seq(Event)
  PROVE  \A k \in DOMAIN log : log[k] \in Event /\ log[k].at \in Nat
<1>1. \A k \in DOMAIN log : log[k] \in Event
  OBVIOUS
<1>2. QED
  BY <1>1 DEF Event

LEMMA Longer ==
  ASSUME NEW log \in Seq(Event), NEW k \in DOMAIN log
  PROVE  /\ \A e : k \in DOMAIN Append(log, e) /\ Append(log, e)[k] = log[k]
         /\ \A new \in Seq(Event) : k \in DOMAIN (log \o new) /\ (log \o new)[k] = log[k]
<1>1. ASSUME NEW e PROVE k \in DOMAIN Append(log, e) /\ Append(log, e)[k] = log[k]
  OBVIOUS
<1>2. ASSUME NEW new \in Seq(Event) PROVE k \in DOMAIN (log \o new) /\ (log \o new)[k] = log[k]
  OBVIOUS
<1>3. QED
  BY <1>1, <1>2

(* Entries of now join a log. *)
LEMMA Joins ==
  ASSUME NEW t \in Nat, NEW log, GoodLog(log, t), NEW new \in Seq(Event),
         \A k \in DOMAIN new : new[k].at = t
  PROVE  /\ GoodLog(log \o new, t)
         /\ DOMAIN (log \o new) = 1..(Len(log) + Len(new))
         /\ \A k \in DOMAIN log : (log \o new)[k] = log[k]
         /\ \A k \in DOMAIN new : (log \o new)[Len(log) + k] = new[k]
<1>1. log \in Seq(Event) /\ \A k \in DOMAIN log : log[k].at \in Nat /\ log[k].at <= t
  BY Entries DEF GoodLog
<1> DEFINE all == log \o new
<1>2. /\ all \in Seq(Event) /\ DOMAIN all = 1..(Len(log) + Len(new))
      /\ \A k \in DOMAIN log : all[k] = log[k]
      /\ \A k \in DOMAIN new : all[Len(log) + k] = new[k]
  BY <1>1
<1> HIDE DEF all
<1>3. ASSUME NEW k \in DOMAIN all, k \notin DOMAIN log
      PROVE  all[k].at = t
  <2>1. k - Len(log) \in DOMAIN new /\ k = Len(log) + (k - Len(log))
    BY <1>1, <1>2, <1>3
  <2>2. QED
    BY <1>2, <2>1
<1>4. \A k \in DOMAIN all : all[k].at <= t
  BY <1>1, <1>2, <1>3
<1>5. ASSUME NEW j \in DOMAIN all, NEW k \in DOMAIN all, j <= k
      PROVE  all[j].at <= all[k].at
  <2>1. CASE k \in DOMAIN log
    <3>1. j \in DOMAIN log
      BY <1>1, <1>2, <1>5, <2>1
    <3>2. QED
      BY <1>2, <1>5, <2>1, <3>1 DEF GoodLog
  <2>2. CASE k \notin DOMAIN log
    BY <1>3, <1>4, <2>2
  <2>3. QED
    BY <2>1, <2>2
<1>6. QED
  BY <1>2, <1>4, <1>5 DEF GoodLog, all

(* Sightings tell nothing. *)
LEMMA SightingsAreQuiet ==
  ASSUME NEW t \in Nat, NEW log, GoodLog(log, t), NEW new \in Seq(Event),
         \A k \in DOMAIN new : new[k].at = t /\ new[k].kind = "observed"
  PROVE  /\ Telling(log \o new) = Telling(log)
         /\ \A s : Tells(log, s) => Tells(log \o new, s)
<1>1. log \in Seq(Event)
  BY DEF GoodLog
<1> DEFINE all == log \o new
<1>2. /\ DOMAIN all = 1..(Len(log) + Len(new))
      /\ \A k \in DOMAIN log : all[k] = log[k]
      /\ \A k \in DOMAIN new : all[Len(log) + k] = new[k]
  BY Joins
<1> HIDE DEF all
<1>3. ASSUME NEW k \in DOMAIN all, k \notin DOMAIN log
      PROVE  all[k].kind = "observed"
  <2>1. k - Len(log) \in DOMAIN new /\ k = Len(log) + (k - Len(log))
    BY <1>1, <1>2, <1>3
  <2>2. QED
    BY <1>2, <2>1
<1>4. DOMAIN log \subseteq DOMAIN all
  BY <1>1, <1>2
<1>5. Telling(all) = Telling(log)
  BY <1>2, <1>3, <1>4 DEF Telling
<1>6. \A k \in Telling(log) : all[k] = log[k]
  BY <1>2 DEF Telling
<1>7. QED
  BY <1>5, <1>6 DEF Tells, all

(* A first entry that tells a status is the last one that does. *)
LEMMA FirstWordTells ==
  ASSUME NEW t \in Nat, NEW log, GoodLog(log, t), NEW new \in Seq(Event),
         \A k \in DOMAIN new : new[k].at = t /\ (k # 1 => new[k].kind = "observed"),
         1 \in DOMAIN new, new[1].kind # "observed"
  PROVE  Tells(log \o new, Word(new[1].kind))
<1>1. log \in Seq(Event)
  BY DEF GoodLog
<1> DEFINE all == log \o new
           last == Len(log) + 1
<1>2. /\ DOMAIN all = 1..(Len(log) + Len(new))
      /\ \A k \in DOMAIN new : all[Len(log) + k] = new[k]
  BY Joins
<1> HIDE DEF all
<1>3. last \in DOMAIN all /\ all[last] = new[1]
  BY <1>1, <1>2
<1>4. ASSUME NEW k \in DOMAIN all, k > last
      PROVE  all[k].kind = "observed"
  <2>1. k - Len(log) \in DOMAIN new /\ k - Len(log) # 1 /\ k = Len(log) + (k - Len(log))
    BY <1>1, <1>2, <1>4
  <2>2. QED
    BY <1>2, <2>1
<1>5. \A k \in Telling(all) : k <= last
  BY <1>1, <1>2, <1>4 DEF Telling
<1>6. last \in Telling(all)
  BY <1>3 DEF Telling
<1>7. QED
  BY <1>3, <1>5, <1>6 DEF Tells, all

LEMMA EventsAfterRunType ==
  ASSUME NEW issue \in Issue, NEW n \in Nat, NEW t \in Nat
  PROVE  EventsAfterRun(issue, n, t) \in Seq(Event)
<1>1. \A kind \in {"opened", "observed", "reopened", "resolved"} : [kind |-> kind, at |-> t] \in Event
  BY DEF Event, EventKind, Status
<1>2. UpsertKind(issue) \in {"opened", "observed", "reopened"}
  BY DEF UpsertKind
<1>3. UpsertEvents(issue, n, t) \in Seq(Event)
  BY <1>1, <1>2 DEF UpsertEvents
<1>4. <<[kind |-> "resolved", at |-> t]>> \in Seq(Event)
  BY <1>1
<1>5. QED
  BY <1>3, <1>4 DEF EventsAfterRun

(* A run's entries account for what it makes of the issue. *)
LEMMA RunAccounts ==
  ASSUME NEW t \in Nat, NEW log, GoodLog(log, t), NEW issue \in Issue, Accounts(log, issue, t),
         NEW n \in Nat
  PROVE  /\ GoodLog(log \o EventsAfterRun(issue, n, t), t)
         /\ Accounts(log \o EventsAfterRun(issue, n, t), IssueAfterRun(issue, n, t), t)
<1> DEFINE new == EventsAfterRun(issue, n, t)
           after == IssueAfterRun(issue, n, t)
<1>0. t # Nil
  BY DEF Nil
<1>1. CASE Missing(issue, n)
  <2>1. new = <<[kind |-> "resolved", at |-> t]>>
    BY <1>1 DEF EventsAfterRun
  <2>2. new \in Seq(Event) /\ DOMAIN new = {1} /\ new[1].kind = "resolved" /\ new[1].at = t
    BY <2>1 DEF Event, EventKind, Status
  <2>3. after.status = "resolved" /\ after.resolvedAt = t
    BY <1>1 DEF IssueAfterRun, Resolved, Issue
  <2> HIDE DEF new, after
  <2>4. Tells(log \o new, "resolved")
    BY <2>2, FirstWordTells DEF Word
  <2>5. GoodLog(log \o new, t)
    BY <2>2, Joins
  <2>6. Accounts(log \o new, after, t)
    BY <1>0, <2>3, <2>4 DEF Accounts
  <2>7. QED
    BY <2>5, <2>6 DEF new, after
<1>2. CASE ~Missing(issue, n) /\ n = 0
  <2>1. new = <<>> /\ after = issue
    BY <1>2 DEF EventsAfterRun, UpsertEvents, IssueAfterRun, Upserted
  <2>2. log \o <<>> = log
    BY DEF GoodLog
  <2>3. QED
    BY <2>1, <2>2
<1>3. CASE n > 0
  <2>1. new = [k \in 1..n |-> [kind |-> IF k = 1 THEN UpsertKind(issue) ELSE "observed", at |-> t]]
    BY <1>3 DEF EventsAfterRun, UpsertEvents, Missing
  <2>2. UpsertKind(issue) \in EventKind
    BY DEF UpsertKind, EventKind
  <2>3. /\ new \in Seq(Event) /\ DOMAIN new = 1..n
        /\ \A k \in DOMAIN new : /\ new[k].at = t
                                 /\ new[k].kind = IF k = 1 THEN UpsertKind(issue) ELSE "observed"
    <3>1. \A k \in 1..n : [kind |-> IF k = 1 THEN UpsertKind(issue) ELSE "observed", at |-> t] \in Event
      BY <2>2 DEF Event, EventKind
    <3>2. QED
      BY <2>1, <3>1
  <2>4. after.status = (IF issue.status \in {"none", "resolved"} THEN "open" ELSE issue.status) /\ after.resolvedAt = Nil
    BY <1>3 DEF IssueAfterRun, Missing, Upserted
  <2>5. after.status # "resolved"
    BY <2>4
  <2> HIDE DEF new, after
  <2>6. GoodLog(log \o new, t)
    BY <2>3, Joins
  <2>7. CASE issue.status \in {"none", "resolved"}
    <3>1. UpsertKind(issue) \in {"opened", "reopened"}
      BY <2>7 DEF UpsertKind
    <3>2. 1 \in DOMAIN new
      BY <1>3, <2>3
    <3>3. Tells(log \o new, Word(new[1].kind))
      BY <2>3, <3>1, <3>2, FirstWordTells
    <3>4. Word(new[1].kind) = after.status
      BY <2>3, <2>4, <2>7, <3>1, <3>2 DEF Word
    <3>5. QED
      BY <2>4, <2>5, <2>6, <3>3, <3>4 DEF Accounts, new, after
  <2>8. CASE issue.status \notin {"none", "resolved"}
    <3>1. UpsertKind(issue) = "observed" /\ after.status = issue.status
      BY <2>4, <2>8 DEF UpsertKind
    <3>2. /\ Telling(log \o new) = Telling(log)
          /\ \A s : Tells(log, s) => Tells(log \o new, s)
      BY <2>3, <3>1, SightingsAreQuiet
    <3>3. Accounts(log \o new, after, t)
      BY <2>4, <2>5, <2>8, <3>1, <3>2 DEF Accounts
    <3>4. QED
      BY <2>6, <3>3 DEF new, after
  <2>9. QED
    BY <2>7, <2>8
<1>4. QED
  BY <1>1, <1>2, <1>3

(* So does the operator's own entry. *)
LEMMA StatusAccounts ==
  ASSUME NEW t \in Nat, NEW log, GoodLog(log, t), NEW issue \in Issue, NEW s \in Status
  PROVE  /\ Append(log, [kind |-> s, at |-> t]) \in Seq(Event)
         /\ GoodLog(Append(log, [kind |-> s, at |-> t]), t)
         /\ Accounts(Append(log, [kind |-> s, at |-> t]), IssueAfterStatus(issue, s, t), t)
<1> DEFINE new == <<[kind |-> s, at |-> t]>>
           after == IssueAfterStatus(issue, s, t)
<1>1. [kind |-> s, at |-> t] \in Event /\ s \notin {"observed", "opened", "reopened"}
  BY DEF Event, EventKind, Status
<1>2. new \in Seq(Event) /\ DOMAIN new = {1} /\ new[1].kind = s /\ new[1].at = t
  BY <1>1
<1>3. Append(log, [kind |-> s, at |-> t]) = log \o new
  BY <1>1 DEF GoodLog
<1>4. after.status = s /\ after.resolvedAt = IF s = "resolved" THEN t ELSE Nil
  BY DEF IssueAfterStatus, Issue
<1> HIDE DEF new, after
<1>5. Tells(log \o new, s)
  BY <1>1, <1>2, FirstWordTells DEF Word
<1>6. GoodLog(log \o new, t)
  BY <1>2, Joins
<1>7. t # Nil
  BY DEF Nil
<1>8. QED
  BY <1>3, <1>4, <1>5, <1>6, <1>7 DEF Accounts, GoodLog, after

-------------------------------------------------------------------------------
(* Retention. *)

LEMMA UpTo ==
  ASSUME NEW n \in Nat
  PROVE  IsFiniteSet(1..n) /\ Cardinality(1..n) = n
BY FS_Interval

(* The old entries of a log are its first ones. *)
LEMMA OldComeFirst ==
  ASSUME NEW t \in Nat, NEW log, GoodLog(log, t), NEW cutoff \in Int
  PROVE  LET old == {k \in DOMAIN log : log[k].at < cutoff}
         IN  Cardinality(old) \in 0..Len(log) /\ old = 1..Cardinality(old)
<1> DEFINE old == {k \in DOMAIN log : log[k].at < cutoff}
           n == Cardinality(old)
<1>1. log \in Seq(Event) /\ Len(log) \in Nat /\ DOMAIN log = 1..Len(log)
  BY DEF GoodLog
<1>2. \A k \in DOMAIN log : log[k].at \in Nat
  BY <1>1, Entries
<1>3. ASSUME NEW j \in DOMAIN log, NEW k \in old, j <= k
      PROVE  j \in old
  BY <1>2, <1>3 DEF GoodLog
<1>4. old \subseteq 1..Len(log)
  BY <1>1
<1> HIDE DEF old
<1>5. /\ IsFiniteSet(old) /\ n \in Nat /\ n <= Len(log)
  <2>1. IsFiniteSet(1..Len(log)) /\ Cardinality(1..Len(log)) = Len(log)
    BY <1>1, UpTo
  <2>2. QED
    BY <1>4, <2>1, FS_Subset, FS_CardinalityType
<1>6. ASSUME NEW k \in old PROVE k <= n
  <2>1. k \in Nat /\ 1..k \subseteq old
    BY <1>1, <1>3, <1>4, <1>6
  <2>2. Cardinality(1..k) = k
    BY <2>1, UpTo
  <2>3. QED
    BY <1>5, <2>1, <2>2, FS_Subset
<1>7. ASSUME NEW k \in 1..n, k \notin old PROVE FALSE
  <2>1. k \in DOMAIN log /\ k - 1 \in Nat
    BY <1>1, <1>5, <1>7
  <2>2. old \subseteq 1..(k - 1)
    <3>1. ASSUME NEW j \in old PROVE j \in 1..(k - 1)
      <4>1. ~(k <= j)
        BY <1>3, <1>7, <2>1
      <4>2. QED
        BY <1>4, <1>5, <2>1, <4>1
    <3>2. QED
      BY <3>1
  <2>3. IsFiniteSet(1..(k - 1)) /\ Cardinality(1..(k - 1)) = k - 1
    BY <2>1, UpTo
  <2>4. n <= k - 1
    BY <2>2, <2>3, FS_Subset
  <2>5. QED
    BY <1>5, <2>1, <2>4
<1>8. old = 1..n
  <2>1. old \subseteq 1..n
    BY <1>1, <1>4, <1>5, <1>6
  <2>2. 1..n \subseteq old
    BY <1>7
  <2>3. QED
    BY <2>1, <2>2
<1>9. QED
  BY <1>5, <1>8 DEF old

LEMMA Pruned ==
  ASSUME NEW t \in Nat, NEW log, GoodLog(log, t), NEW cutoff \in Int
  PROVE  /\ GoodLog(KeptEvents(log, cutoff), t)
         /\ \A k \in DOMAIN log : log[k].at >= cutoff =>
              \E j \in DOMAIN KeptEvents(log, cutoff) : KeptEvents(log, cutoff)[j] = log[k]
         /\ Telling(log) = {} => Telling(KeptEvents(log, cutoff)) = {}
         /\ \A s : Tells(log, s) =>
              \/ Tells(KeptEvents(log, cutoff), s)
              \/ Telling(KeptEvents(log, cutoff)) = {} /\ cutoff > 0
<1> DEFINE old == {k \in DOMAIN log : log[k].at < cutoff}
           n == Cardinality(old)
           kept == KeptEvents(log, cutoff)
<1>1. log \in Seq(Event) /\ Len(log) \in Nat /\ DOMAIN log = 1..Len(log)
  BY DEF GoodLog
<1>2. \A k \in DOMAIN log : log[k].at \in Nat
  BY <1>1, Entries
<1>3. n \in 0..Len(log) /\ old = 1..n
  BY OldComeFirst
<1>4. kept = SubSeq(log, n + 1, Len(log))
  BY DEF KeptEvents
<1> HIDE DEF kept, n
<1>5. /\ kept \in Seq(Event) /\ DOMAIN kept = 1..(Len(log) - n)
      /\ \A j \in DOMAIN kept : kept[j] = log[n + j] /\ n + j \in DOMAIN log
  BY <1>1, <1>3, <1>4
<1>6. ASSUME NEW k \in DOMAIN log, k > n
      PROVE  k - n \in DOMAIN kept /\ kept[k - n] = log[k]
  <2>1. k - n \in DOMAIN kept /\ n + (k - n) = k
    BY <1>1, <1>3, <1>5, <1>6
  <2>2. QED
    BY <1>5, <2>1
<1>7. GoodLog(kept, t)
  <2>1. \A j, k \in DOMAIN kept : j <= k => kept[j].at <= kept[k].at
    <3>1. \A j, k \in DOMAIN kept : j <= k => n + j <= n + k
      BY <1>3, <1>5
    <3>2. QED
      BY <1>5, <3>1 DEF GoodLog
  <2>2. \A k \in DOMAIN kept : kept[k].at <= t
    BY <1>5 DEF GoodLog
  <2>3. QED
    BY <1>5, <2>1, <2>2 DEF GoodLog
<1>8. ASSUME NEW k \in DOMAIN log, log[k].at >= cutoff
      PROVE  \E j \in DOMAIN kept : kept[j] = log[k]
  <2>1. k \notin old
    BY <1>2, <1>8
  <2>2. k > n
    BY <1>1, <1>3, <2>1
  <2>3. QED
    BY <1>6, <2>2
<1>9. \A j \in Telling(kept) : n + j \in Telling(log)
  BY <1>5 DEF Telling
<1>10. ASSUME NEW s, Tells(log, s)
       PROVE  Tells(kept, s) \/ (Telling(kept) = {} /\ cutoff > 0)
  <2>1. PICK k \in Telling(log) : (\A j \in Telling(log) : j <= k) /\ Word(log[k].kind) = s
    BY <1>10 DEF Tells
  <2>2. k \in DOMAIN log
    BY DEF Telling
  <2>3. CASE k > n
    <3>1. k - n \in Telling(kept) /\ kept[k - n] = log[k]
      BY <1>6, <2>2, <2>3 DEF Telling
    <3>2. \A j \in Telling(kept) : j <= k - n
      <4>1. \A j \in Telling(kept) : n + j <= k /\ j \in Nat
        BY <1>5, <1>9, <2>1 DEF Telling
      <4>2. QED
        BY <1>1, <1>3, <2>2, <4>1
    <3>3. QED
      BY <2>1, <3>1, <3>2 DEF Tells
  <2>4. CASE k <= n
    <3>1. k \in old
      BY <1>1, <1>3, <2>2, <2>4
    <3>2. cutoff > 0
      BY <1>2, <3>1
    <3>3. ASSUME NEW j \in Telling(kept) PROVE FALSE
      <4>1. n + j <= k /\ j \in DOMAIN kept
        BY <1>9, <2>1, <3>3 DEF Telling
      <4>2. QED
        BY <1>1, <1>3, <1>5, <2>2, <2>4, <4>1
    <3>4. QED
      BY <3>2, <3>3
  <2>5. QED
    BY <1>1, <1>3, <2>2, <2>3, <2>4
<1>11. QED
  BY <1>7, <1>8, <1>9, <1>10 DEF kept

LEMMA PrunedAccounts ==
  ASSUME NEW t \in Nat, NEW log, GoodLog(log, t), NEW issue, Accounts(log, issue, t)
  PROVE  /\ GoodLog(KeptEvents(log, t - Retention), t)
         /\ Accounts(KeptEvents(log, t - Retention), issue, t)
<1>1. t - Retention \in Int /\ (t - Retention > 0 => t > Retention)
  BY MonitoringAssumption
<1>2. QED
  BY <1>1, Pruned DEF Accounts

-------------------------------------------------------------------------------
(* Every log accounts for its issue, whatever the operator and the runs do. *)

LEMMA HistoryFrame ==
  ASSUME HistoryInv, now \in Nat, now' \in Nat, now <= now', UNCHANGED <<events, issues>>
  PROVE  HistoryInv'
<1>1. ASSUME NEW m \in Monitor, NEW i \in Identity
      PROVE  GoodLog(events[m][i], now') /\ Accounts(events[m][i], issues[m][i], now')
  <2>1. events[m][i] \in Seq(Event) /\ \A k \in DOMAIN events[m][i] : events[m][i][k].at <= now
    BY DEF HistoryInv, GoodLog
  <2>2. \A k \in DOMAIN events[m][i] : events[m][i][k].at <= now'
    BY <2>1, Entries
  <2>3. GoodLog(events[m][i], now')
    BY <2>2 DEF HistoryInv, GoodLog
  <2>4. now > Retention => now' > Retention
    BY MonitoringAssumption
  <2>5. QED
    BY <2>3, <2>4 DEF HistoryInv, Accounts
<1>2. QED
  BY <1>1 DEF HistoryInv

LEMMA EmptyAccounts ==
  ASSUME NEW t \in Nat
  PROVE  GoodLog(<<>>, t) /\ Accounts(<<>>, NoIssue, t)
BY DEF GoodLog, Accounts, Telling, NoIssue, Nil

LEMMA InitHistory == Init => HistoryInv
BY EmptyAccounts DEF Init, HistoryInv

(* Deleting a monitor or editing an issue. *)
LEMMA OperatorHistory ==
  ASSUME TypeOK, HistoryInv, NEW m \in Monitor, NEW i \in Identity, NEW s \in Status,
         DeleteMonitor(m) \/ SetIssueStatus(m, i, s)
  PROVE  HistoryInv'
<1>0. now \in Nat /\ issues \in [Monitor -> [Identity -> Issue]] /\ events \in [Monitor -> [Identity -> Seq(Event)]]
  BY MonitoringAssumption DEF TypeOK, Time, HistoryInv
<1>1. CASE DeleteMonitor(m)
  <2>1. /\ issues' = [issues EXCEPT ![m] = [j \in Identity |-> NoIssue]]
        /\ events' = [events EXCEPT ![m] = [j \in Identity |-> <<>>]] /\ now' = now
    BY <1>1 DEF DeleteMonitor
  <2>2. <<>> \in Seq(Event)
    OBVIOUS
  <2>3. events' \in [Monitor -> [Identity -> Seq(Event)]]
    BY <1>0, <2>1, <2>2
  <2>4. ASSUME NEW o \in Monitor, NEW j \in Identity
        PROVE  GoodLog(events'[o][j], now) /\ Accounts(events'[o][j], issues'[o][j], now)
    <3>1. CASE o = m
      <4>1. events'[o][j] = <<>> /\ issues'[o][j] = NoIssue
        BY <1>0, <2>1, <3>1
      <4>2. QED
        BY <1>0, <4>1, EmptyAccounts
    <3>2. CASE o # m
      BY <1>0, <2>1, <3>2 DEF HistoryInv
    <3>3. QED
      BY <3>1, <3>2
  <2>5. QED
    BY <2>1, <2>3, <2>4 DEF HistoryInv
<1>2. CASE SetIssueStatus(m, i, s)
  <2> DEFINE log == Append(events[m][i], [kind |-> s, at |-> now])
             after == IssueAfterStatus(issues[m][i], s, now)
  <2>1. issues' = [issues EXCEPT ![m][i] = after] /\ events' = [events EXCEPT ![m][i] = log] /\ now' = now
    BY <1>0, <1>2 DEF SetIssueStatus
  <2>2. log \in Seq(Event) /\ GoodLog(log, now) /\ Accounts(log, after, now)
    BY <1>0, StatusAccounts DEF HistoryInv
  <2> HIDE DEF log, after
  <2>3. events' \in [Monitor -> [Identity -> Seq(Event)]]
    BY <1>0, <2>1, <2>2
  <2>4. ASSUME NEW o \in Monitor, NEW j \in Identity
        PROVE  GoodLog(events'[o][j], now) /\ Accounts(events'[o][j], issues'[o][j], now)
    <3>1. CASE o = m /\ j = i
      <4>1. events'[o][j] = log /\ issues'[o][j] = after
        BY <1>0, <2>1, <3>1
      <4>2. QED
        BY <2>2, <4>1
    <3>2. CASE ~(o = m /\ j = i)
      <4>1. events'[o][j] = events[o][j] /\ issues'[o][j] = issues[o][j]
        BY <1>0, <2>1, <3>2
      <4>2. QED
        BY <4>1 DEF HistoryInv
    <3>3. QED
      BY <3>1, <3>2
  <2>5. QED
    BY <2>1, <2>3, <2>4 DEF HistoryInv
<1>3. QED
  BY <1>1, <1>2

(* What save_run makes of each log. *)
SavedLog(w, o, i) ==
  IF o = work[w].monitor
  THEN events[o][i] \o EventsAfterRun(issues[o][i], work[w].findings[i], now)
  ELSE events[o][i]

SavedIssue(w, o, i) ==
  IF o = work[w].monitor
  THEN IssueAfterRun(issues[o][i], work[w].findings[i], now)
  ELSE issues[o][i]

LEMMA Saves ==
  ASSUME TypeOK, HistoryInv, NEW w \in Worker, SaveRun(w)
  PROVE  /\ events' = [o \in Monitor |-> [i \in Identity |-> KeptEvents(SavedLog(w, o, i), now - Retention)]]
         /\ \A o \in Monitor, i \in Identity :
              /\ issues'[o][i] = SavedIssue(w, o, i)
              /\ GoodLog(SavedLog(w, o, i), now)
              /\ Accounts(SavedLog(w, o, i), SavedIssue(w, o, i), now)
<1> DEFINE m == work[w].monitor
           f == work[w].findings
<1>1. /\ now \in Nat /\ issues \in [Monitor -> [Identity -> Issue]]
      /\ f \in [Identity -> 0..MaxRepeat] /\ 0..MaxRepeat \subseteq Nat
  BY MonitoringAssumption DEF TypeOK, Time, WorkType
<1>2. /\ issues' = [issues EXCEPT ![m] = [i \in Identity |-> IssueAfterRun(issues[m][i], f[i], now)]]
      /\ events' = [o \in Monitor |-> [i \in Identity |->
                      KeptEvents(IF o = m THEN events[m][i] \o EventsAfterRun(issues[m][i], f[i], now)
                                 ELSE events[o][i], now - Retention)]]
  <2>1. issues' = [issues EXCEPT ![m] = [i \in Identity |-> IssueAfterRun(@[i], f[i], now)]]
    BY DEF SaveRun
  <2>2. [issues EXCEPT ![m] = [i \in Identity |-> IssueAfterRun(@[i], f[i], now)]]
          = [issues EXCEPT ![m] = [i \in Identity |-> IssueAfterRun(issues[m][i], f[i], now)]]
    BY <1>1
  <2>3. QED
    BY <2>1, <2>2 DEF SaveRun, Cutoff
<1>3. \A o \in Monitor, i \in Identity :
        (IF o = m THEN events[m][i] \o EventsAfterRun(issues[m][i], f[i], now) ELSE events[o][i]) = SavedLog(w, o, i)
  BY DEF SavedLog
<1>4. events' = [o \in Monitor |-> [i \in Identity |-> KeptEvents(SavedLog(w, o, i), now - Retention)]]
  BY <1>2, <1>3
<1>5. \A o \in Monitor, i \in Identity : issues'[o][i] = SavedIssue(w, o, i)
  BY <1>1, <1>2 DEF SavedIssue
<1>6. ASSUME NEW o \in Monitor, NEW i \in Identity
      PROVE  GoodLog(SavedLog(w, o, i), now) /\ Accounts(SavedLog(w, o, i), SavedIssue(w, o, i), now)
  <2>1. GoodLog(events[o][i], now) /\ Accounts(events[o][i], issues[o][i], now)
    BY DEF HistoryInv
  <2>2. issues[o][i] \in Issue /\ f[i] \in Nat
    BY <1>1
  <2>3. QED
    BY <1>1, <2>1, <2>2, RunAccounts DEF SavedLog, SavedIssue
<1>7. QED
  BY <1>4, <1>5, <1>6

LEMMA SaveHistory ==
  ASSUME TypeOK, HistoryInv, NEW w \in Worker, SaveRun(w)
  PROVE  HistoryInv'
<1>1. now \in Nat /\ now' = now
  BY MonitoringAssumption DEF TypeOK, Time, SaveRun
<1>2. ASSUME NEW o \in Monitor, NEW i \in Identity
      PROVE  /\ events'[o][i] \in Seq(Event)
             /\ GoodLog(events'[o][i], now) /\ Accounts(events'[o][i], issues'[o][i], now)
  <2>1. events'[o][i] = KeptEvents(SavedLog(w, o, i), now - Retention) /\ issues'[o][i] = SavedIssue(w, o, i)
    BY Saves
  <2>2. GoodLog(SavedLog(w, o, i), now) /\ Accounts(SavedLog(w, o, i), SavedIssue(w, o, i), now)
    BY Saves
  <2>3. GoodLog(events'[o][i], now) /\ Accounts(events'[o][i], issues'[o][i], now)
    BY <1>1, <2>1, <2>2, PrunedAccounts
  <2>4. QED
    BY <2>3 DEF GoodLog
<1>3. events' \in [Monitor -> [Identity -> Seq(Event)]]
  <2>1. events' = [o \in Monitor |-> [i \in Identity |-> events'[o][i]]]
    BY Saves
  <2>2. QED
    BY <1>2, <2>1
<1>4. QED
  BY <1>1, <1>2, <1>3 DEF HistoryInv

LEMMA NextHistory == TypeOK /\ HistoryInv /\ [Next]_vars => HistoryInv'
<1> SUFFICES ASSUME TypeOK, HistoryInv, [Next]_vars PROVE HistoryInv'
  OBVIOUS
<1>0. now \in Nat
  BY MonitoringAssumption DEF TypeOK, Time
<1>1. ASSUME NEW w \in Worker, SaveRun(w) PROVE HistoryInv'
  BY <1>1, SaveHistory
<1>2. ASSUME NEW m \in Monitor, DeleteMonitor(m) PROVE HistoryInv'
  <2>1. CASE Identity = {}
    BY <1>2, <2>1 DEF DeleteMonitor, HistoryInv
  <2>2. CASE Identity # {}
    <3>1. PICK i \in Identity : TRUE
      BY <2>2
    <3>2. "open" \in Status
      BY DEF Status
    <3>3. QED
      BY <1>2, <3>1, <3>2, OperatorHistory
  <2>3. QED
    BY <2>1, <2>2
<1>3. ASSUME NEW m \in Monitor, NEW i \in Identity, NEW s \in Status, SetIssueStatus(m, i, s)
      PROVE  HistoryInv'
  BY <1>3, OperatorHistory
<1>4. ASSUME UNCHANGED <<events, issues>>, now' \in {now, now + 1} PROVE HistoryInv'
  BY <1>0, <1>4, HistoryFrame
<1>5. QED
  BY <1>1, <1>2, <1>3, <1>4
  DEF Next, OperatorStep, WorkerStep, Tick, CreateMonitor, UpdateMonitor, ClaimMonitor,
      ClaimDueMonitor, Grant, Start, Renew, LoseClaim, FinishAudit, RunFails, Release,
      Cancel, OrphanEnds, Crash, store, vars

(* The log of an issue accounts for its status, unless retention has taken  *)
(* every entry that set it, for any number of runs and edits.               *)
THEOREM LogsAccountForIssues == Spec => []HistoryTellsStatus
<1>1. HistoryInv => HistoryTellsStatus
  <2> SUFFICES ASSUME HistoryInv, NEW m \in Monitor, NEW i \in Identity
               PROVE  /\ \/ ToldStatus(events[m][i]) = issues[m][i].status
                         \/ /\ ToldStatus(events[m][i]) = "unknown"
                            /\ issues[m][i].status = "none" \/ now > Retention
                      /\ issues[m][i].status = "resolved" <=> issues[m][i].resolvedAt # Nil
    BY DEF HistoryTellsStatus
  <2>1. events[m][i] \in Seq(Event) /\ Accounts(events[m][i], issues[m][i], now)
    BY DEF HistoryInv
  <2>2. QED
    BY <2>1, ToldIsTheLast DEF Accounts
<1>2. QED
  BY <1>1, InitTypeOK, NextTypeOK, InitHistory, NextHistory, PTL DEF Spec

(* Only deleting a monitor takes entries within the retention away.         *)
THEOREM OnlyOldHistoryGoes == Spec => RecentHistoryKept
<1> DEFINE Kept == \A m \in rows \cap rows' :
             /\ \A s \in snapshots[m] : s.at >= now - Retention => s \in snapshots'[m]
             /\ \A i \in Identity : \A k \in DOMAIN events[m][i] :
                  events[m][i][k].at >= now - Retention
                    => \E j \in DOMAIN events'[m][i] : events'[m][i][j] = events[m][i][k]
<1>1. ASSUME TypeOK, HistoryInv, [Next]_vars PROVE Kept
  <2>0. now \in Nat /\ now - Retention \in Int /\ rows \subseteq Monitor
    BY <1>1, MonitoringAssumption DEF TypeOK, Time
  <2>1. ASSUME NEW w \in Worker, SaveRun(w) PROVE Kept
    <3>1. ASSUME NEW m \in Monitor, NEW s \in snapshots[m], s.at >= now - Retention
          PROVE  s \in snapshots'[m]
      BY <2>1, <3>1 DEF SaveRun, Cutoff
    <3>2. ASSUME NEW m \in Monitor, NEW i \in Identity, NEW k \in DOMAIN events[m][i],
                 events[m][i][k].at >= now - Retention
          PROVE  \E j \in DOMAIN events'[m][i] : events'[m][i][j] = events[m][i][k]
      <4> DEFINE log == SavedLog(w, m, i)
      <4>1. GoodLog(log, now) /\ events'[m][i] = KeptEvents(log, now - Retention)
        BY <1>1, <2>1, Saves
      <4>2. k \in DOMAIN log /\ log[k] = events[m][i][k]
        <5>1. events[m][i] \in Seq(Event)
          BY <1>1 DEF HistoryInv
        <5>2. CASE m = work[w].monitor
          <6>1. work[w].findings[i] \in Nat /\ issues[m][i] \in Issue
            BY <1>1, MonitoringAssumption DEF TypeOK, WorkType
          <6>2. EventsAfterRun(issues[m][i], work[w].findings[i], now) \in Seq(Event)
            BY <2>0, <6>1, EventsAfterRunType
          <6>3. log = events[m][i] \o EventsAfterRun(issues[m][i], work[w].findings[i], now)
            BY <5>2 DEF SavedLog
          <6>4. QED
            BY <5>1, <6>2, <6>3, Longer
        <5>3. CASE m # work[w].monitor
          BY <5>3 DEF SavedLog
        <5>4. QED
          BY <5>2, <5>3
      <4> HIDE DEF log
      <4>3. QED
        BY <2>0, <3>2, <4>1, <4>2, Pruned
    <3>3. QED
      BY <2>0, <3>1, <3>2
  <2>2. ASSUME NEW o \in Monitor, DeleteMonitor(o) PROVE Kept
    <3>1. o \notin rows' /\ \A m \in Monitor \ {o} : snapshots'[m] = snapshots[m] /\ events'[m] = events[m]
      BY <1>1, <2>2 DEF DeleteMonitor, TypeOK, HistoryInv
    <3>2. QED
      BY <2>0, <3>1
  <2>3. ASSUME NEW o \in Monitor, NEW i0 \in Identity, NEW s0 \in Status, SetIssueStatus(o, i0, s0)
        PROVE  Kept
    <3>1. snapshots' = snapshots /\ events' = [events EXCEPT ![o][i0] = Append(@, [kind |-> s0, at |-> now])]
      BY <2>3 DEF SetIssueStatus
    <3>2. ASSUME NEW m \in Monitor, NEW i \in Identity, NEW k \in DOMAIN events[m][i]
          PROVE  k \in DOMAIN events'[m][i] /\ events'[m][i][k] = events[m][i][k]
      <4>1. events \in [Monitor -> [Identity -> Seq(Event)]] /\ events[m][i] \in Seq(Event)
        BY <1>1 DEF HistoryInv
      <4> DEFINE longer == Append(events[m][i], [kind |-> s0, at |-> now])
      <4>2. events'[m][i] = events[m][i] \/ events'[m][i] = longer
        BY <3>1, <4>1
      <4>3. k \in DOMAIN longer /\ longer[k] = events[m][i][k]
        BY <4>1, Longer
      <4> HIDE DEF longer
      <4>4. QED
        BY <4>2, <4>3
    <3>3. QED
      BY <2>0, <3>1, <3>2
  <2>4. ASSUME UNCHANGED <<snapshots, events>> PROVE Kept
    BY <2>4
  <2>5. QED
    BY <1>1, <2>1, <2>2, <2>3, <2>4
    DEF Next, OperatorStep, WorkerStep, Tick, CreateMonitor, UpdateMonitor, ClaimMonitor,
        ClaimDueMonitor, Grant, Start, Renew, LoseClaim, FinishAudit, RunFails, Release,
        Cancel, OrphanEnds, Crash, store, vars
<1>2. TypeOK /\ HistoryInv /\ [Next]_vars => [Kept]_vars
  BY <1>1
<1>3. QED
  BY <1>2, InitTypeOK, NextTypeOK, InitHistory, NextHistory, PTL DEF Spec, RecentHistoryKept
===============================================================================
