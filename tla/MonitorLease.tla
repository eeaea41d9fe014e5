----------------------------- MODULE MonitorLease -----------------------------
(* The store and the runs of Monitoring implement the leases of RunLease. *)
EXTENDS Monitoring

(* A run whose crawl was abandoned publishes nothing any more. *)
Lease == INSTANCE RunLease WITH
  NoLease   <- Nil,
  issued    <- granted,
  holder    <- [m \in Monitor |-> row[m].claimToken],
  running   <- [w \in Worker |-> IF work[w].phase \in Active THEN work[w].token ELSE Nil],
  published <- [m \in Monitor |-> {s.token : s \in snapshots[m]}],
  withdrawn <- revoked

(* Every step of the store and of a run is one step of the leases or none: *)
(* whatever expires, stalls, crashes, is cancelled, disabled or deleted,   *)
(* only the run that holds the monitor's lease publishes, once, and a run  *)
(* that lost its lease neither publishes nor frees the lease of another.   *)
LeasesHonoured == Lease!Spec
===============================================================================
