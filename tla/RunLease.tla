------------------------------- MODULE RunLease -------------------------------
(***************************************************************************)
(* What the claim columns and the save of the monitor store promise to a   *)
(* reader of the reports, without clocks, rows or heartbeats: a monitor is *)
(* leased to at most one run at a time, a lease is granted once, only the  *)
(* run that holds it publishes, and it publishes once.  A lease may be     *)
(* taken over from a run that does not know, and be called off.            *)
(***************************************************************************)
EXTENDS Naturals

CONSTANTS Monitor, Worker, NoLease

VARIABLES
  issued,      \* leases granted so far
  holder,      \* the lease of each monitor, or NoLease
  running,     \* the lease each worker believes to hold
  published,   \* leases whose reports each monitor still has
  withdrawn    \* leases the operator has called off

vars == <<issued, holder, running, published, withdrawn>>

Init ==
  /\ issued = 0
  /\ holder = [m \in Monitor |-> NoLease]
  /\ running = [w \in Worker |-> NoLease]
  /\ published = [m \in Monitor |-> {}]
  /\ withdrawn = {}

Acquire(w, m) ==
  /\ issued' = issued + 1
  /\ running[w] = NoLease
  /\ holder' = [holder EXCEPT ![m] = issued']
  /\ running' = [running EXCEPT ![w] = issued']
  /\ UNCHANGED <<published, withdrawn>>

(* Old reports of any monitor may go at the same time. *)
Publish(w, m) ==
  /\ holder[m] # NoLease
  /\ holder[m] = running[w]
  /\ running' = [running EXCEPT ![w] = NoLease]
  /\ holder' = [holder EXCEPT ![m] = NoLease]
  /\ \A o \in Monitor \ {m} : published'[o] \subseteq published[o]
  /\ published'[m] \subseteq published[m] \cup {running[w]}
  /\ running[w] \in published'[m]
  /\ UNCHANGED <<issued, withdrawn>>

(* A run ends unpublished.  The lease it gives back is its own. *)
GiveBack(w, m) ==
  /\ holder[m] = running[w]
  /\ running' = [running EXCEPT ![w] = NoLease]
  /\ holder' = [holder EXCEPT ![m] = NoLease]
  /\ UNCHANGED <<issued, published, withdrawn>>

Vanish(w) ==
  /\ running[w] # NoLease
  /\ running' = [running EXCEPT ![w] = NoLease]
  /\ UNCHANGED <<issued, holder, published, withdrawn>>

Withdraw(m) ==
  /\ holder[m] # NoLease
  /\ withdrawn' = withdrawn \cup {holder[m]}
  /\ holder' = [holder EXCEPT ![m] = NoLease]
  /\ UNCHANGED <<issued, running, published>>

Forget(m) ==
  /\ holder' = [holder EXCEPT ![m] = NoLease]
  /\ published' = [published EXCEPT ![m] = {}]
  /\ UNCHANGED <<issued, running, withdrawn>>

Next ==
  \/ \E w \in Worker, m \in Monitor : Acquire(w, m) \/ Publish(w, m) \/ GiveBack(w, m)
  \/ \E w \in Worker : Vanish(w)
  \/ \E m \in Monitor : Withdraw(m) \/ Forget(m)

Spec == Init /\ [][Next]_vars
===============================================================================
