--------------------------- MODULE Lighthouse_proofs ---------------------------
(* The slot of the Lighthouse worker, for any number of connections. *)
EXTENDS Lighthouse, TLAPS

InSlot == {"reading", "auditing"}

(* One handler at most is between taking the slot and giving it back, and  *)
(* the runner belongs to it.                                               *)
SlotInv ==
  /\ handler \in [Caller -> {"none", "queued", "reading", "auditing"}]
  /\ runner \in [Caller -> {"none"} \cup Alive \cup Exited]
  /\ busy \in BOOLEAN
  /\ \A j, k \in Caller : handler[j] \in InSlot /\ handler[k] \in InSlot => j = k
  /\ \A k \in Caller : handler[k] \in InSlot => busy
  /\ busy => \E k \in Caller : handler[k] \in InSlot
  /\ \A k \in Caller : runner[k] # "none" <=> handler[k] = "auditing"

LEMMA InitSlot == WorkerInit => SlotInv
  BY DEF WorkerInit, SlotInv, InSlot

LEMMA NextSlot == SlotInv /\ [WorkerNext]_workerVars => SlotInv'
<1> SUFFICES ASSUME SlotInv, [WorkerNext]_workerVars PROVE SlotInv'
  OBVIOUS
<1>1. ASSUME NEW k \in Caller, Dial(k) PROVE SlotInv'
  BY <1>1 DEF Dial, SlotInv, InSlot
<1>2. ASSUME NEW k \in Caller, HangUp(k) PROVE SlotInv'
  BY <1>2 DEF HangUp, SlotInv
<1>3. ASSUME NEW k \in Caller, Accept(k) PROVE SlotInv'
  <2>1. CASE busy
    BY <1>3, <2>1 DEF Accept, SlotInv, InSlot
  <2>2. CASE ~busy
    <3>1. /\ busy' = TRUE /\ handler' = [handler EXCEPT ![k] = "reading"]
          /\ runner' = runner
      BY <1>3, <2>2 DEF Accept
    <3>2. \A j \in Caller : handler[j] \notin InSlot
      BY <2>2 DEF SlotInv
    <3>3. QED
      BY <1>3, <3>1, <3>2 DEF Accept, SlotInv, InSlot
  <2>3. QED
    BY <2>1, <2>2 DEF SlotInv
<1>4. ASSUME NEW k \in Caller, Spawn(k) PROVE SlotInv'
  BY <1>4 DEF Spawn, SlotInv, InSlot, Alive
<1>5. ASSUME NEW k \in Caller, handler[k] \in InSlot, busy' = FALSE,
             handler' = [handler EXCEPT ![k] = "none"],
             runner' = [runner EXCEPT ![k] = "none"]
      PROVE  SlotInv'
  BY <1>5 DEF SlotInv, InSlot
<1>6. ASSUME NEW k \in Caller, BodyFails(k) PROVE SlotInv'
  <2>1. runner[k] = "none"
    BY <1>6 DEF BodyFails, SlotInv
  <2>2. runner' = [runner EXCEPT ![k] = "none"]
    BY <1>6, <2>1 DEF BodyFails, SlotInv
  <2>3. QED
    BY <1>5, <1>6, <2>2 DEF BodyFails, Settled, InSlot
<1>7. ASSUME NEW k \in Caller, SpawnFails(k) PROVE SlotInv'
  BY <1>5, <1>7 DEF SpawnFails, Settled, InSlot
<1>8. ASSUME NEW k \in Caller, Close(k) PROVE SlotInv'
  <2>1. handler[k] \in InSlot
    BY <1>8 DEF Close, Exited, SlotInv, InSlot
  <2>2. busy' = FALSE /\ handler' = [handler EXCEPT ![k] = "none"]
    BY <1>8 DEF Close, Settled
  <2>3. QED
    BY <1>5, <1>8, <2>1, <2>2 DEF Close
<1>9. ASSUME NEW k \in Caller, Launch(k) \/ Finish(k) \/ Fail(k) \/ Kill(k) PROVE SlotInv'
  BY <1>9 DEF Launch, Finish, Fail, Kill, Alive, Exited, SlotInv
<1>10. CASE Crash
  BY <1>10 DEF Crash, SlotInv, InSlot
<1>11. CASE UNCHANGED workerVars
  BY <1>11 DEF workerVars, SlotInv
<1>12. QED
  BY <1>1, <1>2, <1>3, <1>4, <1>6, <1>7, <1>8, <1>9, <1>10, <1>11 DEF WorkerNext, CallerStep

LEMMA SlotAlways == WorkerSpec => []SlotInv
<1>1. QED
  BY InitSlot, NextSlot, PTL DEF WorkerSpec

(* The worker never has two audits at once, whatever callers hang up and   *)
(* try again and whatever becomes of the runners.                          *)
THEOREM OneAuditAtATime == WorkerSpec => []OneAudit
<1>1. SlotInv => OneAudit
  BY DEF SlotInv, OneAudit, InSlot
<1>2. QED
  BY <1>1, SlotAlways, PTL

(* No way out of the handler leaves the busy flag set or clears it early.  *)
THEOREM BusyFlagIsTrue == WorkerSpec => []BusyIsTrue
<1>1. SlotInv => BusyIsTrue
  BY DEF SlotInv, BusyIsTrue, InSlot
<1>2. QED
  BY <1>1, SlotAlways, PTL
===============================================================================
