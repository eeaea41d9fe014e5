---------------------------- MODULE IndexNow_proofs ----------------------------
(* Machine-checked proofs about IndexNow, for every value of its constants:    *)
(* no URL is on its way twice, only a cancelled call leaves URLs pending, the  *)
(* rate limit holds in every window, and an accepted URL is sent again only    *)
(* when the window or the size of the memory allows it.                        *)
EXTENDS IndexNow, FiniteSetTheorems, WellFoundedInduction, TLAPS

-------------------------------------------------------------------------------
(* No URL is on its way twice. *)

(* The inductive invariant: what a call sends is marked as pending. *)
PendingInv ==
  /\ DOMAIN sending = Sender /\ sending = [c \in Sender |-> sending[c]]
  /\ \A c \in Sender : InFlight(c) \subseteq pending
  /\ InFlightDisjoint

LEMMA NextPending ==
  ASSUME PendingInv, [AdmissionNext]_admissionVars
  PROVE  PendingInv'
<1>1. Idle.urls = {}
  BY DEF Idle
<1>2. ASSUME NEW c \in Sender, NEW batch \in Request, Submit(c, batch)
      PROVE  PendingInv'
  <2>1. CASE UNCHANGED <<sending, pending>>
    BY <2>1 DEF PendingInv, InFlightDisjoint, InFlight
  <2>2. CASE /\ pending' = pending \cup Eligible(batch)
             /\ sending' = [sending EXCEPT ![c] = [urls |-> Eligible(batch), order |-> batch]]
    <3>1. Eligible(batch) \cap pending = {}
      BY DEF Eligible
    <3>2. sending'[c].urls = Eligible(batch) /\ \A d \in Sender : d # c => sending'[d] = sending[d]
      BY <2>2 DEF PendingInv
    <3>3. QED
      BY <2>2, <3>1, <3>2 DEF PendingInv, InFlightDisjoint, InFlight
  <2>3. QED
    BY <1>2, <2>1, <2>2 DEF Submit
<1>3. ASSUME NEW c \in Sender, Accept(c) \/ Reject(c) \/ Cancel(c)
      PROVE  PendingInv'
  <2>1. sending' = [sending EXCEPT ![c] = Idle] /\ pending \ sending[c].urls \subseteq pending'
    BY <1>3 DEF Accept, Reject, Cancel
  <2>2. sending'[c].urls = {} /\ \A d \in Sender : d # c => sending'[d] = sending[d]
    BY <1>1, <2>1 DEF PendingInv
  <2>3. QED
    BY <2>1, <2>2 DEF PendingInv, InFlightDisjoint, InFlight
<1>4. CASE Tick \/ UNCHANGED admissionVars
  BY <1>4 DEF Tick, admissionVars, PendingInv, InFlightDisjoint, InFlight
<1>5. QED
  BY <1>2, <1>3, <1>4 DEF AdmissionNext

(* However many calls overlap, and whatever becomes of them, the endpoint  *)
(* never gets the same URL from two of them at the same time.              *)
THEOREM NoUrlTwiceInFlight == AdmissionSpec => []InFlightDisjoint
<1>1. AdmissionInit => PendingInv
  BY DEF AdmissionInit, PendingInv, InFlightDisjoint, InFlight, Idle
<1>2. PendingInv => InFlightDisjoint
  BY DEF PendingInv
<1>3. QED
  BY <1>1, <1>2, NextPending, PTL DEF AdmissionSpec

(* A URL that is held back as pending is on its way or was cancelled.      *)
HeldBackInv ==
  \A u \in pending : u \in abandoned \/ \E c \in Sender : u \in InFlight(c)

LEMMA NextHeldBack ==
  ASSUME PendingInv, HeldBackInv, [AdmissionNext]_admissionVars
  PROVE  HeldBackInv'
<1>1. ASSUME NEW c \in Sender, NEW batch \in Request, Submit(c, batch)
      PROVE  HeldBackInv'
  <2>1. CASE UNCHANGED <<sending, pending>>
    BY <1>1, <2>1 DEF HeldBackInv, InFlight, Submit
  <2>2. CASE /\ pending' = pending \cup Eligible(batch)
             /\ sending' = [sending EXCEPT ![c] = [urls |-> Eligible(batch), order |-> batch]]
    <3>1. sending[c].urls = {} /\ abandoned' = abandoned
      BY <1>1 DEF Submit, Idle
    <3>2. sending'[c].urls = Eligible(batch) /\ \A d \in Sender : d # c => sending'[d] = sending[d]
      BY <2>2 DEF PendingInv
    <3>3. QED
      BY <2>2, <3>1, <3>2 DEF HeldBackInv, InFlight
  <2>3. QED
    BY <1>1, <2>1, <2>2 DEF Submit
<1>2. ASSUME NEW c \in Sender, Accept(c) \/ Reject(c) \/ Cancel(c)
      PROVE  HeldBackInv'
  <2>1. /\ sending' = [sending EXCEPT ![c] = Idle]
        /\ \/ pending' = pending \ sending[c].urls /\ abandoned' = abandoned
           \/ pending' = pending /\ abandoned' = abandoned \cup sending[c].urls
    BY <1>2 DEF Accept, Reject, Cancel
  <2>2. \A d \in Sender : d # c => sending'[d] = sending[d]
    BY <2>1 DEF PendingInv
  <2>3. ASSUME NEW u \in pending', u \notin abandoned'
        PROVE  \E d \in Sender : u \in sending'[d].urls
    <3>1. u \in pending /\ u \notin abandoned /\ u \notin sending[c].urls
      BY <2>1, <2>3
    <3>2. PICK d \in Sender : u \in sending[d].urls
      BY <3>1 DEF HeldBackInv, InFlight
    <3>3. d # c
      BY <3>1, <3>2
    <3>4. QED
      BY <2>2, <3>2, <3>3
  <2>4. QED
    BY <2>3 DEF HeldBackInv, InFlight
<1>3. CASE Tick \/ UNCHANGED admissionVars
  BY <1>3 DEF Tick, admissionVars, HeldBackInv, InFlight
<1>4. QED
  BY <1>1, <1>2, <1>3 DEF AdmissionNext

(* Nothing is held back for ever by a call that ended in an answer or an   *)
(* error: pending is what the calls are sending and what was cancelled.    *)
THEOREM PendingIsReleased == AdmissionSpec => []PendingIsInFlight
<1>1. AdmissionInit => PendingInv /\ HeldBackInv
  BY DEF AdmissionInit, PendingInv, HeldBackInv, InFlightDisjoint, InFlight, Idle
<1>2. ASSUME PendingInv, HeldBackInv PROVE PendingIsInFlight
  <2> DEFINE InFlightNow == UNION {InFlight(c) : c \in Sender}
  <2>1. \A u : u \in InFlightNow <=> \E c \in Sender : u \in InFlight(c)
    OBVIOUS
  <2>2. InFlightNow \subseteq pending
    BY <1>2, <2>1 DEF PendingInv
  <2>3. pending \subseteq InFlightNow \cup abandoned
    BY <1>2, <2>1 DEF HeldBackInv
  <2>4. QED
    BY <2>2, <2>3 DEF PendingIsInFlight
<1>3. QED
  BY <1>1, <1>2, NextPending, NextHeldBack, PTL DEF AdmissionSpec

-------------------------------------------------------------------------------
(* The rate limit. *)

LEMMA MinProperties ==
  ASSUME NEW S \in SUBSET Nat, S # {}
  PROVE  Min(S) \in S /\ \A k \in S : Min(S) <= k
<1> DEFINE T == {0..k : k \in S}
<1>1. T \subseteq FiniteSubsetsOf(Nat) /\ T # {}
  <2>1. \A k \in S : 0..k \in SUBSET Nat /\ IsFiniteSet(0..k)
    BY FS_Interval
  <2>2. QED
    BY <2>1 DEF FiniteSubsetsOf
<1>2. PICK X \in T : \A Y \in T : ~(<<Y, X>> \in StrictSubsetOrdering(Nat))
  BY <1>1, FS_StrictSubsetOrderingWellFounded, WFMin
<1>3. PICK x \in S : X = 0..x
  BY <1>2
<1>4. ASSUME NEW y \in S PROVE x <= y
  <2> SUFFICES ASSUME y < x PROVE FALSE
    BY <1>3
  <2>1. 0..y \in T /\ 0..y \subseteq 0..x /\ 0..y # 0..x
    <3>1. x \in 0..x /\ x \notin 0..y
      BY <1>3
    <3>2. QED
      BY <1>3, <3>1
  <2>2. <<0..y, X>> \in StrictSubsetOrdering(Nat)
    BY <1>3, <2>1 DEF StrictSubsetOrdering
  <2>3. QED
    BY <1>2, <2>1, <2>2
<1>5. QED
  BY <1>4 DEF Min

(* The attempts are the youngest starts, and the others have left the      *)
(* window.                                                                 *)
Youngest(log) ==
  /\ log \in Seq(Nat)
  /\ Len(log) <= Len(starts)
  /\ \A k \in 1..Len(log) : log[k] = starts[Len(starts) - Len(log) + k]
  /\ \A k \in 1..(Len(starts) - Len(log)) : starts[k] <= now - Window

RateInv ==
  /\ now \in Nat
  /\ starts \in Seq(Nat)
  /\ Youngest(attempts)
  /\ Len(attempts) <= MaxAttempts
  /\ RateLimited

(* Positions before the kept suffix but within the old one, shifted. *)
LEMMA ShiftedPosition ==
  ASSUME NEW S \in Nat, NEW L \in Nat, L <= S, NEW f \in 1..L,
         NEW n \in Nat, n = L - f + 1, NEW k \in 1..(S - n), k > S - L
  PROVE  /\ k - (S - L) \in 1..L
         /\ S - L + (k - (S - L)) = k
         /\ k - (S - L) < f
<1>1. k <= S - L + f - 1
  OBVIOUS
<1>2. k - (S - L) <= f - 1 /\ 1 <= k - (S - L)
  BY <1>1
<1>3. QED
  BY <1>2

(* Pruning keeps a suffix and drops only what has left the window. *)
LEMMA PrunedIsYoungest ==
  ASSUME RateInv
  PROVE  /\ Youngest(PrunedAttempts)
         /\ Len(PrunedAttempts) <= Len(attempts)
<1> DEFINE live == {k \in DOMAIN attempts : Young(attempts[k])}
           L == Len(attempts)
           S == Len(starts)
<1>1. /\ attempts \in Seq(Nat) /\ L \in Nat /\ S \in Nat /\ L <= S /\ DOMAIN attempts = 1..L
      /\ now \in Nat /\ Window \in Nat /\ live \in SUBSET Nat /\ starts \in Seq(Nat)
  BY IndexNowAssumption DEF RateInv, Youngest
<1>2. \A k \in 1..L : k \notin live => attempts[k] <= now - Window
  BY <1>1 DEF Young
<1>3. CASE live = {}
  <2>1. PrunedAttempts = <<>>
    BY <1>3 DEF PrunedAttempts, From
  <2>2. \A k \in 1..S : starts[k] <= now - Window
    <3> SUFFICES ASSUME NEW k \in 1..S PROVE starts[k] <= now - Window
      OBVIOUS
    <3>1. CASE k <= S - L
      BY <1>1, <3>1 DEF RateInv, Youngest
    <3>2. CASE k > S - L
      <4>1. k - (S - L) \in 1..L /\ S - L + (k - (S - L)) = k
        BY <1>1, <3>2
      <4>2. attempts[k - (S - L)] = starts[k]
        BY <4>1 DEF RateInv, Youngest
      <4>3. QED
        BY <1>2, <1>3, <4>1, <4>2
    <3>3. QED
      BY <1>1, <3>1, <3>2
  <2>3. QED
    BY <1>1, <2>1, <2>2 DEF Youngest
<1>4. CASE live # {}
  <2> DEFINE f == Min(live)
             P == SubSeq(attempts, f, L)
  <2>1. f \in 1..L /\ \A k \in live : f <= k
    BY <1>1, <1>4, MinProperties
  <2>2. PrunedAttempts = P
    BY <1>4 DEF PrunedAttempts, From
  <2> HIDE DEF f
  <2>3. /\ P \in Seq(Nat) /\ Len(P) = L - f + 1
        /\ \A k \in 1..Len(P) : P[k] = attempts[f + k - 1]
    BY SMTT(30), <1>1, <2>1
  <2> HIDE DEF P, live
  <2>4. \A k \in 1..Len(P) : P[k] = starts[S - Len(P) + k]
    <3> SUFFICES ASSUME NEW k \in 1..Len(P) PROVE P[k] = starts[S - Len(P) + k]
      OBVIOUS
    <3>1. f + k - 1 \in 1..L /\ S - L + (f + k - 1) = S - Len(P) + k
      BY <1>1, <2>1, <2>3
    <3>2. attempts[f + k - 1] = starts[S - L + (f + k - 1)]
      BY <3>1 DEF RateInv, Youngest
    <3>3. QED
      BY <2>3, <3>1, <3>2
  <2>5. \A k \in 1..(S - Len(P)) : starts[k] <= now - Window
    <3> SUFFICES ASSUME NEW k \in 1..(S - Len(P)) PROVE starts[k] <= now - Window
      OBVIOUS
    <3>1. CASE k <= S - L
      BY <1>1, <3>1 DEF RateInv, Youngest
    <3>2. CASE k > S - L
      <4> DEFINE n == Len(P)
      <4>0. n \in Nat /\ n = L - f + 1 /\ f \in 1..L /\ L \in Nat /\ S \in Nat
            /\ L <= S /\ k \in 1..(S - n)
        BY <1>1, <2>1, <2>3
      <4> HIDE DEF n, L, S
      <4>1. k - (S - L) \in 1..L /\ S - L + (k - (S - L)) = k /\ k - (S - L) < f
        BY <3>2, <4>0, ShiftedPosition
      <4> USE DEF L, S
      <4>2. attempts[k - (S - L)] = starts[k]
        BY <4>1 DEF RateInv, Youngest
      <4>3. k - (S - L) \notin live
        BY <1>1, <2>1, <4>1
      <4>4. QED
        BY <1>2, <4>1, <4>2, <4>3
    <3>3. QED
      BY <1>1, <2>1, <2>3, <3>1, <3>2
  <2>6. QED
    BY <1>1, <2>1, <2>2, <2>3, <2>4, <2>5 DEF Youngest
<1>5. QED
  BY <1>3, <1>4

(* An admitted submission keeps within the limit. *)
LEMMA AdmittedWithinLimit ==
  ASSUME RateInv, now' = now,
         Len(PrunedAttempts) < MaxAttempts,
         attempts' = Append(PrunedAttempts, now),
         starts' = Append(starts, now)
  PROVE  RateInv'
<1> DEFINE P == PrunedAttempts
           S == Len(starts)
           Around(s, j) == {k \in 1..j : s[k] > s[j] - Window}
<1>1. /\ P \in Seq(Nat) /\ Len(P) \in Nat /\ S \in Nat /\ Len(P) <= S
      /\ \A k \in 1..Len(P) : P[k] = starts[S - Len(P) + k]
      /\ \A k \in 1..(S - Len(P)) : starts[k] <= now - Window
  BY PrunedIsYoungest DEF Youngest, RateInv
<1>2. now \in Nat /\ starts \in Seq(Nat) /\ MaxAttempts \in Nat /\ Window \in Nat
  BY IndexNowAssumption DEF RateInv
<1> DEFINE p == Len(P)
           old == S - p
<1> HIDE DEF P, S
<1>3. /\ starts' \in Seq(Nat) /\ Len(starts') = S + 1 /\ starts'[S + 1] = now
      /\ \A k \in 1..S : starts'[k] = starts[k]
  BY <1>1, <1>2 DEF S
<1>4. /\ attempts' \in Seq(Nat) /\ Len(attempts') = p + 1
      /\ attempts'[p + 1] = now
      /\ \A k \in 1..p : attempts'[k] = P[k]
  BY <1>1, <1>2 DEF P
<1>5. /\ p \in Nat /\ old \in Nat /\ S \in Nat /\ old + p = S /\ p <= S
      /\ Len(starts') - Len(attempts') = old
  BY <1>1, <1>3, <1>4
<1>6. /\ \A k \in 1..p : P[k] = starts[old + k]
      /\ \A k \in 1..old : starts[k] <= now - Window
  BY <1>1
<1> HIDE DEF p, old
<1>7. Youngest(attempts)'
  <2>1. \A k \in 1..(p + 1) : attempts'[k] = starts'[old + k]
    <3> SUFFICES ASSUME NEW k \in 1..(p + 1) PROVE attempts'[k] = starts'[old + k]
      OBVIOUS
    <3>1. CASE k \in 1..p
      <4>1. old + k \in 1..S
        BY <1>5, <3>1
      <4>2. QED
        BY <1>3, <1>4, <1>6, <3>1, <4>1
    <3>2. CASE k = p + 1
      <4>1. old + k = S + 1
        BY <1>5, <3>2
      <4>2. QED
        BY <1>3, <1>4, <3>2, <4>1
    <3>3. k \in 1..p \/ k = p + 1
      BY <1>5
    <3>4. QED
      BY <3>1, <3>2, <3>3
  <2>2. \A k \in 1..old : starts'[k] <= now - Window
    <3>1. \A k \in 1..old : k \in 1..S
      BY <1>5
    <3>2. QED
      BY <1>3, <1>6, <3>1
  <2>3. Len(attempts') <= Len(starts')
    BY <1>3, <1>4, <1>5
  <2>4. QED
    BY <1>3, <1>4, <1>5, <2>1, <2>2, <2>3 DEF Youngest
<1>8. RateLimited'
  <2>0. DOMAIN starts' = 1..(S + 1)
    BY <1>3
  <2> SUFFICES ASSUME NEW j \in 1..(S + 1)
               PROVE  Cardinality(Around(starts', j)) <= MaxAttempts
    BY <2>0, Zenon DEF RateLimited
  <2>1. CASE j \in 1..S
    <3>1. Around(starts', j) = Around(starts, j)
      <4>1. \A k \in 1..j : starts'[k] = starts[k]
        BY <1>3, <1>5, <2>1
      <4>2. starts'[j] = starts[j]
        BY <1>3, <2>1
      <4>3. QED
        BY <4>1, <4>2
    <3>2. Cardinality(Around(starts, j)) <= MaxAttempts
      BY <1>2, <2>1 DEF RateInv, RateLimited, S
    <3>3. QED
      BY <3>1, <3>2
  <2>2. CASE j = S + 1
    <3> DEFINE A == Around(starts', j)
    <3>1. \A k \in A : k \in (old + 1)..(S + 1)
      <4> SUFFICES ASSUME NEW k \in 1..(S + 1), starts'[k] > now - Window
                   PROVE  k \in (old + 1)..(S + 1)
        BY <1>3, <2>2
      <4>1. CASE k \in 1..old
        <5>1. starts'[k] = starts[k] /\ starts[k] <= now - Window /\ starts[k] \in Nat
          BY SMTT(30), <1>2, <1>3, <1>5, <1>6, <4>1 DEF S
        <5>2. QED
          BY <1>2, <5>1
      <4>2. CASE k \notin 1..old
        BY <1>5, <4>2
      <4>3. QED
        BY <4>1, <4>2
    <3> HIDE DEF A
    <3>2. /\ IsFiniteSet((old + 1)..(S + 1))
          /\ Cardinality((old + 1)..(S + 1)) = p + 1
      <4>1. old + 1 \in Int /\ S + 1 \in Int /\ ~(old + 1 > S + 1)
            /\ (S + 1) - (old + 1) + 1 = p + 1
        BY <1>5
      <4>2. QED
        BY <4>1, FS_Interval
    <3>3. A \subseteq (old + 1)..(S + 1)
      BY <3>1
    <3>4. Cardinality(A) \in Nat /\ Cardinality(A) <= p + 1
      <4>1. IsFiniteSet(A) /\ Cardinality(A) <= Cardinality((old + 1)..(S + 1))
        BY <3>2, <3>3, FS_Subset
      <4>2. QED
        BY <3>2, <4>1, FS_CardinalityType
    <3>5. p + 1 <= MaxAttempts
      BY <1>2, <1>5 DEF P, p
    <3>6. Cardinality(A) <= MaxAttempts
      BY <1>2, <1>5, <3>4, <3>5
    <3>7. QED
      BY <3>6 DEF A
  <2>3. j \in 1..S \/ j = S + 1
    BY <1>5
  <2>4. QED
    BY <2>1, <2>2, <2>3
<1>9. Len(attempts') <= MaxAttempts
  BY <1>2, <1>4, <1>5 DEF P, p
<1>10. QED
  BY <1>2, <1>3, <1>7, <1>8, <1>9 DEF RateInv

LEMMA NextRate == RateInv /\ [AdmissionNext]_admissionVars => RateInv'
<1> SUFFICES ASSUME RateInv, [AdmissionNext]_admissionVars PROVE RateInv'
  OBVIOUS
<1>1. ASSUME NEW c \in Sender, NEW batch \in Request, Submit(c, batch) PROVE RateInv'
  <2>1. CASE /\ Len(PrunedAttempts) < MaxAttempts
             /\ attempts' = Append(PrunedAttempts, now) /\ starts' = Append(starts, now)
    BY <1>1, <2>1, AdmittedWithinLimit DEF Submit
  <2>2. CASE attempts' = PrunedAttempts /\ UNCHANGED starts
    <3>1. now' = now /\ starts' = starts /\ Youngest(PrunedAttempts)
      BY <1>1, <2>2, PrunedIsYoungest DEF Submit
    <3>2. Youngest(attempts)'
      BY <2>2, <3>1 DEF Youngest
    <3>3. Len(attempts') <= MaxAttempts
      <4>1. Len(attempts') <= Len(attempts) /\ Len(attempts') \in Nat /\ Len(attempts) \in Nat
        BY <2>2, <3>1, PrunedIsYoungest DEF Youngest, RateInv
      <4>2. QED
        BY <4>1, IndexNowAssumption DEF RateInv
    <3>4. QED
      BY <3>1, <3>2, <3>3 DEF RateInv, RateLimited
  <2>3. Len(PrunedAttempts) \in Nat
    BY PrunedIsYoungest DEF Youngest
  <2>4. QED
    BY <1>1, <2>1, <2>2, <2>3, IndexNowAssumption DEF Submit
<1>2. ASSUME NEW c \in Sender, Accept(c) \/ Reject(c) \/ Cancel(c) PROVE RateInv'
  BY <1>2 DEF Accept, Reject, Cancel, RateInv, RateLimited, Youngest
<1>3. CASE Tick
  <2>1. now' \in Nat /\ now' = now + 1 /\ starts' = starts /\ attempts' = attempts
    BY <1>3 DEF Tick, RateInv
  <2>2. \A k \in 1..(Len(starts) - Len(attempts)) : starts[k] <= now' - Window
    <3> SUFFICES ASSUME NEW k \in 1..(Len(starts) - Len(attempts))
                 PROVE  starts[k] <= now' - Window
      OBVIOUS
    <3>1. starts[k] <= now - Window /\ starts[k] \in Nat
      BY DEF RateInv, Youngest
    <3>2. QED
      BY <2>1, <3>1, IndexNowAssumption DEF RateInv
  <2>3. QED
    BY <2>1, <2>2 DEF RateInv, RateLimited, Youngest
<1>4. CASE UNCHANGED admissionVars
  BY <1>4 DEF admissionVars, RateInv, RateLimited, Youngest
<1>5. QED
  BY <1>1, <1>2, <1>3, <1>4 DEF AdmissionNext

(* Every window of the configured length sees at most the configured       *)
(* number of submissions, for every window, limit and number of calls.     *)
THEOREM RateLimitHolds == AdmissionSpec => []RateLimited
<1>1. AdmissionInit => RateInv
  BY IndexNowAssumption DEF AdmissionInit, RateInv, Youngest, RateLimited
<1>2. RateInv => RateLimited
  BY DEF RateInv
<1>3. QED
  BY <1>1, <1>2, NextRate, PTL DEF AdmissionSpec

-------------------------------------------------------------------------------
(* The memory of accepted URLs. *)

(* The n-th smallest member of a set of positions. *)
LEMMA NthProperties ==
  ASSUME NEW len \in Nat, NEW ks \in SUBSET (1..len)
  PROVE  /\ IsFiniteSet(ks) /\ Cardinality(ks) \in Nat
         /\ \A m \in 1..Cardinality(ks) : Nth(ks, m) \in ks
         /\ \A k \in ks : \E m \in 1..Cardinality(ks) : Nth(ks, m) = k
         /\ \A l, m \in 1..Cardinality(ks) : l < m => Nth(ks, l) < Nth(ks, m)
<1> DEFINE UpTo(k) == {j \in ks : j <= k}
           N == Cardinality(ks)
           rank == [k \in ks |-> Cardinality(UpTo(k))]
<1>1. IsFiniteSet(ks) /\ N \in Nat
  <2>1. IsFiniteSet(1..len)
    BY FS_Interval
  <2>2. IsFiniteSet(ks)
    BY <2>1, FS_Subset
  <2>3. QED
    BY <2>2, FS_CardinalityType
<1>0. \A k \in ks : k \in Int
  OBVIOUS
<1>2. ASSUME NEW k \in ks
      PROVE  IsFiniteSet(UpTo(k)) /\ Cardinality(UpTo(k)) \in 1..N
  <2>1. UpTo(k) \in SUBSET ks /\ k \in UpTo(k)
    OBVIOUS
  <2>2. IsFiniteSet(UpTo(k)) /\ Cardinality(UpTo(k)) <= N
    BY <1>1, <2>1, FS_Subset
  <2>3. Cardinality(UpTo(k)) \in Nat
    BY <2>2, FS_CardinalityType
  <2>4. Cardinality(UpTo(k)) # 0
    BY <2>1, <2>2, FS_EmptySet
  <2>5. QED
    BY <1>1, <2>2, <2>3, <2>4
<1>3. ASSUME NEW k \in ks, NEW j \in ks, k < j
      PROVE  Cardinality(UpTo(k)) < Cardinality(UpTo(j))
  <2>0. k \in Int /\ j \in Int /\ \A i \in ks : i \in Int
    BY <1>0
  <2>1. UpTo(k) \in SUBSET UpTo(j) /\ j \in UpTo(j) /\ j \notin UpTo(k)
    <3>1. \A i \in ks : i <= k => i <= j
      BY <1>3, <2>0
    <3>2. j <= j /\ ~(j <= k)
      BY <1>3, <2>0
    <3>3. QED
      BY <3>1, <3>2
  <2>2. /\ Cardinality(UpTo(k)) <= Cardinality(UpTo(j))
        /\ Cardinality(UpTo(k)) # Cardinality(UpTo(j))
    BY <1>2, <2>1, FS_Subset
  <2>3. Cardinality(UpTo(k)) \in Nat /\ Cardinality(UpTo(j)) \in Nat
    BY <1>2
  <2>4. QED
    BY <2>2, <2>3
<1>4. rank \in Surjection(ks, 1..N)
  <2>1. \A k \in ks : rank[k] \in 1..N
    BY <1>2
  <2>2. \A k, j \in ks : rank[k] = rank[j] => k = j
    <3> SUFFICES ASSUME NEW k \in ks, NEW j \in ks, k # j PROVE rank[k] # rank[j]
      OBVIOUS
    <3>1. k < j \/ j < k
      OBVIOUS
    <3>2. rank[k] \in Int /\ rank[j] \in Int
      BY <2>1, <1>1
    <3>3. QED
      BY <1>3, <3>1, <3>2
  <2>3. rank \in Injection(ks, 1..N)
    BY <2>1, <2>2 DEF Injection, IsInjective
  <2>4. IsFiniteSet(1..N) /\ Cardinality(1..N) = N
    BY <1>1, FS_Interval
  <2>5. QED
    BY <2>3, <2>4, FS_Injection
<1>5. ASSUME NEW m \in 1..N
      PROVE  Nth(ks, m) \in ks /\ Cardinality(UpTo(Nth(ks, m))) = m
  <2>1. \E k \in ks : Cardinality(UpTo(k)) = m
    BY <1>4 DEF Surjection
  <2>2. QED
    BY <2>1 DEF Nth
<1> HIDE DEF UpTo, N, rank
<1>6. ASSUME NEW k \in ks PROVE \E m \in 1..N : Nth(ks, m) = k
  <2> DEFINE m == Cardinality(UpTo(k))
  <2>1. m \in 1..N /\ m \in Int
    BY <1>2
  <2>2. Nth(ks, m) \in ks /\ Cardinality(UpTo(Nth(ks, m))) = m
    BY <1>5, <2>1
  <2> HIDE DEF m
  <2>3. Cardinality(UpTo(k)) = m
    BY DEF m
  <2>4. Nth(ks, m) = k
    <3> DEFINE i == Nth(ks, m)
    <3>1. i \in ks /\ i \in Int /\ k \in Int
      BY <1>0, <2>2
    <3> HIDE DEF i
    <3>2. CASE i < k
      <4>1. Cardinality(UpTo(i)) < Cardinality(UpTo(k))
        BY <1>3, <3>1, <3>2
      <4>2. QED
        BY <2>1, <2>2, <2>3, <4>1 DEF i
    <3>3. CASE k < i
      <4>1. Cardinality(UpTo(k)) < Cardinality(UpTo(i))
        BY <1>3, <3>1, <3>3
      <4>2. QED
        BY <2>1, <2>2, <2>3, <4>1 DEF i
    <3>4. CASE i = k
      BY <3>4 DEF i
    <3>5. QED
      BY <3>1, <3>2, <3>3, <3>4
  <2>5. QED
    BY <2>1, <2>4
<1>7. ASSUME NEW l \in 1..N, NEW m \in 1..N, l < m
      PROVE  Nth(ks, l) < Nth(ks, m)
  <2>0. l \in Int /\ m \in Int
    OBVIOUS
  <2>1. /\ Nth(ks, l) \in ks /\ Nth(ks, m) \in ks
        /\ Cardinality(UpTo(Nth(ks, l))) = l /\ Cardinality(UpTo(Nth(ks, m))) = m
    BY <1>5
  <2> DEFINE a == Nth(ks, l)
             b == Nth(ks, m)
  <2>2. a \in ks /\ b \in ks /\ a \in Int /\ b \in Int
    BY <1>0, <2>1
  <2>3. Cardinality(UpTo(a)) = l /\ Cardinality(UpTo(b)) = m
    BY <2>1
  <2> HIDE DEF a, b
  <2>4. a # b
    BY <1>7, <2>0, <2>3
  <2>5. ~(b < a)
    <3> SUFFICES ASSUME b < a PROVE FALSE
      OBVIOUS
    <3>1. Cardinality(UpTo(b)) < Cardinality(UpTo(a))
      BY <1>3, <2>2
    <3>2. QED
      BY <1>7, <2>0, <2>3, <3>1
  <2>6. a < b
    BY <2>2, <2>4, <2>5
  <2>7. QED
    BY <2>6 DEF a, b
<1>8. QED
  BY <1>1, <1>5, <1>6, <1>7 DEF N

(* Selecting positions of a sequence keeps the order of what it takes. *)
LEMMA SelectedProperties ==
  ASSUME NEW T, NEW s \in Seq(T), NEW ks \in SUBSET (1..Len(s))
  PROVE  /\ Selected(s, ks) \in Seq(T)
         /\ \E h \in [1..Len(Selected(s, ks)) -> ks] :
              /\ \A n \in 1..Len(Selected(s, ks)) : Selected(s, ks)[n] = s[h[n]]
              /\ \A k \in ks : \E n \in 1..Len(Selected(s, ks)) : h[n] = k
              /\ \A l, n \in 1..Len(Selected(s, ks)) : l < n => h[l] < h[n]
<1> DEFINE N == Cardinality(ks)
           h == [n \in 1..N |-> Nth(ks, n)]
<1>1. /\ N \in Nat
      /\ \A m \in 1..N : Nth(ks, m) \in ks
      /\ \A k \in ks : \E m \in 1..N : Nth(ks, m) = k
      /\ \A l, m \in 1..N : l < m => Nth(ks, l) < Nth(ks, m)
  <2>1. Len(s) \in Nat
    OBVIOUS
  <2>2. QED
    BY <2>1, NthProperties, Zenon
<1> HIDE DEF N
<1>2. Selected(s, ks) = [n \in 1..N |-> s[Nth(ks, n)]]
  BY DEF Selected, N
<1>3. \A n \in 1..N : s[Nth(ks, n)] \in T
  <2>1. \A k \in ks : s[k] \in T
    OBVIOUS
  <2>2. QED
    BY <1>1, <2>1
<1>4. Selected(s, ks) \in Seq(T) /\ Len(Selected(s, ks)) = N
  BY <1>1, <1>2, <1>3
<1>5. /\ h \in [1..N -> ks]
      /\ \A n \in 1..N : Selected(s, ks)[n] = s[h[n]]
      /\ \A k \in ks : \E n \in 1..N : h[n] = k
      /\ \A l, n \in 1..N : l < n => h[l] < h[n]
  BY <1>1, <1>2
<1>6. QED
  BY <1>4, <1>5

(* A memory in order: it says when each of its URLs was last accepted, no URL *)
(* is in it twice, and what stands behind a URL was accepted after it.        *)
InOrder(r, acc, nw) ==
  /\ r \in Seq([url : Url, at : Int])
  /\ \A p \in 1..Len(r) : r[p].at = acc[r[p].url]
  /\ \A p, q \in 1..Len(r) : p < q => r[p].url # r[q].url /\ r[q].url \in nw[r[p].url]

(* A URL that may be sent again. *)
MayBeResent(u, acc, nw) ==
  \/ acc[u] = Never
  \/ acc[u] <= now - Window
  \/ Cardinality(nw[u]) >= MaxRecent

(* A memory that lacks only what may be sent again. *)
Recalls(r, acc, nw) ==
  \A u \in Url : MayBeResent(u, acc, nw) \/ \E p \in 1..Len(r) : r[p].url = u

History(acc, nw) ==
  /\ acc \in [Url -> Int]
  /\ nw \in [Url -> SUBSET Url]
  /\ \A u \in Url : IsFiniteSet(nw[u])

(* The calls on their way have an order without repeats that names what they *)
(* send.                                                                     *)
CallsOrdered ==
  \A c \in Sender :
    /\ sending[c].order \in Seq(Url)
    /\ IsInjective(sending[c].order)
    /\ sending[c].urls \subseteq ToSet(sending[c].order)

(* The inductive invariant. *)
MemoryInv ==
  /\ DOMAIN sending = Sender /\ sending = [c \in Sender |-> sending[c]]
  /\ now \in Nat
  /\ CallsOrdered
  /\ History(acceptedAt, newer)
  /\ InOrder(recent, acceptedAt, newer)
  /\ Recalls(recent, acceptedAt, newer)

LEMMA EntryOf ==
  ASSUME NEW r \in Seq([url : Url, at : Int]), NEW p \in 1..Len(r)
  PROVE  r[p].url \in Url /\ r[p].at \in Int
<1>1. r[p] \in [url : Url, at : Int]
  <2> DEFINE E == [url : Url, at : Int]
  <2>1. r \in Seq(E)
    OBVIOUS
  <2> HIDE DEF E
  <2>2. r[p] \in E
    BY <2>1
  <2>3. QED
    BY <2>2 DEF E
<1>2. QED
  BY <1>1

(* What stands behind a position is in the end of a memory. *)
LEMMA SuffixHas ==
  ASSUME NEW r \in Seq([url : Url, at : Int]), NEW f \in 1..(Len(r) + 1),
         NEW w, w = SubSeq(r, f, Len(r)),
         NEW p \in 1..Len(r), p >= f
  PROVE  p - f + 1 \in 1..Len(w) /\ w[p - f + 1] = r[p]
<1> DEFINE E == [url : Url, at : Int]
<1>1. r \in Seq(E) /\ Len(r) \in Nat /\ f \in Int /\ f >= 1 /\ f <= Len(r) + 1
  OBVIOUS
<1> HIDE DEF E
<1>2. Len(w) = Len(r) - f + 1 /\ \A q \in 1..Len(w) : w[q] = r[f + q - 1]
  BY SMTT(30), <1>1
<1>3. p - f + 1 \in 1..Len(w) /\ f + (p - f + 1) - 1 = p
  BY <1>1, <1>2
<1>4. QED
  BY <1>2, <1>3

(* The end of a memory in order is in order. *)
LEMMA SuffixInOrder ==
  ASSUME NEW acc, NEW nw, NEW r, InOrder(r, acc, nw),
         NEW f \in 1..(Len(r) + 1), NEW w, w = SubSeq(r, f, Len(r))
  PROVE  InOrder(w, acc, nw)
<1> DEFINE E == [url : Url, at : Int]
           L == Len(r)
<1>1. r \in Seq(E) /\ L \in Nat /\ f \in Int /\ f >= 1 /\ f <= L + 1
  BY DEF InOrder
<1> HIDE DEF E
<1>2. /\ w \in Seq(E) /\ Len(w) = L - f + 1
      /\ \A q \in 1..Len(w) : w[q] = r[f + q - 1]
  BY SMTT(30), <1>1
<1> HIDE DEF L
<1>3. \A q \in 1..Len(w) : f + q - 1 \in 1..L
  BY <1>1, <1>2
<1>5. \A p \in 1..Len(w) : w[p].at = acc[w[p].url]
  BY <1>2, <1>3 DEF InOrder, L
<1>6. ASSUME NEW p \in 1..Len(w), NEW q \in 1..Len(w), p < q
      PROVE  w[p].url # w[q].url /\ w[q].url \in nw[w[p].url]
  <2>1. f + p - 1 \in 1..L /\ f + q - 1 \in 1..L /\ f + p - 1 < f + q - 1
    <3>1. p \in Int /\ q \in Int
      OBVIOUS
    <3>2. f + p - 1 < f + q - 1
      BY <1>1, <1>6, <3>1
    <3>3. QED
      BY <1>3, <3>2
  <2>2. w[p] = r[f + p - 1] /\ w[q] = r[f + q - 1]
    BY <1>2
  <2>3. QED
    BY <2>1, <2>2 DEF InOrder, L
<1>7. QED
  BY <1>2, <1>5, <1>6 DEF InOrder, E

(* Pruning drops only what was accepted outside the window. *)
LEMMA PrunedKeeps ==
  ASSUME NEW acc, NEW nw, NEW r, now \in Nat, History(acc, nw),
         InOrder(r, acc, nw), Recalls(r, acc, nw)
  PROVE  InOrder(PrunedRecent(r), acc, nw) /\ Recalls(PrunedRecent(r), acc, nw)
<1> DEFINE live == {k \in DOMAIN r : Young(r[k].at)}
           L == Len(r)
           w == PrunedRecent(r)
<1>1. /\ r \in Seq([url : Url, at : Int]) /\ L \in Nat /\ DOMAIN r = 1..L
      /\ now \in Nat /\ Window \in Nat /\ live \in SUBSET Nat /\ live \in SUBSET (1..L)
  BY IndexNowAssumption DEF InOrder
<1>2. ASSUME NEW p \in 1..L, p \notin live
      PROVE  MayBeResent(r[p].url, acc, nw)
  <2>1. r[p].at = acc[r[p].url] /\ r[p].at \in Int
    BY EntryOf DEF InOrder
  <2>2. ~(r[p].at > now - Window)
    BY <1>1, <1>2 DEF Young
  <2>3. r[p].at <= now - Window
    BY <1>1, <2>1, <2>2
  <2>4. QED
    BY <2>1, <2>3 DEF MayBeResent
<1>3. CASE live = {}
  <2>1. w = <<>>
    BY <1>3 DEF PrunedRecent, From
  <2>2. InOrder(w, acc, nw)
    BY <2>1 DEF InOrder
  <2>3. Recalls(w, acc, nw)
    <3> SUFFICES ASSUME NEW u \in Url PROVE MayBeResent(u, acc, nw)
      BY DEF Recalls
    <3>1. CASE \E p \in 1..L : r[p].url = u
      BY <1>2, <1>3, <3>1
    <3>2. QED
      BY <3>1 DEF Recalls
  <2>4. QED
    BY <2>2, <2>3
<1>4. CASE live # {}
  <2> DEFINE f == Min(live)
  <2>1. f \in live /\ \A k \in live : f <= k
    BY <1>1, <1>4, MinProperties
  <2>2. w = SubSeq(r, f, Len(r))
    BY <1>4 DEF PrunedRecent, From
  <2> HIDE DEF f, w, live
  <2>3. f \in 1..(Len(r) + 1) /\ f \in Int
    BY <1>1, <2>1
  <2>4. InOrder(w, acc, nw)
    BY <2>2, <2>3, SuffixInOrder
  <2>5. Recalls(w, acc, nw)
    <3> SUFFICES ASSUME NEW u \in Url, ~MayBeResent(u, acc, nw)
                 PROVE  \E q \in 1..Len(w) : w[q].url = u
      BY DEF Recalls
    <3>1. PICK p \in 1..L : r[p].url = u
      BY DEF Recalls
    <3>2. p \in live
      BY <1>2, <3>1
    <3>3. p >= f
      BY <2>1, <2>3, <3>2
    <3>4. p - f + 1 \in 1..Len(w) /\ w[p - f + 1] = r[p]
      BY <1>1, <2>2, <2>3, <3>3, SuffixHas
    <3>5. QED
      BY <3>1, <3>4
  <2>6. QED
    BY <2>4, <2>5 DEF w
<1>5. QED
  BY <1>3, <1>4

(* What eviction drops has as many newer URLs behind it as the memory holds. *)
LEMMA EvictedKeeps ==
  ASSUME NEW acc, NEW nw, NEW r, History(acc, nw),
         InOrder(r, acc, nw), Recalls(r, acc, nw)
  PROVE  InOrder(Evicted(r), acc, nw) /\ Recalls(Evicted(r), acc, nw)
<1> DEFINE L == Len(r)
           two == {1, L - MaxRecent + 1}
           f == Max(two)
           w == Evicted(r)
<1>1. r \in Seq([url : Url, at : Int]) /\ L \in Nat /\ MaxRecent \in Nat \ {0}
  BY IndexNowAssumption DEF InOrder
<1>2. f \in two /\ \A x \in two : f >= x
  <2>1. CASE L - MaxRecent + 1 >= 1
    <3>1. L - MaxRecent + 1 \in two /\ \A x \in two : L - MaxRecent + 1 >= x
      BY <1>1, <2>1
    <3> HIDE DEF two
    <3>2. QED
      BY <3>1 DEF Max
  <2>2. CASE ~(L - MaxRecent + 1 >= 1)
    <3>1. 1 \in two /\ \A x \in two : 1 >= x
      BY <1>1, <2>2
    <3> HIDE DEF two
    <3>2. QED
      BY <3>1 DEF Max
  <2>3. QED
    BY <2>1, <2>2
<1>3. f \in 1..(L + 1) /\ (f = 1 \/ f = L - MaxRecent + 1) /\ f \in Int
  <2>0. f \in {1, L - MaxRecent + 1} /\ f >= 1
    BY <1>2
  <2> HIDE DEF f
  <2>1. QED
    BY <1>1, <2>0
<1>4. w = SubSeq(r, f, Len(r))
  BY DEF Evicted
<1> HIDE DEF f, w
<1>5. InOrder(w, acc, nw)
  <2>1. f \in 1..(Len(r) + 1)
    BY <1>3
  <2>2. QED
    BY <1>4, <2>1, SuffixInOrder
<1>6. ASSUME NEW p \in 1..L, p < f
      PROVE  MayBeResent(r[p].url, acc, nw)
  <2> DEFINE N == nw[r[p].url]
             behind == [n \in 1..MaxRecent |-> r[L - MaxRecent + n].url]
  <2>1. p <= L - MaxRecent /\ p \in Int
    BY <1>1, <1>3, <1>6
  <2>2. \A n \in 1..MaxRecent : /\ L - MaxRecent + n \in 1..L /\ p < L - MaxRecent + n
                                /\ n \in Int
    BY <1>1, <2>1
  <2>3. r[p].url \in Url
    BY <1>1, EntryOf
  <2>4. \A n \in 1..MaxRecent : behind[n] \in N
    BY <2>2 DEF InOrder
  <2>5. \A n, m \in 1..MaxRecent : n < m => behind[n] # behind[m]
    <3> SUFFICES ASSUME NEW n \in 1..MaxRecent, NEW m \in 1..MaxRecent, n < m
                 PROVE  r[L - MaxRecent + n].url # r[L - MaxRecent + m].url
      OBVIOUS
    <3>1. L - MaxRecent + n < L - MaxRecent + m
      BY <1>1
    <3>2. QED
      BY <2>2, <3>1 DEF InOrder
  <2>6. behind \in Injection(1..MaxRecent, N)
    <3>1. \A n, m \in 1..MaxRecent : behind[n] = behind[m] => n = m
      BY <2>2, <2>5
    <3>2. behind \in [1..MaxRecent -> N]
      BY <2>4
    <3>3. DOMAIN behind = 1..MaxRecent
      OBVIOUS
    <3> HIDE DEF behind, N
    <3>4. QED
      BY <3>1, <3>2, <3>3 DEF Injection, IsInjective
  <2>7. IsFiniteSet(N)
    BY <2>3 DEF History
  <2> HIDE DEF N, behind
  <2>8. Cardinality(1..MaxRecent) <= Cardinality(N)
    BY <2>6, <2>7, FS_Injection
  <2>9. Cardinality(1..MaxRecent) = MaxRecent
    BY <1>1, FS_Interval
  <2>10. Cardinality(N) \in Nat
    BY <2>7, FS_CardinalityType
  <2>11. QED
    BY <1>1, <2>8, <2>9, <2>10 DEF MayBeResent, N
<1>7. Recalls(w, acc, nw)
  <2> SUFFICES ASSUME NEW u \in Url, ~MayBeResent(u, acc, nw)
               PROVE  \E q \in 1..Len(w) : w[q].url = u
    BY DEF Recalls
  <2>1. PICK p \in 1..L : r[p].url = u
    BY DEF Recalls
  <2>2. p >= f
    BY <1>3, <1>6, <2>1
  <2>3. p - f + 1 \in 1..Len(w) /\ w[p - f + 1] = r[p]
    BY <1>1, <1>3, <1>4, <2>2, SuffixHas
  <2>4. QED
    BY <2>1, <2>3
<1>8. QED
  BY <1>5, <1>7 DEF w

(* What a call sends: the URLs it reserved, each once. *)
LEMMA SentProperties ==
  ASSUME CallsOrdered, NEW c \in Sender
  PROVE  /\ Sent(c) \in Seq(Url)
         /\ \A n \in 1..Len(Sent(c)) : Sent(c)[n] \in sending[c].urls
         /\ \A u \in sending[c].urls : \E n \in 1..Len(Sent(c)) : Sent(c)[n] = u
         /\ \A l, n \in 1..Len(Sent(c)) : l < n => Sent(c)[l] # Sent(c)[n]
<1> DEFINE o == sending[c].order
           ks == {k \in DOMAIN o : o[k] \in sending[c].urls}
           s == Sent(c)
<1>1. /\ o \in Seq(Url) /\ DOMAIN o = 1..Len(o)
      /\ \A i, j \in DOMAIN o : o[i] = o[j] => i = j
      /\ sending[c].urls \subseteq {o[i] : i \in DOMAIN o}
  BY DEF CallsOrdered, IsInjective, ToSet
<1>2. s = Selected(o, ks)
  BY DEF Sent
<1> HIDE DEF o
<1>3. ks \in SUBSET (1..Len(o)) /\ \A k \in ks : k \in DOMAIN o /\ k \in Int /\ o[k] \in sending[c].urls
  BY <1>1
<1>4. \A u \in sending[c].urls : \E k \in ks : o[k] = u
  BY <1>1
<1> HIDE DEF ks, s
<1>5. s \in Seq(Url)
  BY <1>1, <1>2, <1>3, SelectedProperties
<1>6. PICK h \in [1..Len(s) -> ks] :
         /\ \A n \in 1..Len(s) : s[n] = o[h[n]]
         /\ \A k \in ks : \E n \in 1..Len(s) : h[n] = k
         /\ \A l, n \in 1..Len(s) : l < n => h[l] < h[n]
  <2> DEFINE P(x) ==
        \E h \in [1..Len(x) -> ks] :
         /\ \A n \in 1..Len(x) : x[n] = o[h[n]]
         /\ \A k \in ks : \E n \in 1..Len(x) : h[n] = k
         /\ \A l, n \in 1..Len(x) : l < n => h[l] < h[n]
  <2>1. P(Selected(o, ks))
    BY <1>1, <1>3, SelectedProperties
  <2>2. P(s)
    BY <1>2, <2>1
  <2>3. QED
    BY <2>2
<1>7. \A n \in 1..Len(s) : s[n] \in sending[c].urls
  BY <1>3, <1>6
<1>8. \A u \in sending[c].urls : \E n \in 1..Len(s) : s[n] = u
  BY <1>4, <1>6
<1>9. ASSUME NEW l \in 1..Len(s), NEW n \in 1..Len(s), l < n PROVE s[l] # s[n]
  <2>1. h[l] \in ks /\ h[n] \in ks /\ h[l] < h[n] /\ h[l] \in Int /\ h[n] \in Int
    BY <1>3, <1>6, <1>9
  <2>2. h[l] # h[n]
    BY <2>1
  <2>3. QED
    BY <1>1, <1>3, <1>6, <2>1, <2>2
<1>10. QED
  BY <1>5, <1>7, <1>8, <1>9 DEF s

(* The history after an acceptance. *)
LEMMA LaterProperties ==
  ASSUME CallsOrdered, NEW c \in Sender, NEW u \in Url
  PROVE  /\ Later(c, u) \subseteq Url /\ IsFiniteSet(Later(c, u))
         /\ u \notin sending[c].urls => \A n \in 1..Len(Sent(c)) : Sent(c)[n] \in Later(c, u)
         /\ \A l, n \in 1..Len(Sent(c)) :
              l < n /\ Sent(c)[l] = u => Sent(c)[n] \in Later(c, u)
<1> DEFINE s == Sent(c)
           ks == {k \in DOMAIN s : s[k] = u}
           D == {k \in DOMAIN s : \A j \in ks : j < k}
<1>1. /\ s \in Seq(Url) /\ DOMAIN s = 1..Len(s) /\ Len(s) \in Nat
      /\ \A n \in 1..Len(s) : s[n] \in sending[c].urls
      /\ \A l, n \in 1..Len(s) : l < n => s[l] # s[n]
  BY SentProperties
<1>2. Later(c, u) = {s[k] : k \in D}
  BY DEF Later
<1> HIDE DEF s
<1>3. Later(c, u) \subseteq Url
  BY <1>1, <1>2
<1>4. IsFiniteSet(Later(c, u))
  <2>1. IsFiniteSet(D)
    <3>1. D \in SUBSET (1..Len(s)) /\ IsFiniteSet(1..Len(s))
      BY <1>1, FS_Interval
    <3> HIDE DEF D
    <3>2. QED
      BY <3>1, FS_Subset
  <2> DEFINE f == [k \in D |-> s[k]]
  <2> HIDE DEF D
  <2>2. f \in Surjection(D, Later(c, u))
    BY <1>2 DEF Surjection
  <2>3. QED
    BY <2>1, <2>2, FS_Surjection
<1>5. ASSUME u \notin sending[c].urls, NEW n \in 1..Len(s) PROVE s[n] \in Later(c, u)
  <2>1. n \in D
    BY <1>1, <1>5
  <2>2. QED
    BY <1>2, <2>1
<1>6. ASSUME NEW l \in 1..Len(s), NEW n \in 1..Len(s), l < n, s[l] = u
      PROVE  s[n] \in Later(c, u)
  <2>1. \A j \in 1..Len(s) : s[j] = u => j = l
    BY <1>1, <1>6
  <2>2. n \in D
    BY <1>1, <1>6, <2>1
  <2>3. QED
    BY <1>2, <2>2
<1>7. QED
  BY <1>3, <1>4, <1>5, <1>6 DEF s

(* Recording an acceptance keeps the memory in order and forgets nothing. *)
LEMMA RecordedKeeps ==
  ASSUME MemoryInv, NEW c \in Sender, Accept(c)
  PROVE  /\ History(acceptedAt', newer')
         /\ InOrder(Recorded(c), acceptedAt', newer')
         /\ Recalls(Recorded(c), acceptedAt', newer')
<1> DEFINE E == [url : Url, at : Int]
           sent == sending[c].urls
           s == Sent(c)
           ks == {k \in DOMAIN recent : recent[k].url \notin sent}
           old == Selected(recent, ks)
           new == [k \in DOMAIN s |-> [url |-> s[k], at |-> now]]
           r == Recorded(c)
<1>1. /\ now \in Int /\ CallsOrdered /\ sent \subseteq Url
      /\ acceptedAt \in [Url -> Int] /\ newer \in [Url -> SUBSET Url]
      /\ recent \in Seq(E) /\ DOMAIN recent = 1..Len(recent)
  <2>1. sent \subseteq Url
    <3>1. sending[c].order \in Seq(Url) /\ sent \subseteq ToSet(sending[c].order)
      BY DEF MemoryInv, CallsOrdered
    <3>2. QED
      BY <3>1 DEF ToSet
  <2>2. QED
    BY <2>1 DEF MemoryInv, History, InOrder
<1>0. /\ \A p \in 1..Len(recent) : recent[p].at = acceptedAt[recent[p].url]
      /\ \A p, q \in 1..Len(recent) : p < q =>
           recent[p].url # recent[q].url /\ recent[q].url \in newer[recent[p].url]
  BY DEF MemoryInv, InOrder
<1>2. /\ acceptedAt' = [u \in Url |-> IF u \in sent THEN now ELSE acceptedAt[u]]
      /\ newer' = [u \in Url |->
                    IF u \in sent THEN Later(c, u) ELSE newer[u] \cup Later(c, u)]
  BY DEF Accept
<1>3. /\ s \in Seq(Url) /\ DOMAIN s = 1..Len(s) /\ Len(s) \in Nat
      /\ \A n \in 1..Len(s) : s[n] \in sent
      /\ \A u \in sent : \E n \in 1..Len(s) : s[n] = u
      /\ \A l, n \in 1..Len(s) : l < n => s[l] # s[n]
  BY <1>1, SentProperties
<1>4. \A u \in Url :
        /\ Later(c, u) \subseteq Url /\ IsFiniteSet(Later(c, u))
        /\ u \notin sent => \A n \in 1..Len(s) : s[n] \in Later(c, u)
        /\ \A l, n \in 1..Len(s) : l < n /\ s[l] = u => s[n] \in Later(c, u)
  <2> SUFFICES ASSUME NEW u \in Url
      PROVE  /\ Later(c, u) \subseteq Url /\ IsFiniteSet(Later(c, u))
             /\ u \notin sent => \A n \in 1..Len(s) : s[n] \in Later(c, u)
             /\ \A l, n \in 1..Len(s) : l < n /\ s[l] = u => s[n] \in Later(c, u)
    OBVIOUS
  <2>1. QED
    BY <1>1, LaterProperties
<1>5. r = old \o new
  BY DEF Recorded
<1> HIDE DEF s, E, r, sent
<1>6. History(acceptedAt', newer')
  <2>1. acceptedAt' \in [Url -> Int] /\ newer' \in [Url -> SUBSET Url]
    BY <1>1, <1>2, <1>4
  <2>2. ASSUME NEW u \in Url PROVE IsFiniteSet(newer'[u])
    <3>1. IsFiniteSet(Later(c, u)) /\ IsFiniteSet(newer[u])
      BY <1>4 DEF MemoryInv, History
    <3>2. IsFiniteSet(newer[u] \cup Later(c, u))
      BY <3>1, FS_Union
    <3>3. QED
      BY <1>2, <3>1, <3>2
  <2>3. QED
    BY <2>1, <2>2 DEF History
<1>7. new \in Seq(E) /\ Len(new) = Len(s) /\ \A k \in 1..Len(s) : new[k].url = s[k] /\ new[k].at = now
  <2>1. \A k \in 1..Len(s) : [url |-> s[k], at |-> now] \in E
    BY <1>1, <1>3 DEF E
  <2>2. QED
    BY <1>3, <2>1
<1>8. ks \in SUBSET (1..Len(recent)) /\ \A k \in ks : k \in 1..Len(recent) /\ recent[k].url \notin sent
  BY <1>1
<1>9. \A k \in 1..Len(recent) : recent[k].url \notin sent => k \in ks
  BY <1>1
<1> HIDE DEF new, ks
<1>10. old \in Seq(E)
  BY <1>1, <1>8, SelectedProperties
<1>11. PICK h \in [1..Len(old) -> ks] :
         /\ \A n \in 1..Len(old) : old[n] = recent[h[n]]
         /\ \A k \in ks : \E n \in 1..Len(old) : h[n] = k
         /\ \A l, n \in 1..Len(old) : l < n => h[l] < h[n]
  BY <1>1, <1>8, SelectedProperties
<1> HIDE DEF old
<1> DEFINE N == Len(old)
           M == Len(s)
<1>12. N \in Nat /\ M \in Nat
  BY <1>3, <1>10
<1>13. /\ r \in Seq(E) /\ Len(r) = N + M
       /\ \A k \in 1..N : r[k] = old[k]
       /\ \A k \in 1..M : r[N + k] = new[k]
  <2>1. /\ old \o new \in Seq(E)
        /\ Len(old \o new) = Len(old) + Len(new)
        /\ \A k \in 1..Len(old) : (old \o new)[k] = old[k]
        /\ \A k \in 1..Len(new) : (old \o new)[Len(old) + k] = new[k]
    <3>1. old \in Seq(E) /\ new \in Seq(E)
      BY <1>7, <1>10
    <3>2. QED
      BY <3>1
  <2>2. QED
    BY <1>5, <1>7, <2>1
<1> HIDE DEF N, M
<1>14. \A p \in 1..Len(r) : p \in 1..N \/ (p - N \in 1..M /\ p = N + (p - N) /\ p > N)
  BY <1>12, <1>13
<1>15. \A p \in 1..N : /\ r[p] = recent[h[p]] /\ h[p] \in 1..Len(recent)
                       /\ r[p].url \notin sent /\ r[p].url \in Url
  <2>1. \A k \in 1..Len(recent) : recent[k].url \in Url
    BY <1>1, EntryOf DEF E
  <2>2. QED
    BY <1>8, <1>11, <1>13, <2>1 DEF N
<1>16. \A p \in 1..M : r[N + p].url = s[p] /\ r[N + p].at = now /\ s[p] \in sent
  BY <1>3, <1>7, <1>13 DEF M
<1>17. ASSUME NEW p \in 1..Len(r) PROVE r[p].at = acceptedAt'[r[p].url]
  <2>1. CASE p \in 1..N
    <3>1. r[p].at = acceptedAt[r[p].url]
      BY <1>0, <1>15, <2>1
    <3>2. acceptedAt'[r[p].url] = acceptedAt[r[p].url]
      BY <1>2, <1>15, <2>1
    <3>3. QED
      BY <3>1, <3>2
  <2>2. CASE p - N \in 1..M /\ p = N + (p - N)
    <3>1. r[p].url = s[p - N] /\ r[p].at = now /\ s[p - N] \in sent
      BY <1>16, <2>2
    <3>2. QED
      BY <1>1, <1>2, <3>1
  <2>3. QED
    BY <1>14, <2>1, <2>2
<1>18. ASSUME NEW p \in 1..Len(r), NEW q \in 1..Len(r), p < q
       PROVE  r[p].url # r[q].url /\ r[q].url \in newer'[r[p].url]
  <2>0. p \in Int /\ q \in Int
    OBVIOUS
  <2>1. CASE p \in 1..N /\ q \in 1..N
    <3>1. h[p] < h[q] /\ h[p] \in 1..Len(recent) /\ h[q] \in 1..Len(recent)
      BY <1>11, <1>15, <1>18, <2>1 DEF N
    <3>2. r[p].url # r[q].url /\ r[q].url \in newer[r[p].url]
      <4>1. r[p] = recent[h[p]] /\ r[q] = recent[h[q]]
        BY <1>15, <2>1
      <4>2. /\ recent[h[p]].url # recent[h[q]].url
            /\ recent[h[q]].url \in newer[recent[h[p]].url]
        BY <1>0, <3>1
      <4>3. QED
        BY <4>1, <4>2
    <3>3. newer'[r[p].url] = newer[r[p].url] \cup Later(c, r[p].url)
      BY <1>2, <1>15, <2>1
    <3>4. QED
      BY <3>2, <3>3
  <2>2. CASE p \in 1..N /\ q - N \in 1..M /\ q = N + (q - N)
    <3>1. r[q].url = s[q - N] /\ s[q - N] \in sent
      BY <1>16, <2>2
    <3>2. r[p].url \notin sent /\ r[p].url \in Url
      BY <1>15, <2>2
    <3>3. s[q - N] \in Later(c, r[p].url)
      BY <1>4, <2>2, <3>2 DEF M
    <3>4. newer'[r[p].url] = newer[r[p].url] \cup Later(c, r[p].url)
      BY <1>2, <3>2
    <3>5. QED
      BY <3>1, <3>2, <3>3, <3>4
  <2>3. CASE /\ p - N \in 1..M /\ p = N + (p - N)
             /\ q - N \in 1..M /\ q = N + (q - N)
    <3>1. /\ r[p].url = s[p - N] /\ s[p - N] \in sent
          /\ r[q].url = s[q - N] /\ s[q - N] \in sent
      BY <1>16, <2>3
    <3>2. p - N < q - N
      BY <1>12, <1>18, <2>0
    <3>3. s[p - N] # s[q - N] /\ s[q - N] \in Later(c, s[p - N])
      <4>1. s[p - N] \in Url
        BY <1>1, <3>1
      <4>2. QED
        BY <1>3, <1>4, <2>3, <3>2, <4>1 DEF M
    <3>4. newer'[s[p - N]] = Later(c, s[p - N])
      BY <1>1, <1>2, <3>1
    <3>5. QED
      BY <3>1, <3>3, <3>4
  <2>4. ~(q \in 1..N /\ p > N)
    BY <1>12, <1>18, <2>0
  <2>5. QED
    BY <1>14, <2>1, <2>2, <2>3, <2>4
<1>19. InOrder(r, acceptedAt', newer')
  BY <1>13, <1>17, <1>18 DEF InOrder, E
<1>20. Recalls(r, acceptedAt', newer')
  <2> SUFFICES ASSUME NEW u \in Url, ~MayBeResent(u, acceptedAt', newer')
               PROVE  \E p \in 1..Len(r) : r[p].url = u
    BY DEF Recalls
  <2>1. CASE u \in sent
    <3>1. PICK n \in 1..M : s[n] = u
      BY <1>3, <2>1 DEF M
    <3>2. N + n \in 1..Len(r) /\ r[N + n].url = u
      BY <1>12, <1>13, <1>16, <3>1
    <3>3. QED
      BY <3>2
  <2>2. CASE u \notin sent
    <3>1. acceptedAt'[u] = acceptedAt[u] /\ newer'[u] = newer[u] \cup Later(c, u)
      BY <1>2, <2>2
    <3>2. ~MayBeResent(u, acceptedAt, newer)
      <4>1. IsFiniteSet(newer'[u]) /\ newer[u] \in SUBSET newer'[u]
        BY <1>6, <3>1 DEF History
      <4>2. Cardinality(newer[u]) <= Cardinality(newer'[u])
        BY <4>1, FS_Subset
      <4>3. Cardinality(newer[u]) \in Nat /\ Cardinality(newer'[u]) \in Nat
        BY <4>1, FS_Subset, FS_CardinalityType
      <4>4. MaxRecent \in Nat
        BY IndexNowAssumption
      <4>5. acceptedAt[u] # Never /\ ~(acceptedAt[u] <= now - Window) /\ ~(Cardinality(newer'[u]) >= MaxRecent)
        BY <3>1 DEF MayBeResent
      <4>6. ~(Cardinality(newer[u]) >= MaxRecent)
        BY <4>2, <4>3, <4>4, <4>5
      <4>7. QED
        BY <4>5, <4>6 DEF MayBeResent
    <3>3. PICK k \in 1..Len(recent) : recent[k].url = u
      BY <3>2 DEF MemoryInv, Recalls
    <3>4. k \in ks
      BY <1>9, <2>2, <3>3
    <3>5. PICK n \in 1..N : h[n] = k
      BY <1>11, <3>4 DEF N
    <3>6. n \in 1..Len(r) /\ r[n].url = u
      BY <1>12, <1>13, <1>15, <3>3, <3>5
    <3>7. QED
      BY <3>6
  <2>3. QED
    BY <2>1, <2>2
<1>21. QED
  BY <1>6, <1>19, <1>20 DEF r

LEMMA MayBeResentLater ==
  ASSUME NEW u \in Url, MayBeResent(u, acceptedAt, newer), now \in Nat,
         History(acceptedAt, newer), acceptedAt' = acceptedAt, newer' = newer, now' = now + 1
  PROVE  MayBeResent(u, acceptedAt, newer)'
<1>1. acceptedAt[u] \in Int /\ Window \in Int
  BY IndexNowAssumption DEF History
<1>2. QED
  BY <1>1 DEF MayBeResent

(* Every step keeps the invariant of the memory. *)
LEMMA NextMemory ==
  ASSUME MemoryInv, [AdmissionNext]_admissionVars
  PROVE  MemoryInv'
<1>1. ASSUME NEW c \in Sender, NEW batch \in Request, Submit(c, batch)
      PROVE  MemoryInv'
  <2>1. /\ now' = now /\ acceptedAt' = acceptedAt /\ newer' = newer
        /\ recent' = PrunedRecent(recent)
    BY <1>1 DEF Submit
  <2>2. /\ InOrder(PrunedRecent(recent), acceptedAt, newer)
        /\ Recalls(PrunedRecent(recent), acceptedAt, newer)
    BY PrunedKeeps DEF MemoryInv
  <2>3. /\ InOrder(recent, acceptedAt, newer)'
        /\ Recalls(recent, acceptedAt, newer)'
        /\ History(acceptedAt, newer)'
    BY <2>1, <2>2 DEF MemoryInv, InOrder, Recalls, MayBeResent, History
  <2>4. DOMAIN sending' = Sender /\ sending' = [d \in Sender |-> sending'[d]] /\ CallsOrdered'
    <3>1. CASE sending' = sending
      BY <3>1 DEF MemoryInv, CallsOrdered
    <3>2. CASE sending' = [sending EXCEPT ![c] = [urls |-> Eligible(batch), order |-> batch]]
      <4>1. batch \in Seq(Url) /\ IsInjective(batch)
        BY DEF Request, SeqOf
      <4>2. Eligible(batch) \subseteq ToSet(batch)
        BY DEF Eligible
      <4>3. /\ sending'[c].urls = Eligible(batch) /\ sending'[c].order = batch
            /\ \A d \in Sender : d # c => sending'[d] = sending[d]
        BY <3>2 DEF MemoryInv
      <4>4. DOMAIN sending' = Sender /\ sending' = [d \in Sender |-> sending'[d]]
        BY <3>2 DEF MemoryInv
      <4>5. ASSUME NEW d \in Sender
            PROVE  /\ sending'[d].order \in Seq(Url)
                   /\ IsInjective(sending'[d].order)
                   /\ sending'[d].urls \subseteq ToSet(sending'[d].order)
        <5>1. CASE d = c
          BY <4>1, <4>2, <4>3, <5>1
        <5>2. CASE d # c
          BY <4>3, <5>2 DEF MemoryInv, CallsOrdered
        <5>3. QED
          BY <5>1, <5>2
      <4>6. QED
        BY <4>4, <4>5 DEF CallsOrdered
    <3>3. QED
      BY <1>1, <3>1, <3>2 DEF Submit
  <2>5. QED
    BY <2>1, <2>3, <2>4 DEF MemoryInv
<1>2. ASSUME NEW c \in Sender, Accept(c) \/ Reject(c) \/ Cancel(c)
      PROVE  DOMAIN sending' = Sender /\ sending' = [d \in Sender |-> sending'[d]] /\ CallsOrdered'
  <2>1. sending' = [sending EXCEPT ![c] = Idle]
    BY <1>2 DEF Accept, Reject, Cancel
  <2>2. /\ DOMAIN sending' = Sender /\ sending' = [d \in Sender |-> sending'[d]]
        /\ sending'[c] = Idle /\ \A d \in Sender : d # c => sending'[d] = sending[d]
    BY <2>1 DEF MemoryInv
  <2>3. Idle.order \in Seq(Url) /\ IsInjective(Idle.order) /\ Idle.urls \subseteq ToSet(Idle.order)
    BY DEF Idle, IsInjective
  <2>4. ASSUME NEW d \in Sender
        PROVE  /\ sending'[d].order \in Seq(Url)
               /\ IsInjective(sending'[d].order)
               /\ sending'[d].urls \subseteq ToSet(sending'[d].order)
    <3>1. CASE d = c
      BY <2>2, <2>3, <3>1
    <3>2. CASE d # c
      BY <2>2, <3>2 DEF MemoryInv, CallsOrdered
    <3>3. QED
      BY <3>1, <3>2
  <2>5. QED
    BY <2>2, <2>4 DEF CallsOrdered
<1>3. ASSUME NEW c \in Sender, Accept(c)
      PROVE  MemoryInv'
  <2> DEFINE r == Recorded(c)
  <2>1. /\ History(acceptedAt', newer')
        /\ InOrder(r, acceptedAt', newer') /\ Recalls(r, acceptedAt', newer')
    BY <1>3, RecordedKeeps
  <2> HIDE DEF r
  <2> DEFINE p == PrunedRecent(r)
  <2>2. InOrder(p, acceptedAt', newer') /\ Recalls(p, acceptedAt', newer')
    BY <2>1, PrunedKeeps DEF MemoryInv
  <2> HIDE DEF p
  <2>3. InOrder(Evicted(p), acceptedAt', newer') /\ Recalls(Evicted(p), acceptedAt', newer')
    BY <2>1, <2>2, EvictedKeeps
  <2>4. now' = now /\ recent' = Evicted(p)
    BY <1>3 DEF Accept, p, r
  <2>5. /\ History(acceptedAt, newer)'
        /\ InOrder(recent, acceptedAt, newer)' /\ Recalls(recent, acceptedAt, newer)'
    BY <2>1, <2>3, <2>4 DEF InOrder, Recalls, MayBeResent, History
  <2>6. QED
    BY <1>2, <1>3, <2>4, <2>5 DEF MemoryInv
<1>4. ASSUME NEW c \in Sender, Reject(c) \/ Cancel(c)
      PROVE  MemoryInv'
  <2>1. UNCHANGED <<now, recent, acceptedAt, newer>>
    BY <1>4 DEF Reject, Cancel
  <2>2. /\ History(acceptedAt, newer)'
        /\ InOrder(recent, acceptedAt, newer)' /\ Recalls(recent, acceptedAt, newer)'
    BY <2>1 DEF MemoryInv, InOrder, Recalls, MayBeResent, History
  <2>3. QED
    BY <1>2, <1>4, <2>1, <2>2 DEF MemoryInv
<1>5. CASE Tick
  <2>1. now' = now + 1 /\ UNCHANGED <<recent, sending, acceptedAt, newer>>
    BY <1>5 DEF Tick
  <2>2. Recalls(recent, acceptedAt, newer)'
    <3> SUFFICES ASSUME NEW u \in Url, ~MayBeResent(u, acceptedAt, newer)'
                 PROVE  \E q \in 1..Len(recent) : recent[q].url = u
      BY <2>1 DEF Recalls
    <3>1. ~MayBeResent(u, acceptedAt, newer)
      BY <2>1, MayBeResentLater DEF MemoryInv
    <3>2. QED
      BY <3>1 DEF MemoryInv, Recalls
  <2>3. History(acceptedAt, newer)' /\ InOrder(recent, acceptedAt, newer)'
    BY <2>1 DEF MemoryInv, InOrder, History
  <2>4. QED
    BY <2>1, <2>2, <2>3 DEF MemoryInv, CallsOrdered
<1>6. CASE UNCHANGED admissionVars
  BY <1>6 DEF admissionVars, MemoryInv, CallsOrdered, InOrder, Recalls, MayBeResent, History
<1>7. QED
  BY <1>1, <1>3, <1>4, <1>5, <1>6 DEF AdmissionNext

LEMMA AdmittedMayBeResent ==
  ASSUME MemoryInv, [AdmissionNext]_admissionVars, NEW c \in Sender, sending[c] = Idle, sending'[c] # Idle,
         NEW u \in sending'[c].urls
  PROVE  MayBeResent(u, acceptedAt, newer)
<1>1. PICK d \in Sender : (\E batch \in Request : Submit(d, batch)) \/ Accept(d) \/ Reject(d) \/ Cancel(d)
  <2>1. ~Tick /\ ~UNCHANGED admissionVars
    BY DEF Tick, admissionVars
  <2>2. QED
    BY <2>1 DEF AdmissionNext
<1>2. d = c /\ ~(Accept(d) \/ Reject(d) \/ Cancel(d))
  <2>1. \A e \in Sender : e # d => sending'[e] = sending[e]
    BY <1>1 DEF Submit, Accept, Reject, Cancel, MemoryInv
  <2>2. d = c
    BY <2>1
  <2>3. QED
    BY <2>2 DEF Accept, Reject, Cancel
<1>3. PICK batch \in Request : Submit(c, batch)
  BY <1>1, <1>2
<1>4. sending'[c].urls = Eligible(batch)
  BY <1>3 DEF Submit, MemoryInv
<1>5. u \in ToSet(batch) /\ u \notin Remembered(PrunedRecent(recent))
  BY <1>4 DEF Eligible
<1>6. u \in Url
  <2>1. batch \in Seq(Url)
    BY DEF Request, SeqOf
  <2>2. QED
    BY <1>5, <2>1 DEF ToSet
<1> DEFINE w == PrunedRecent(recent)
<1>7. Recalls(w, acceptedAt, newer) /\ InOrder(w, acceptedAt, newer)
  BY PrunedKeeps DEF MemoryInv
<1> HIDE DEF w
<1>8. DOMAIN w = 1..Len(w)
  BY <1>7 DEF InOrder
<1>9. ~(\E q \in 1..Len(w) : w[q].url = u)
  BY <1>5, <1>8 DEF Remembered, w
<1>10. QED
  BY <1>6, <1>7, <1>9 DEF Recalls

(* An accepted URL is sent again only after its time in the window, or once *)
(* the memory was filled by URLs accepted later: whatever the window, the   *)
(* size of the memory and the overlap of calls.                             *)
THEOREM RememberedUrlsAreSuppressed == AdmissionSpec => ResentOnlyAfterEviction
<1>1. AdmissionInit => MemoryInv
  <2> SUFFICES ASSUME AdmissionInit PROVE MemoryInv
    OBVIOUS
  <2>1. History(acceptedAt, newer)
    BY FS_EmptySet DEF AdmissionInit, History, Never
  <2>2. InOrder(recent, acceptedAt, newer)
    BY DEF AdmissionInit, InOrder
  <2>3. Recalls(recent, acceptedAt, newer)
    BY DEF AdmissionInit, Recalls, MayBeResent
  <2>4. CallsOrdered
    <3>1. Idle.order \in Seq(Url) /\ IsInjective(Idle.order) /\ Idle.urls \subseteq ToSet(Idle.order)
      BY DEF Idle, IsInjective
    <3>2. \A c \in Sender : sending[c] = Idle
      BY DEF AdmissionInit
    <3>3. QED
      BY <3>1, <3>2 DEF CallsOrdered
  <2>5. QED
    BY <2>1, <2>2, <2>3, <2>4 DEF AdmissionInit, MemoryInv
<1>2. ASSUME MemoryInv, [AdmissionNext]_admissionVars
      PROVE  [\A c \in Sender : sending[c] = Idle /\ sending'[c] # Idle =>
                \A u \in sending'[c].urls :
                  \/ acceptedAt[u] = Never
                  \/ acceptedAt[u] <= now - Window
                  \/ Cardinality(newer[u]) >= MaxRecent]_admissionVars
  BY <1>2, AdmittedMayBeResent DEF MayBeResent
<1>3. QED
  BY <1>1, <1>2, NextMemory, PTL DEF AdmissionSpec, ResentOnlyAfterEviction
===============================================================================
