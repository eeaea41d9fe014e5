------------------------------- MODULE IndexNow -------------------------------
(***************************************************************************)
(* Admission of IndexNow submissions to one target                         *)
(* (src/src/rankrat/services/indexnow.py): a sliding rate window, a        *)
(* bounded memory of URLs that were accepted recently, and the set of URLs *)
(* that are on their way to the endpoint.                                  *)
(*                                                                         *)
(* A call is one IndexNowService.submit in the event loop of one process.  *)
(* The lock is never held across an await, so reserving, recording and     *)
(* releasing are one step each, together with the reading of the clock     *)
(* before them; the endpoint's answer takes any time.  URLs are those      *)
(* _normalize_url returns; repeats within a request are gone               *)
(* (dict.fromkeys) and a request that fails validation changes nothing.    *)
(* The state is one process's: it starts empty.                            *)
(***************************************************************************)
EXTENDS Integers, Sequences, FiniteSets, FiniteSetsExt, SequencesExt

CONSTANTS
  Url,          \* normalized URLs of the target
  Sender,       \* concurrent submit calls
  Window,       \* rate_window_seconds
  MaxAttempts,  \* max_submissions_per_window
  MaxRecent,    \* max_dedupe_entries_per_target
  MaxBatch,     \* MAX_INDEXNOW_URLS
  MaxTime       \* bound: the clock stops here

ASSUME IndexNowAssumption ==
  /\ Window \in Nat \ {0}
  /\ MaxAttempts \in Nat \ {0}
  /\ MaxRecent \in Nat \ {0}
  /\ MaxBatch \in Nat \ {0}
  /\ MaxTime \in Nat

VARIABLES
  now,         \* the monotonic clock
  attempts,    \* times of admitted submissions, oldest first
  recent,      \* accepted URLs with their time, oldest first
  pending,     \* URLs on their way
  sending,     \* the URLs each call has reserved, and their order in its request
  starts,      \* history: times of all submissions ever admitted
  newer,       \* history: URLs accepted after the last acceptance of a URL
  acceptedAt,  \* history: when a URL was last accepted
  abandoned    \* history: URLs of calls that were cancelled

admissionVars ==
  <<now, attempts, recent, pending, sending, starts, newer, acceptedAt, abandoned>>

Never == -1

(* A call that waits for nothing. *)
Idle == [urls |-> {}, order |-> <<>>]

(* What a request can name, in its order and each URL once. *)
Request == {b \in SeqOf(Url, MaxBatch) : b # <<>> /\ IsInjective(b)}

AdmissionInit ==
  /\ now = 0
  /\ attempts = <<>>
  /\ recent = <<>>
  /\ pending = {}
  /\ sending = [c \in Sender |-> Idle]
  /\ starts = <<>>
  /\ newer = [u \in Url |-> {}]
  /\ acceptedAt = [u \in Url |-> Never]
  /\ abandoned = {}

-------------------------------------------------------------------------------
(* _prune_state: what has left the window goes, from the front. *)
YoungTooSoon(t) == t > now - Window + 1   \* mutant: the window is a second short

Young(t) == t > now - Window

From(s, ks) == IF ks = {} THEN <<>> ELSE SubSeq(s, Min(ks), Len(s))

PrunedAttempts == From(attempts, {k \in DOMAIN attempts : Young(attempts[k])})

PrunedRecent(r) == From(r, {k \in DOMAIN r : Young(r[k].at)})

Remembered(r) == {r[k].url : k \in DOMAIN r}

EligibleIfNotRecent(batch) ==        \* mutant: pending URLs are not looked at
  ToSet(batch) \ Remembered(PrunedRecent(recent))

(* The URLs of a request that are neither remembered nor on their way. *)
Eligible(batch) ==
  ToSet(batch) \ (Remembered(PrunedRecent(recent)) \cup pending)

(* _reserve_submission.  A request without eligible URLs is answered at    *)
(* once and one over the rate is refused: both only prune.                 *)
Submit(c, batch) ==
  /\ sending[c] = Idle
  /\ recent' = PrunedRecent(recent)
  /\ IF Eligible(batch) = {} \/ Len(PrunedAttempts) >= MaxAttempts
     THEN /\ attempts' = PrunedAttempts
          /\ UNCHANGED <<pending, sending, starts>>
     ELSE /\ attempts' = Append(PrunedAttempts, now)
          /\ pending' = pending \cup Eligible(batch)
          /\ sending' = [sending EXCEPT ![c] = [urls |-> Eligible(batch), order |-> batch]]
          /\ starts' = Append(starts, now)
  /\ UNCHANGED <<now, newer, acceptedAt, abandoned>>

(* The entries of s at the positions ks, in their order. *)
Nth(ks, n) == CHOOSE k \in ks : Cardinality({j \in ks : j <= k}) = n
Selected(s, ks) == [n \in 1..Cardinality(ks) |-> s[Nth(ks, n)]]

(* recent_urls[url] = now and move_to_end, for each URL in its order. *)
Sent(c) ==
  LET order == sending[c].order
  IN Selected(order, {k \in DOMAIN order : order[k] \in sending[c].urls})

Recorded(c) ==
  Selected(recent, {k \in DOMAIN recent : recent[k].url \notin sending[c].urls})
    \o [k \in DOMAIN Sent(c) |-> [url |-> Sent(c)[k], at |-> now]]

EvictedNewest(r) ==                  \* mutant: popitem(last=True)
  SubSeq(r, 1, Min({Len(r), MaxRecent}))

(* popitem(last=False) until the memory fits. *)
Evicted(r) == SubSeq(r, Max({1, Len(r) - MaxRecent + 1}), Len(r))

(* URLs that the batch of c moves behind u. *)
Later(c, u) ==
  LET ks == {k \in DOMAIN Sent(c) : Sent(c)[k] = u}
  IN {Sent(c)[k] : k \in {k \in DOMAIN Sent(c) : \A j \in ks : j < k}}

(* The endpoint accepted: _record_success. *)
Accept(c) ==
  /\ sending[c] # Idle
  /\ recent' = Evicted(PrunedRecent(Recorded(c)))
  /\ pending' = pending \ sending[c].urls
  /\ sending' = [sending EXCEPT ![c] = Idle]
  /\ acceptedAt' = [u \in Url |-> IF u \in sending[c].urls THEN now ELSE acceptedAt[u]]
  /\ newer' = [u \in Url |->
       IF u \in sending[c].urls THEN Later(c, u) ELSE newer[u] \cup Later(c, u)]
  /\ UNCHANGED <<now, attempts, starts, abandoned>>

RejectKeeping(c) ==                  \* mutant: a failure releases nothing
  /\ sending[c] # Idle
  /\ sending' = [sending EXCEPT ![c] = Idle]
  /\ UNCHANGED <<now, attempts, recent, pending, starts, newer, acceptedAt, abandoned>>

(* Any Exception of the client (rejection, timeout, unreadable key):       *)
(* _release_pending.                                                       *)
Reject(c) ==
  /\ sending[c] # Idle
  /\ pending' = pending \ sending[c].urls
  /\ sending' = [sending EXCEPT ![c] = Idle]
  /\ UNCHANGED <<now, attempts, recent, starts, newer, acceptedAt, abandoned>>

(* The task of the call is cancelled while it waits.  CancelledError is    *)
(* not an Exception, so nothing is released.                               *)
Cancel(c) ==
  /\ sending[c] # Idle
  /\ sending' = [sending EXCEPT ![c] = Idle]
  /\ abandoned' = abandoned \cup sending[c].urls
  /\ UNCHANGED <<now, attempts, recent, pending, starts, newer, acceptedAt>>

Tick ==
  /\ now < MaxTime
  /\ now' = now + 1
  /\ UNCHANGED <<attempts, recent, pending, sending, starts, newer, acceptedAt, abandoned>>

AdmissionNext ==
  \/ Tick
  \/ \E c \in Sender :
       \/ \E batch \in Request : Submit(c, batch)
       \/ Accept(c) \/ Reject(c) \/ Cancel(c)

AdmissionSpec == AdmissionInit /\ [][AdmissionNext]_admissionVars

-------------------------------------------------------------------------------
(* Properties. *)

InFlight(c) == sending[c].urls

(* No URL is on its way twice, however the calls overlap. *)
InFlightDisjoint ==
  \A c, d \in Sender : c # d => InFlight(c) \cap InFlight(d) = {}

(* No stretch of time as long as the window sees more submissions than the *)
(* limit, failed and cancelled ones included.                              *)
RateLimited ==
  \A j \in DOMAIN starts :
    Cardinality({k \in 1..j : starts[k] > starts[j] - Window}) <= MaxAttempts

(* A URL that was accepted within the window is sent again only when at    *)
(* least as many other URLs as the memory holds were accepted after it.    *)
ResentOnlyAfterEviction ==
  [][\A c \in Sender : sending[c] = Idle /\ sending'[c] # Idle =>
       \A u \in sending'[c].urls :
         \/ acceptedAt[u] = Never
         \/ acceptedAt[u] <= now - Window
         \/ Cardinality(newer[u]) >= MaxRecent]_admissionVars

(* tests/unit/test_indexnow_service.py: the service "releases failed       *)
(* pending urls".  A URL is held back as pending exactly while a call is   *)
(* sending it; only the URLs of cancelled calls are never released.        *)
PendingIsInFlight ==
  LET InFlightNow == UNION {InFlight(c) : c \in Sender}
  IN InFlightNow \subseteq pending /\ pending \subseteq InFlightNow \cup abandoned
===============================================================================
