-------------------------- MODULE ManagedRules_proofs --------------------------
(***************************************************************************)
(* Theorems about ManagedRules, for any number of calls, keys and late     *)
(* writes: unless a ruleset is created behind Rankrat's back, the owner's  *)
(* rules stay; one process makes one rule of each key; and its receipts    *)
(* say what Cloudflare has.                                                *)
(***************************************************************************)
EXTENDS ManagedRules, FiniteSetTheorems, TLAPS

(* What was asked of a call. *)
AskedOK ==
  /\ at \in [Call -> {"idle", "reading", "writing", "answered"}]
  /\ plan \in [Call -> Write \cup {Nothing}]
  /\ asked \in [Call -> Upsert \cup Delete \cup {Nothing}]
  /\ \A c \in Call : at[c] = "writing" => plan[c] \in Write
  /\ late \subseteq Write

(* A write that names a rule names one that is not the owner's. *)
Safe(w) ==
  w.do \in {"patch", "delete"} => w.id \notin owned /\ w.id < nextId

Numbered ==
  /\ nextId \in Nat /\ nextId >= 1 /\ nextId <= MaxId + 1
  /\ \A r \in rules : r.id \in Id /\ r.id < nextId
  /\ \A i \in owned : i \in Nat /\ i < nextId

OwnerInv ==
  /\ AskedOK
  /\ Numbered
  /\ rules # {} => exists
  /\ \A r \in rules : r.id \in owned => r.key = Foreign
  /\ \A c \in Call : at[c] = "writing" => Safe(plan[c])
  /\ \A w \in late : Safe(w)
  /\ ForeignKept

LEMMA WriteCases ==
  ASSUME NEW w \in Write
  PROVE  /\ w.do \in {"put", "post", "patch", "delete"}
         /\ w.do \in {"put", "post", "patch"} => w.key \in Key
         /\ w.do \in {"patch", "delete"} => w.id \in Id
  BY DEF Write, Delete

LEMMA AskedUpsert ==
  ASSUME NEW a \in Upsert \cup Delete \cup {Nothing}, a.do = "upsert"
  PROVE  a.key \in Key /\ a.body \in Body
  BY DEF Upsert, Delete, Nothing

(* One write of Cloudflare leaves the owner's rules alone. *)
LEMMA PerformSafe ==
  ASSUME OwnerInv, NEW w \in Write, Safe(w), Perform(w), owned' = owned
  PROVE  /\ Numbered' /\ exists' /\ ForeignKept'
         /\ \A r \in rules' : r.id \in owned => r.key = Foreign
         /\ nextId <= nextId'
<1>1. w.do \in {"put", "post", "patch", "delete"}
  BY WriteCases
<1>2. rules' = After(w) /\ exists' /\ nextId' \in {nextId, nextId + 1} /\ nextId \in Nat
  BY DEF Perform, OwnerInv, Numbered
<1>0. raced => raced'
  BY DEF Perform
<1>3. CASE w.do = "post"
  <2>1. /\ rules' = rules \cup {[id |-> nextId, key |-> w.key, body |-> w.body]}
        /\ nextId' = nextId + 1 /\ nextId <= MaxId
    BY <1>3 DEF Perform, Accepts, After, Written
  <2>2. nextId \notin owned /\ nextId \in Id
    BY <1>2, <2>1, RulesAssumption DEF OwnerInv, Numbered, Id
  <2> QED
    BY <1>0, <1>2, <2>1, <2>2, RulesAssumption DEF OwnerInv, Numbered, ForeignKept, OwnersRules, Id
<1>6. CASE w.do = "put"
  <2>1. /\ rules' = {[id |-> nextId, key |-> w.key, body |-> w.body]}
        /\ nextId' = nextId + 1 /\ nextId <= MaxId
    BY <1>6 DEF Perform, Accepts, After, Written
  <2>2. nextId \notin owned /\ nextId \in Id
    BY <1>2, <2>1, RulesAssumption DEF OwnerInv, Numbered, Id
  <2>3. ForeignKept'
    <3>1. CASE exists
      BY <1>6, <3>1 DEF Perform, ForeignKept
    <3>2. CASE ~exists
      BY <1>0, <3>2 DEF OwnerInv, ForeignKept, OwnersRules
    <3> QED
      BY <3>1, <3>2
  <2> QED
    BY <1>2, <2>1, <2>2, <2>3, RulesAssumption DEF OwnerInv, Numbered, Id
<1>4. CASE w.do = "patch"
  <2>1. /\ rules' = {r \in rules : r.id # w.id} \cup {[id |-> w.id, key |-> w.key, body |-> w.body]}
        /\ nextId' = nextId
    BY <1>4 DEF Perform, After, Written
  <2>2. w.id \notin owned /\ w.id < nextId /\ w.id \in Id
    BY <1>4, WriteCases DEF Safe
  <2> QED
    BY <1>0, <1>2, <2>1, <2>2, RulesAssumption DEF OwnerInv, Numbered, ForeignKept, OwnersRules, Id
<1>5. CASE w.do = "delete"
  <2>1. rules' = {r \in rules : r.id # w.id} /\ nextId' = nextId
    BY <1>5 DEF Perform, After
  <2>2. w.id \notin owned
    BY <1>5 DEF Safe
  <2> QED
    BY <1>0, <1>2, <2>1, <2>2, RulesAssumption DEF OwnerInv, Numbered, ForeignKept, OwnersRules, Id
<1> QED
  BY <1>1, <1>3, <1>4, <1>5, <1>6

(* A step that leaves the ruleset alone, and plans at most one safe write. *)
LEMMA QuietStep ==
  ASSUME OwnerInv, UNCHANGED <<rules, exists, nextId, owned, raced>>, AskedOK',
         \A c \in Call : at'[c] = "writing" => (at[c] = "writing" /\ plan'[c] = plan[c])
                                                 \/ Safe(plan'[c]),
         \A w \in late' : w \in late \/ Safe(w)
  PROVE  OwnerInv'
  BY DEF OwnerInv, Numbered, Safe, ForeignKept, OwnersRules

LEMMA SendStep ==
  ASSUME OwnerInv, NEW c \in Call, NEW w \in Write, Safe(w), Send(c, w),
         UNCHANGED cloudflare, UNCHANGED owned, UNCHANGED raced
  PROVE  OwnerInv'
<1>1. AskedOK'
  BY DEF OwnerInv, AskedOK, Send, cloudflare
<1>2. \A d \in Call : at'[d] = "writing" => (at[d] = "writing" /\ plan'[d] = plan[d])
                                               \/ Safe(plan'[d])
  BY DEF OwnerInv, AskedOK, Send
<1> QED
  BY <1>1, <1>2, QuietStep DEF cloudflare

LEMMA EndStep ==
  ASSUME OwnerInv, NEW c \in Call, End(c), UNCHANGED <<rules, exists, nextId, owned, raced>>,
         late' = late \/ (at[c] = "writing" /\ late' = late \cup {plan[c]})
  PROVE  OwnerInv'
<1>1. AskedOK'
  BY DEF OwnerInv, AskedOK, End
<1>2. \A d \in Call : at'[d] = "writing" => at[d] = "writing" /\ plan'[d] = plan[d]
  BY DEF OwnerInv, AskedOK, End
<1>3. \A w \in late' : w \in late \/ Safe(w)
  BY DEF OwnerInv
<1> QED
  BY <1>1, <1>2, <1>3, QuietStep

LEMMA CallOwnerStep ==
  ASSUME OwnerInv, NEW c \in Call, CallStep(c)
  PROVE  OwnerInv'
<1>1. CASE Begin(c)
  <2>1. AskedOK'
    BY <1>1 DEF Begin, OwnerInv, AskedOK, cloudflare
  <2>2. \A d \in Call : at'[d] = "writing" => at[d] = "writing" /\ plan'[d] = plan[d]
    BY <1>1 DEF Begin, OwnerInv, AskedOK
  <2> QED
    BY <1>1, <2>1, <2>2, QuietStep DEF Begin, cloudflare, fate
<1>2. CASE ReadAbsent(c)
  <2> DEFINE w == [do |-> "put", key |-> asked[c].key, body |-> asked[c].body]
  <2>1. asked[c].key \in Key /\ asked[c].body \in Body
    BY <1>2, AskedUpsert DEF ReadAbsent, OwnerInv, AskedOK
  <2>2. w \in Write /\ Safe(w)
    BY <2>1 DEF Write, Safe
  <2>3. Send(c, w) /\ UNCHANGED cloudflare /\ UNCHANGED owned /\ UNCHANGED raced
    BY <1>2 DEF ReadAbsent, fate
  <2> QED
    BY <2>2, <2>3, SendStep
<1>3. CASE ReadMissing(c)
  <2> DEFINE w == [do |-> "post", key |-> asked[c].key, body |-> asked[c].body]
  <2>1. asked[c].key \in Key /\ asked[c].body \in Body
    BY <1>3, AskedUpsert DEF ReadMissing, OwnerInv, AskedOK
  <2>2. w \in Write /\ Safe(w)
    BY <2>1 DEF Write, Safe
  <2>3. Send(c, w) /\ UNCHANGED cloudflare /\ UNCHANGED owned /\ UNCHANGED raced
    BY <1>3 DEF ReadMissing, fate
  <2> QED
    BY <2>2, <2>3, SendStep
<1>4. CASE ReadDifferent(c)
  <2>1. asked[c].key \in Key /\ asked[c].body \in Body
    BY <1>4, AskedUpsert DEF ReadDifferent, OwnerInv, AskedOK
  <2>2. PICK r \in Managed(asked[c].key, rules) :
          Send(c, [do |-> "patch", id |-> r.id, key |-> asked[c].key, body |-> asked[c].body])
    BY <1>4 DEF ReadDifferent
  <2>3. r.id \notin owned /\ r.id < nextId
    BY <2>1, RulesAssumption DEF Managed, OwnerInv, Numbered
  <2> DEFINE w == [do |-> "patch", id |-> r.id, key |-> asked[c].key, body |-> asked[c].body]
  <2>4. Safe(w)
    BY <2>3 DEF Safe
  <2>5. r.id \in Id
    BY DEF Managed, OwnerInv, Numbered
  <2>6. w \in Write
    BY <2>1, <2>5 DEF Write
  <2> QED
    BY <1>4, <2>2, <2>4, <2>6, SendStep DEF ReadDifferent, fate
<1>5. CASE ReadSame(c) \/ ReadFails(c) \/ ReceiveUpsert(c) \/ ReceiveDelete(c)
  <2>1. End(c) /\ UNCHANGED <<rules, exists, nextId, owned, raced>> /\ late' = late
    BY <1>5 DEF ReadSame, ReadFails, ReceiveUpsert, ReceiveDelete, cloudflare, fate
  <2> QED
    BY <2>1, EndStep
<1>6. CASE ReadDeletable(c)
  <2>1. PICK r \in rules : r.id = asked[c].id /\ r.key # Foreign
    BY <1>6 DEF ReadDeletable
  <2>2. asked[c].do = "delete" /\ asked[c] \in Write
    BY <1>6 DEF ReadDeletable, OwnerInv, AskedOK, Upsert, Write, Nothing
  <2>3. Safe(asked[c])
    BY <2>1, <2>2 DEF Safe, OwnerInv, Numbered
  <2> QED
    BY <1>6, <2>2, <2>3, SendStep DEF ReadDeletable, fate
<1>7. CASE Apply(c)
  <2>1. plan[c] \in Write /\ Safe(plan[c]) /\ Perform(plan[c]) /\ owned' = owned
    BY <1>7 DEF Apply, OwnerInv, AskedOK
  <2>2. /\ Numbered' /\ exists' /\ ForeignKept'
        /\ \A r \in rules' : r.id \in owned => r.key = Foreign
        /\ nextId <= nextId'
    BY <2>1, PerformSafe
  <2>3. UNCHANGED <<late, plan>> /\ at' = [at EXCEPT ![c] = "answered"] /\ asked' = asked
    BY <1>7 DEF Apply
  <2>4. AskedOK'
    BY <2>3 DEF OwnerInv, AskedOK
  <2>5. \A w \in Write : Safe(w) => Safe(w)'
    <3> SUFFICES ASSUME NEW w \in Write, Safe(w) PROVE Safe(w)'
      OBVIOUS
    <3>1. w.do \in {"patch", "delete"} => w.id \in Nat
      BY WriteCases, RulesAssumption DEF Id
    <3> QED
      BY <2>1, <2>2, <3>1 DEF Safe, OwnerInv, Numbered
  <2>6. \A d \in Call : at'[d] = "writing" => Safe(plan[d])' /\ plan'[d] = plan[d]
    BY <2>3, <2>5 DEF OwnerInv, AskedOK
  <2>7. \A w \in late' : Safe(w)'
    BY <2>3, <2>5 DEF OwnerInv, AskedOK
  <2> QED
    BY <2>1, <2>2, <2>3, <2>4, <2>6, <2>7 DEF OwnerInv, Safe
<1>8. CASE GiveUp(c)
  BY <1>8, EndStep DEF GiveUp, fate
<1> QED
  BY <1>1, <1>2, <1>3, <1>4, <1>5, <1>6, <1>7, <1>8 DEF CallStep

LEMMA LateOwnerStep ==
  ASSUME OwnerInv, NEW w \in late, ApplyLate(w)
  PROVE  OwnerInv'
<1>1. UNCHANGED <<at, plan, asked, owned>> /\ late' \subseteq late
  BY DEF ApplyLate, calls
<1>2. AskedOK'
  BY <1>1 DEF OwnerInv, AskedOK
<1>3. CASE UNCHANGED <<exists, rules, nextId, raced>>
  BY <1>1, <1>2, <1>3, QuietStep
<1>4. CASE Perform(w)
  <2>1. w \in Write /\ Safe(w)
    BY DEF OwnerInv, AskedOK
  <2>2. /\ Numbered' /\ exists' /\ ForeignKept'
        /\ \A r \in rules' : r.id \in owned => r.key = Foreign
        /\ nextId <= nextId'
    BY <1>1, <1>4, <2>1, PerformSafe
  <2>3. \A v \in Write : Safe(v) => Safe(v)'
    <3> SUFFICES ASSUME NEW v \in Write, Safe(v) PROVE Safe(v)'
      OBVIOUS
    <3>1. v.do \in {"patch", "delete"} => v.id \in Nat
      BY WriteCases, RulesAssumption DEF Id
    <3> QED
      BY <1>1, <2>2, <3>1 DEF Safe, OwnerInv, Numbered
  <2>4. \A d \in Call : at'[d] = "writing" => Safe(plan[d])'
    BY <1>1, <2>3 DEF OwnerInv, AskedOK
  <2>5. \A v \in late' : Safe(v)'
    BY <1>1, <2>3 DEF OwnerInv, AskedOK
  <2> QED
    BY <1>1, <1>2, <2>2, <2>4, <2>5 DEF OwnerInv, Safe
<1> QED
  BY <1>3, <1>4 DEF ApplyLate

LEMMA ZoneOwnerStep ==
  ASSUME OwnerInv, OwnerAdds \/ OwnerRemoves
  PROVE  OwnerInv'
<1>1. UNCHANGED <<at, plan, asked, late, raced>>
  BY DEF OwnerAdds, OwnerRemoves, calls, fate
<1>2. AskedOK'
  BY <1>1 DEF OwnerInv, AskedOK
<1>3. CASE OwnerAdds
  <2>1. PICK b \in Body : rules' = rules \cup {[id |-> nextId, key |-> Foreign, body |-> b]}
    BY <1>3 DEF OwnerAdds
  <2>2. /\ exists' /\ owned' = owned \cup {nextId} /\ nextId' = nextId + 1
        /\ nextId <= MaxId /\ nextId \in Id /\ nextId \in Nat
    BY <1>3, RulesAssumption DEF OwnerAdds, OwnerInv, Numbered, Id
  <2>3. Numbered' /\ ForeignKept'
    <3> DEFINE new == [id |-> nextId, key |-> Foreign, body |-> b]
    <3>1. new \in rules' /\ rules \subseteq rules' /\ new.id = nextId
      BY <2>1
    <3>2. \A r \in rules' : r \in rules \/ r.id = nextId
      BY <2>1
    <3>3. ForeignKept'
      BY <1>1, <2>2, <3>1 DEF OwnerInv, ForeignKept, OwnersRules
    <3>4. nextId' \in Nat /\ nextId' >= 1 /\ nextId' <= MaxId + 1 /\ nextId < nextId'
      BY <2>2, RulesAssumption
    <3>5. \A r \in rules' : r.id \in Id /\ r.id < nextId'
      BY <2>2, <3>2, RulesAssumption DEF OwnerInv, Numbered, Id
    <3>6. \A i \in owned' : i \in Nat /\ i < nextId'
      BY <2>2 DEF OwnerInv, Numbered
    <3> QED
      BY <3>3, <3>4, <3>5, <3>6 DEF Numbered
  <2>4. \A r \in rules' : r.id \in owned' => r.key = Foreign
    BY <2>1, <2>2, RulesAssumption DEF OwnerInv, Numbered, Id
  <2>5. \A v \in Write : Safe(v) => Safe(v)'
    <3> SUFFICES ASSUME NEW v \in Write, Safe(v) PROVE Safe(v)'
      OBVIOUS
    <3>1. v.do \in {"patch", "delete"} => v.id \in Nat
      BY WriteCases, RulesAssumption DEF Id
    <3> QED
      BY <2>2, <3>1 DEF Safe
  <2>6. /\ \A d \in Call : at'[d] = "writing" => Safe(plan[d])'
        /\ \A v \in late' : Safe(v)'
    BY <1>1, <2>5 DEF OwnerInv, AskedOK
  <2> QED
    BY <1>1, <1>2, <2>2, <2>3, <2>4, <2>6 DEF OwnerInv, Safe
<1>4. CASE OwnerRemoves
  <2>1. PICK r \in rules : rules' = rules \ {r} /\ owned' = owned \ {r.id}
    BY <1>4 DEF OwnerRemoves
  <2>2. UNCHANGED <<exists, nextId>>
    BY <1>4 DEF OwnerRemoves
  <2> QED
    BY <1>1, <1>2, <2>1, <2>2 DEF OwnerInv, Numbered, ForeignKept, OwnersRules, Safe
<1> QED
  BY <1>3, <1>4

LEMMA InitOwner == Init => OwnerInv
  BY RulesAssumption DEF Init, OwnerInv, AskedOK, Numbered, ForeignKept, OwnersRules

LEMMA NextOwner ==
  ASSUME OwnerInv, [Next]_vars
  PROVE  OwnerInv'
<1>1. CASE UNCHANGED vars
  BY <1>1 DEF vars, cloudflare, calls, fate, OwnerInv, AskedOK, Numbered, ForeignKept, OwnersRules,
              Safe
<1> QED
  BY <1>1, CallOwnerStep, LateOwnerStep, ZoneOwnerStep DEF Next

(* docs/monitoring-and-remediation.md: Rankrat "preserves your unrelated   *)
(* rules".  It does, unless somebody creates the ruleset between Rankrat's *)
(* GET and its PUT.                                                        *)
THEOREM OwnersRulesStay == Spec => []ForeignKept
<1>1. OwnerInv => ForeignKept
  BY DEF OwnerInv
<1> QED
  BY <1>1, InitOwner, NextOwner, PTL DEF Spec

-------------------------------------------------------------------------------
(* The calls of one process, one after the other. *)

CallsInv ==
  /\ lock \in [Process -> Call \cup {NoCall}] /\ by \in [Call -> Process]
  /\ \A c \in Call : at[c] # "idle" => lock[by[c]] = c
  /\ \A c \in Call : at[c] \in {"writing", "answered"} =>
        /\ plan[c] \in Write
        /\ plan[c].do = "delete" <=> asked[c].do = "delete"

LEMMA OthersIdle ==
  ASSUME CallsInv, OneProcess, NEW c \in Call, at[c] # "idle", NEW d \in Call, d # c
  PROVE  at[d] = "idle"
  BY DEF CallsInv, OneProcess

LEMMA EndCalls ==
  ASSUME OwnerInv, CallsInv, NEW c \in Call, End(c)
  PROVE  CallsInv'
<1>1. /\ lock' \in [Process -> Call \cup {NoCall}] /\ by' = by
      /\ \A d \in Call : d # c /\ lock[by[d]] = d => lock'[by[d]] = d
  BY RulesAssumption DEF End, CallsInv
<1>2. /\ at'[c] = "idle"
      /\ \A d \in Call : d # c => at'[d] = at[d] /\ plan'[d] = plan[d] /\ asked'[d] = asked[d]
  BY DEF End, OwnerInv, AskedOK
<1> QED
  BY <1>1, <1>2 DEF CallsInv

LEMMA SendCalls ==
  ASSUME OwnerInv, CallsInv, NEW c \in Call, at[c] = "reading", NEW w \in Write, Send(c, w),
         w.do = "delete" <=> asked[c].do = "delete"
  PROVE  CallsInv'
<1>1. /\ at'[c] = "writing" /\ plan'[c] = w
      /\ \A d \in Call : d # c => at'[d] = at[d] /\ plan'[d] = plan[d]
  BY DEF Send, OwnerInv, AskedOK
<1> QED
  BY <1>1 DEF Send, CallsInv

(* What a call decides to send. *)
LEMMA Decided ==
  ASSUME OwnerInv, NEW c \in Call,
         ReadAbsent(c) \/ ReadMissing(c) \/ ReadDifferent(c) \/ ReadDeletable(c)
  PROVE  /\ at[c] = "reading" /\ UNCHANGED <<rules, late, nextId, said, strayed, owned>>
         /\ \E w \in Write :
              /\ Send(c, w) /\ (w.do = "delete" <=> asked[c].do = "delete")
              /\ w.do = "put" => ~exists
              /\ w.do = "post" => Managed(w.key, rules) = {}
              /\ w.do = "patch" => \E r \in rules : r.id = w.id /\ r.key = w.key
<1>1. /\ at[c] = "reading" /\ UNCHANGED <<rules, late, nextId, said, strayed, owned>>
  BY DEF ReadAbsent, ReadMissing, ReadDifferent, ReadDeletable, cloudflare, fate
<1>2. asked[c].do = "upsert" => asked[c].key \in Key /\ asked[c].body \in Body
  BY AskedUpsert DEF OwnerInv, AskedOK
<1>3. CASE ReadAbsent(c)
  <2> DEFINE w == [do |-> "put", key |-> asked[c].key, body |-> asked[c].body]
  <2>1. asked[c].do = "upsert" /\ w \in Write /\ Send(c, w) /\ ~exists
    BY <1>2, <1>3 DEF ReadAbsent, Write
  <2> QED
    BY <1>1, <2>1
<1>4. CASE ReadMissing(c)
  <2> DEFINE w == [do |-> "post", key |-> asked[c].key, body |-> asked[c].body]
  <2>1. /\ asked[c].do = "upsert" /\ w \in Write /\ Send(c, w)
        /\ Managed(w.key, rules) = {}
    BY <1>2, <1>4 DEF ReadMissing, Write
  <2> QED
    BY <1>1, <2>1
<1>5. CASE ReadDifferent(c)
  <2>1. PICK r \in Managed(asked[c].key, rules) :
          Send(c, [do |-> "patch", id |-> r.id, key |-> asked[c].key, body |-> asked[c].body])
    BY <1>5 DEF ReadDifferent
  <2> DEFINE w == [do |-> "patch", id |-> r.id, key |-> asked[c].key, body |-> asked[c].body]
  <2>2. r \in rules /\ r.key = asked[c].key /\ r.id \in Id
    BY DEF Managed, OwnerInv, Numbered
  <2>3. asked[c].do = "upsert" /\ w \in Write /\ Send(c, w)
    BY <1>2, <1>5, <2>1, <2>2 DEF ReadDifferent, Write
  <2> QED
    BY <1>1, <2>2, <2>3
<1>6. CASE ReadDeletable(c)
  <2>1. asked[c].do = "delete" /\ asked[c] \in Write /\ Send(c, asked[c])
    BY <1>6 DEF ReadDeletable, OwnerInv, AskedOK, Upsert, Write, Nothing
  <2> QED
    BY <1>1, <2>1
<1> QED
  BY <1>3, <1>4, <1>5, <1>6

(* What ends a call. *)
Ends(c) == ReadSame(c) \/ ReadFails(c) \/ ReceiveUpsert(c) \/ ReceiveDelete(c) \/ GiveUp(c)

LEMMA CallCalls ==
  ASSUME OwnerInv, CallsInv, NEW c \in Call, CallStep(c)
  PROVE  CallsInv'
<1>1. CASE Begin(c)
  <2>1. /\ lock[by[c]] = NoCall /\ lock' = [lock EXCEPT ![by[c]] = c]
        /\ UNCHANGED <<by, plan>>
    BY <1>1 DEF Begin
  <2>2. /\ at'[c] = "reading"
        /\ \A d \in Call : d # c => at'[d] = at[d] /\ asked'[d] = asked[d]
    BY <1>1 DEF Begin, OwnerInv, AskedOK
  <2>3. \A d \in Call : lock[by[d]] = d => by[d] # by[c]
    BY <2>1, RulesAssumption
  <2> QED
    BY <2>1, <2>2, <2>3 DEF CallsInv
<1>2. CASE ReadAbsent(c) \/ ReadMissing(c) \/ ReadDifferent(c) \/ ReadDeletable(c)
  BY <1>2, Decided, SendCalls
<1>3. CASE Ends(c)
  BY <1>3, EndCalls DEF Ends, ReadSame, ReadFails, ReceiveUpsert, ReceiveDelete, GiveUp
<1>4. CASE Apply(c)
  <2>1. /\ UNCHANGED <<lock, by, plan, asked>> /\ at[c] = "writing"
        /\ at' = [at EXCEPT ![c] = "answered"]
    BY <1>4 DEF Apply
  <2> QED
    BY <2>1 DEF CallsInv, OwnerInv, AskedOK
<1> QED
  BY <1>1, <1>2, <1>3, <1>4 DEF CallStep, Ends

LEMMA NextCalls ==
  ASSUME OwnerInv, CallsInv, [Next]_vars
  PROVE  CallsInv'
<1>1. CASE UNCHANGED calls
  BY <1>1 DEF calls, CallsInv
<1> QED
  BY <1>1, CallCalls DEF Next, vars, ApplyLate, OwnerAdds, OwnerRemoves

-------------------------------------------------------------------------------
(* A write by id keeps the key of its rule. *)

Pending(w) == w \in late \/ \E c \in Call : at[c] = "writing" /\ plan[c] = w

KeyedInv ==
  /\ \A r, s \in rules : r.id = s.id => r = s
  /\ \A w \in Write : Pending(w) /\ w.do = "patch" =>
        \A r \in rules : r.id = w.id => r.key = w.key

LEMMA PerformKeyed ==
  ASSUME OwnerInv, KeyedInv, NEW w \in Write, Pending(w), Perform(w),
         \A v \in Write : Pending(v)' => Pending(v)
  PROVE  KeyedInv'
<1>1. w.do \in {"put", "post", "patch", "delete"}
  BY WriteCases
<1>2. /\ rules' = After(w) /\ Accepts(w)
      /\ nextId \in Nat /\ \A r \in rules : r.id \in Nat /\ r.id < nextId
  BY RulesAssumption DEF Perform, OwnerInv, Numbered, Id
<1>3. \A v \in Write : Pending(v) /\ v.do = "patch" => v.id \in Nat /\ v.id < nextId
  BY WriteCases, RulesAssumption DEF Pending, OwnerInv, Safe, Id
<1>4. CASE w.do = "put" \/ w.do = "post"
  <2> DEFINE new == [id |-> nextId, key |-> w.key, body |-> w.body]
  <2>1. \A r \in rules' : r \in rules \/ r = new
    BY <1>2, <1>4 DEF After, Written
  <2> QED
    BY <1>2, <1>3, <2>1 DEF KeyedInv
<1>5. CASE w.do = "patch"
  <2> DEFINE new == [id |-> w.id, key |-> w.key, body |-> w.body]
  <2>1. rules' = {r \in rules : r.id # w.id} \cup {new}
    BY <1>2, <1>5 DEF After, Written
  <2>2. PICK r \in rules : r.id = w.id
    BY <1>2, <1>5 DEF Accepts
  <2>3. \A v \in Write : Pending(v) /\ v.do = "patch" /\ v.id = w.id => v.key = w.key
    BY <1>5, <2>2 DEF KeyedInv
  <2>4. new.id = w.id /\ new.key = w.key
    OBVIOUS
  <2> HIDE DEF new
  <2> QED
    BY <2>1, <2>3, <2>4 DEF KeyedInv
<1>6. CASE w.do = "delete"
  <2>1. rules' \subseteq rules
    BY <1>2, <1>6 DEF After
  <2> QED
    BY <2>1 DEF KeyedInv
<1> QED
  BY <1>1, <1>4, <1>5, <1>6

(* A rule that a write does not speak of is there afterwards. *)
LEMMA Spared ==
  ASSUME KeyedInv, NEW w \in Write, Pending(w), Perform(w), NEW r \in rules,
         r.key \in Key, r.key \notin Keys(w)
  PROVE  r \in rules'
<1>1. w.do \in {"put", "post", "patch", "delete"}
  BY WriteCases
<1>2. rules' = After(w)
  BY DEF Perform
<1>3. w.do # "put"
  BY DEF Keys
<1>4. CASE w.do = "post"
  BY <1>2, <1>4 DEF After
<1>5. CASE w.do = "patch"
  <2>1. r.key # w.key
    BY <1>5 DEF Keys
  <2>2. r.id # w.id
    BY <1>5, <2>1 DEF KeyedInv
  <2> QED
    BY <1>2, <1>5, <2>2 DEF After
<1>6. CASE w.do = "delete"
  <2>1. r.id # w.id
    BY <1>6 DEF Keys
  <2> QED
    BY <1>2, <1>6, <2>1 DEF After
<1> QED
  BY <1>1, <1>3, <1>4, <1>5, <1>6

LEMMA CallKeyed ==
  ASSUME OwnerInv, CallsInv, KeyedInv, NEW c \in Call, CallStep(c)
  PROVE  KeyedInv'
<1>1. CASE Begin(c)
  <2>1. UNCHANGED <<rules, late, plan>>
    BY <1>1 DEF Begin, cloudflare
  <2>2. \A d \in Call : at'[d] = "writing" => at[d] = "writing"
    BY <1>1 DEF Begin, OwnerInv, AskedOK
  <2> QED
    BY <2>1, <2>2 DEF KeyedInv, Pending
<1>2. CASE ReadAbsent(c) \/ ReadMissing(c) \/ ReadDifferent(c) \/ ReadDeletable(c)
  <2>1. UNCHANGED <<rules, late>>
    BY <1>2, Decided
  <2>2. PICK w \in Write :
          /\ Send(c, w)
          /\ w.do = "patch" => \E r \in rules : r.id = w.id /\ r.key = w.key
    BY <1>2, Decided
  <2>3. \A d \in Call : at'[d] = "writing" => (at[d] = "writing" /\ plan'[d] = plan[d])
                                                  \/ plan'[d] = w
    BY <2>2 DEF Send, OwnerInv, AskedOK
  <2>4. \A v \in Write : Pending(v)' => Pending(v) \/ v = w
    BY <2>1, <2>3 DEF Pending
  <2> QED
    BY <2>1, <2>2, <2>4 DEF KeyedInv
<1>3. CASE Ends(c)
  <2>1. /\ End(c) /\ rules' = rules
        /\ late' = late \/ (at[c] = "writing" /\ late' = late \cup {plan[c]})
    BY <1>3 DEF Ends, ReadSame, ReadFails, ReceiveUpsert, ReceiveDelete, GiveUp, cloudflare
  <2>2. \A d \in Call : at'[d] = "writing" => at[d] = "writing" /\ plan'[d] = plan[d]
    BY <2>1 DEF End, OwnerInv, AskedOK
  <2>3. \A v \in Write : Pending(v)' => Pending(v)
    BY <2>1, <2>2 DEF Pending
  <2> QED
    BY <2>1, <2>3 DEF KeyedInv
<1>4. CASE Apply(c)
  <2>1. /\ plan[c] \in Write /\ Pending(plan[c]) /\ Perform(plan[c])
        /\ UNCHANGED <<late, plan>> /\ at' = [at EXCEPT ![c] = "answered"]
    BY <1>4 DEF Apply, CallsInv, Pending
  <2>2. \A v \in Write : Pending(v)' => Pending(v)
    BY <2>1 DEF Pending, OwnerInv, AskedOK
  <2> QED
    BY <2>1, <2>2, PerformKeyed
<1> QED
  BY <1>1, <1>2, <1>3, <1>4 DEF CallStep, Ends

LEMMA NextKeyed ==
  ASSUME OwnerInv, CallsInv, KeyedInv, [Next]_vars
  PROVE  KeyedInv'
<1>1. CASE UNCHANGED <<rules, late, at, plan>>
  BY <1>1 DEF KeyedInv, Pending
<1>2. ASSUME NEW w \in late, ApplyLate(w) PROVE KeyedInv'
  <2>1. w \in Write /\ Pending(w)
    BY DEF OwnerInv, AskedOK, Pending
  <2>2. \A v \in Write : Pending(v)' => Pending(v)
    BY <1>2 DEF ApplyLate, calls, Pending
  <2>3. CASE rules' = rules
    BY <2>2, <2>3 DEF KeyedInv
  <2>4. CASE Perform(w)
    BY <2>1, <2>2, <2>4, PerformKeyed
  <2> QED
    BY <1>2, <2>3, <2>4 DEF ApplyLate
<1>3. CASE OwnerAdds
  <2>1. PICK b \in Body : rules' = rules \cup {[id |-> nextId, key |-> Foreign, body |-> b]}
    BY <1>3 DEF OwnerAdds
  <2>2. /\ nextId \in Nat /\ \A r \in rules : r.id \in Nat /\ r.id < nextId
    BY RulesAssumption DEF OwnerInv, Numbered, Id
  <2>3. \A v \in Write : Pending(v) /\ v.do = "patch" => v.id \in Nat /\ v.id < nextId
    BY WriteCases, RulesAssumption DEF Pending, OwnerInv, Safe, Id
  <2>4. \A v \in Write : Pending(v)' => Pending(v)
    BY <1>3 DEF OwnerAdds, calls, Pending
  <2> QED
    BY <2>1, <2>2, <2>3, <2>4 DEF KeyedInv
<1>4. CASE OwnerRemoves
  <2>1. rules' \subseteq rules /\ UNCHANGED <<late, at, plan>>
    BY <1>4 DEF OwnerRemoves, calls
  <2> QED
    BY <2>1 DEF KeyedInv, Pending
<1> QED
  BY <1>1, <1>2, <1>3, <1>4, CallKeyed DEF Next, vars, cloudflare, calls

-------------------------------------------------------------------------------
(* One rule of each key. *)

Single == \A r, s \in rules : r.key \in Key /\ r.key = s.key => r = s

NewIsNew ==
  \A c \in Call : at[c] = "writing" /\ plan[c].do = "post" => Managed(plan[c].key, rules) = {}

OneRuleInv == OneProcess /\ ~strayed => Single /\ NewIsNew

LEMMA ApplySingle ==
  ASSUME OwnerInv, CallsInv, KeyedInv, Single, NewIsNew, NEW c \in Call, Apply(c)
  PROVE  Single'
<1> DEFINE w == plan[c]
<1>1. /\ w \in Write /\ Pending(w) /\ Perform(w) /\ at[c] = "writing"
      /\ rules' = After(w) /\ Accepts(w)
  BY DEF Apply, CallsInv, Pending, Perform
<1>2. w.do \in {"put", "post", "patch", "delete"}
  BY <1>1, WriteCases
<1>3. CASE w.do = "put"
  <2>1. rules' = {Written(w)}
    BY <1>1, <1>3 DEF After
  <2> QED
    BY <2>1 DEF Single
<1>4. CASE w.do = "post"
  <2> DEFINE new == [id |-> nextId, key |-> w.key, body |-> w.body]
  <2>1. rules' = rules \cup {new} /\ new.key = w.key
    BY <1>1, <1>4 DEF After, Written
  <2>2. \A r \in rules : r.key # w.key
    BY <1>1, <1>4 DEF NewIsNew, Managed
  <2> HIDE DEF new
  <2> QED
    BY <2>1, <2>2 DEF Single
<1>5. CASE w.do = "patch"
  <2> DEFINE new == [id |-> w.id, key |-> w.key, body |-> w.body]
  <2>1. rules' = {r \in rules : r.id # w.id} \cup {new} /\ new.key = w.key
    BY <1>1, <1>5 DEF After, Written
  <2>2. PICK r \in rules : r.id = w.id /\ r.key = w.key
    BY <1>1, <1>5 DEF Accepts, KeyedInv
  <2>3. \A s \in rules : s.id # w.id /\ s.key \in Key => s.key # w.key
    BY <2>2 DEF Single
  <2> HIDE DEF new
  <2> QED
    BY <2>1, <2>3 DEF Single
<1>6. CASE w.do = "delete"
  <2>1. rules' \subseteq rules
    BY <1>1, <1>6 DEF After
  <2> QED
    BY <2>1 DEF Single
<1> QED
  BY <1>2, <1>3, <1>4, <1>5, <1>6

LEMMA CallOne ==
  ASSUME OwnerInv, CallsInv, KeyedInv, Single, NewIsNew, OneProcess, NEW c \in Call, CallStep(c)
  PROVE  Single' /\ NewIsNew'
<1>1. CASE Begin(c)
  <2>1. UNCHANGED <<rules, plan>>
    BY <1>1 DEF Begin, cloudflare
  <2>2. \A d \in Call : at'[d] = "writing" => at[d] = "writing"
    BY <1>1 DEF Begin, OwnerInv, AskedOK
  <2> QED
    BY <2>1, <2>2 DEF Single, NewIsNew, Managed
<1>2. CASE ReadAbsent(c) \/ ReadMissing(c) \/ ReadDifferent(c) \/ ReadDeletable(c)
  <2>1. UNCHANGED rules
    BY <1>2, Decided
  <2>2. PICK w \in Write : Send(c, w) /\ (w.do = "post" => Managed(w.key, rules) = {})
    BY <1>2, Decided
  <2>3. \A d \in Call : at'[d] = "writing" => (at[d] = "writing" /\ plan'[d] = plan[d])
                                                  \/ plan'[d] = w
    BY <2>2 DEF Send, OwnerInv, AskedOK
  <2> QED
    BY <2>1, <2>2, <2>3 DEF Single, NewIsNew, Managed
<1>3. CASE Ends(c)
  <2>1. End(c) /\ rules' = rules
    BY <1>3 DEF Ends, ReadSame, ReadFails, ReceiveUpsert, ReceiveDelete, GiveUp, cloudflare
  <2>2. \A d \in Call : at'[d] = "writing" => at[d] = "writing" /\ plan'[d] = plan[d]
    BY <2>1 DEF End, OwnerInv, AskedOK
  <2> QED
    BY <2>1, <2>2 DEF Single, NewIsNew, Managed
<1>4. CASE Apply(c)
  <2>1. at[c] = "writing" /\ at' = [at EXCEPT ![c] = "answered"]
    BY <1>4 DEF Apply
  <2>2. \A d \in Call : at'[d] # "writing"
    BY <2>1, OthersIdle DEF OwnerInv, AskedOK
  <2> QED
    BY <1>4, <2>2, ApplySingle DEF NewIsNew
<1> QED
  BY <1>1, <1>2, <1>3, <1>4 DEF CallStep, Ends

LEMMA NextOne ==
  ASSUME OwnerInv, CallsInv, KeyedInv, OneRuleInv, [Next]_vars
  PROVE  OneRuleInv'
<1> SUFFICES ASSUME OneProcess', ~strayed' PROVE Single' /\ NewIsNew'
  BY DEF OneRuleInv
<1>1. OneProcess
  BY DEF OneProcess, Next, vars, calls, CallStep, Begin, ReadAbsent, ReadMissing, ReadDifferent,
         ReadSame, ReadDeletable, ReadFails, Apply, ReceiveUpsert, ReceiveDelete, GiveUp,
         Send, End, ApplyLate, OwnerAdds, OwnerRemoves
<1>2. CASE UNCHANGED vars
  BY <1>1, <1>2 DEF vars, fate, cloudflare, calls, OneRuleInv, Single, NewIsNew, Managed
<1>3. ASSUME NEW c \in Call, CallStep(c) PROVE Single' /\ NewIsNew'
  <2>1. ~strayed
    BY <1>3 DEF CallStep, Begin, ReadAbsent, ReadMissing, ReadDifferent, ReadSame, ReadDeletable,
                ReadFails, Apply, ReceiveUpsert, ReceiveDelete, GiveUp, fate
  <2> QED
    BY <1>1, <1>3, <2>1, CallOne DEF OneRuleInv
<1>4. CASE OwnerAdds
  <2>1. PICK b \in Body : rules' = rules \cup {[id |-> nextId, key |-> Foreign, body |-> b]}
    BY <1>4 DEF OwnerAdds
  <2>2. Single /\ NewIsNew /\ UNCHANGED <<at, plan>>
    BY <1>1, <1>4 DEF OwnerAdds, OneRuleInv, fate, calls
  <2>3. \A c \in Call : at[c] = "writing" /\ plan[c].do = "post" => plan[c].key \in Key
    BY WriteCases DEF CallsInv
  <2>4. Single'
    BY <2>1, <2>2, RulesAssumption DEF Single
  <2>5. NewIsNew'
    BY <2>1, <2>2, <2>3, RulesAssumption DEF NewIsNew, Managed
  <2> QED
    BY <2>4, <2>5
<1>5. CASE OwnerRemoves
  <2>1. rules' \subseteq rules /\ Single /\ NewIsNew /\ UNCHANGED <<at, plan>>
    BY <1>1, <1>5 DEF OwnerRemoves, OneRuleInv, fate, calls
  <2> QED
    BY <2>1 DEF Single, NewIsNew, Managed
<1> QED
  BY <1>2, <1>3, <1>4, <1>5 DEF Next, ApplyLate

LEMMA InitCalls == Init => OwnerInv /\ CallsInv /\ KeyedInv
  BY InitOwner DEF Init, CallsInv, KeyedInv

(* docs/monitoring-and-remediation.md: serialized mutations stop two callers *)
(* of one process from both creating the first rule; a second one takes      *)
(* another process or a request that outlives its caller.                    *)
THEOREM OneRuleEach == Spec => []OneManagedRule
<1>1. Init => OneRuleInv
  BY DEF Init, OneRuleInv, Single, NewIsNew
<1>2. OwnerInv /\ CallsInv /\ KeyedInv /\ OneRuleInv /\ [Next]_vars
        => OwnerInv' /\ CallsInv' /\ KeyedInv' /\ OneRuleInv'
  BY NextOwner, NextCalls, NextKeyed, NextOne
<1>3. OneRuleInv => OneManagedRule
  <2> SUFFICES ASSUME Single, NEW k \in Key PROVE Cardinality(Managed(k, rules)) <= 1
    BY DEF OneRuleInv, OneManagedRule
  <2>1. CASE Managed(k, rules) = {}
    BY <2>1, FS_EmptySet
  <2>2. CASE Managed(k, rules) # {}
    <3>1. PICK r : Managed(k, rules) = {r}
      BY <2>2 DEF Managed, Single
    <3> QED
      BY <3>1, FS_Singleton
  <2> QED
    BY <2>1, <2>2
<1> QED
  BY <1>1, <1>2, <1>3, InitCalls, PTL DEF Spec

-------------------------------------------------------------------------------
(* What the receipts say. *)

(* There is a rule as the receipt says. *)
There(k, b) == \E r \in rules : r.key = k /\ r.body = b

Answered(k) == \E c \in Call : at[c] = "answered" /\ plan[c].do # "delete" /\ plan[c].key = k

SaidTyped == said \in [Key -> Body \cup {"unknown", "void"}]

(* Before a ruleset is created nothing is said of it, an answered write is *)
(* carried out unless a stranger came in between, and so is what was said. *)
PutFirst ==
  \A c \in Call : at[c] = "writing" /\ plan[c].do = "put" => \A k \in Key : said[k] \notin Body

AnswersTrue ==
  \A c \in Call : at[c] = "answered" /\ plan[c].do # "delete" =>
    said[plan[c].key] = "void" \/ There(plan[c].key, plan[c].body)

SayingsTrue == \A k \in Key : said[k] \in Body => There(k, said[k]) \/ Answered(k)

SaidInv ==
  /\ SaidTyped
  /\ OneProcess => PutFirst /\ AnswersTrue /\ SayingsTrue

(* A call that ends is the only one there is. *)
LEMMA EndSaid ==
  ASSUME OwnerInv, CallsInv, OneProcess, NEW c \in Call, at[c] # "idle", End(c), rules' = rules,
         \A k \in Key : said'[k] \in Body => There(k, said'[k])
  PROVE  PutFirst' /\ AnswersTrue' /\ SayingsTrue'
<1>1. \A d \in Call : at'[d] = "idle"
  BY OthersIdle DEF End, OwnerInv, AskedOK
<1> QED
  BY <1>1 DEF PutFirst, AnswersTrue, SayingsTrue, There

(* Forgetting, and saying no more of some keys. *)
LEMMA Silenced ==
  ASSUME SaidTyped, NEW ks, Forget(ks) \/ Void(ks)
  PROVE  /\ SaidTyped'
         /\ \A k \in Key : said'[k] \in Body => k \notin ks /\ said'[k] = said[k]
         /\ \A k \in Key : said[k] = "void" => said'[k] = "void"
         /\ Void(ks) => \A k \in Key : k \in ks => said'[k] = "void"
  BY RulesAssumption DEF SaidTyped, Forget, Void

LEMMA Spoken ==
  ASSUME SaidTyped, NEW k \in Key, NEW b \in Body \cup {"unknown"}, Say(k, b)
  PROVE  /\ SaidTyped'
         /\ \A j \in Key : j # k => said'[j] = said[j]
         /\ said[k] = "void" => said'[k] = "void"
         /\ said'[k] \in Body => said[k] # "void" /\ said'[k] = b
  BY RulesAssumption DEF SaidTyped, Say

LEMMA EndsTyped ==
  ASSUME OwnerInv, CallsInv, SaidTyped, NEW c \in Call, Ends(c)
  PROVE  SaidTyped'
<1>1. CASE ReadSame(c)
  <2>1. /\ asked[c].key \in Key /\ asked[c].body \in Body
        /\ Say(asked[c].key, asked[c].body)
    BY <1>1, AskedUpsert DEF ReadSame, OwnerInv, AskedOK
  <2> QED
    BY <2>1, Spoken
<1>2. CASE ReceiveUpsert(c)
  <2>1. plan[c] \in Write /\ plan[c].do # "delete"
    BY <1>2 DEF ReceiveUpsert, CallsInv
  <2>2. plan[c].key \in Key /\ plan[c].body \in Body
    BY <2>1 DEF Write, Delete
  <2>3. \E b \in Body \cup {"unknown"} : Say(plan[c].key, b)
    BY <1>2, <2>2 DEF ReceiveUpsert
  <2> QED
    BY <2>2, <2>3, Spoken
<1>3. CASE GiveUp(c)
  BY <1>3, Silenced DEF GiveUp
<1> QED
  BY <1>1, <1>2, <1>3 DEF Ends, ReadFails, ReceiveDelete, SaidTyped

LEMMA EndsTrue ==
  ASSUME OwnerInv, CallsInv, SaidInv, OneProcess, NEW c \in Call, Ends(c)
  PROVE  PutFirst' /\ AnswersTrue' /\ SayingsTrue'
<1>1. /\ at[c] # "idle" /\ End(c) /\ rules' = rules
  BY DEF Ends, ReadSame, ReadFails, ReceiveUpsert, ReceiveDelete, GiveUp, cloudflare
<1>2. \A k \in Key : said[k] \in Body =>
        \/ There(k, said[k])
        \/ at[c] = "answered" /\ plan[c].do # "delete" /\ plan[c].key = k
  BY <1>1, OthersIdle DEF SaidInv, SayingsTrue, Answered
<1>3. ASSUME NEW k \in Key, said'[k] \in Body PROVE There(k, said'[k])
  <2>1. CASE ReadSame(c)
    <3>1. /\ asked[c].key \in Key /\ asked[c].body \in Body /\ at[c] = "reading"
          /\ Say(asked[c].key, asked[c].body) /\ There(asked[c].key, asked[c].body)
      BY <2>1, AskedUpsert DEF ReadSame, OwnerInv, AskedOK, There, Managed
    <3> QED
      BY <1>2, <1>3, <3>1, Spoken DEF SaidInv
  <2>2. CASE ReceiveUpsert(c)
    <3>1. plan[c] \in Write /\ plan[c].do # "delete" /\ at[c] = "answered"
      BY <2>2 DEF ReceiveUpsert, CallsInv
    <3>2. plan[c].key \in Key /\ plan[c].body \in Body
      BY <3>1 DEF Write, Delete
    <3>3. \/ Say(plan[c].key, plan[c].body)
          \/ Say(plan[c].key, "unknown")
      BY <2>2 DEF ReceiveUpsert
    <3>4. CASE k = plan[c].key
      <4>1. said[k] # "void" /\ said'[k] = plan[c].body
        BY <1>3, <3>2, <3>3, <3>4, Spoken, RulesAssumption DEF SaidInv
      <4> QED
        BY <3>1, <3>4, <4>1 DEF SaidInv, AnswersTrue
    <3>5. CASE k # plan[c].key
      BY <1>2, <1>3, <3>2, <3>3, <3>5, Spoken DEF SaidInv
    <3> QED
      BY <3>4, <3>5
  <2>3. CASE ReadFails(c) \/ ReceiveDelete(c)
    <3>1. said' = said
      BY <2>3 DEF ReadFails, ReceiveDelete
    <3>2. ~(at[c] = "answered" /\ plan[c].do # "delete")
      BY <2>3 DEF ReadFails, ReceiveDelete, CallsInv
    <3> QED
      BY <1>2, <1>3, <3>1, <3>2
  <2>4. CASE GiveUp(c)
    <3>1. Forget(Keys(plan[c])) /\ plan[c] \in Write
      BY <2>4 DEF GiveUp, CallsInv
    <3>2. k \notin Keys(plan[c]) /\ said'[k] = said[k]
      BY <1>3, <3>1, Silenced DEF SaidInv
    <3>3. plan[c].do # "delete" => plan[c].key # k
      BY <3>2 DEF Keys
    <3> QED
      BY <1>2, <1>3, <3>2, <3>3
  <2> QED
    BY <2>1, <2>2, <2>3, <2>4 DEF Ends
<1> QED
  BY <1>1, <1>3, EndSaid

LEMMA ApplySaid ==
  ASSUME OwnerInv, CallsInv, KeyedInv, SaidInv, NEW c \in Call, Apply(c)
  PROVE  SaidInv'
<1> DEFINE w == plan[c]
<1>1. /\ w \in Write /\ Pending(w) /\ Perform(w) /\ at[c] = "writing"
      /\ rules' = After(w) /\ UNCHANGED <<by, plan>>
      /\ w.do = "delete" => Forget(Keys(w))
      /\ w.do # "delete" => said' = said
  BY DEF Apply, CallsInv, Pending, Perform
<1>2. /\ at'[c] = "answered"
      /\ \A d \in Call : d # c => at'[d] = at[d]
  BY DEF Apply, OwnerInv, AskedOK
<1>3. SaidTyped'
  BY <1>1, Silenced DEF SaidInv, SaidTyped
<1>4. ASSUME OneProcess PROVE PutFirst' /\ AnswersTrue' /\ SayingsTrue'
  <2>1. \A d \in Call : d # c => at[d] = "idle" /\ at'[d] = "idle"
    BY <1>1, <1>2, <1>4, OthersIdle
  <2>2. PutFirst'
    BY <1>2, <2>1 DEF PutFirst
  <2>3. AnswersTrue'
    <3>1. CASE w.do \in {"put", "post", "patch"}
      <4>1. Written(w) \in rules'
        BY <1>1, <3>1 DEF After
      <4>2. Written(w).key = w.key /\ Written(w).body = w.body
        BY DEF Written
      <4> QED
        BY <1>1, <1>2, <2>1, <4>1, <4>2 DEF AnswersTrue, There
    <3>2. CASE w.do = "delete"
      BY <1>1, <1>2, <2>1, <3>2 DEF AnswersTrue
    <3> QED
      BY <1>1, <3>1, <3>2, WriteCases
  <2>4. ASSUME NEW k \in Key, said'[k] \in Body PROVE There(k, said[k])' \/ Answered(k)'
    <3>1. said'[k] = said[k] /\ (w.do = "delete" => k \notin Keys(w))
      BY <1>1, <2>4, Silenced DEF SaidInv
    <3>2. w.do # "put"
      BY <1>1, <1>4, <2>4, <3>1 DEF SaidInv, PutFirst
    <3>3. CASE w.do # "delete" /\ w.key = k
      BY <1>1, <1>2, <3>3 DEF Answered
    <3>4. CASE ~(w.do # "delete" /\ w.key = k)
      <4>1. k \notin Keys(w)
        BY <3>1, <3>2, <3>4 DEF Keys
      <4>2. ~Answered(k)
        BY <1>1, <2>1 DEF Answered
      <4>3. PICK r \in rules : r.key = k /\ r.body = said[k]
        BY <1>4, <2>4, <3>1, <4>2 DEF SaidInv, SayingsTrue, There
      <4>4. r \in rules'
        BY <1>1, <4>1, <4>3, Spared
      <4> QED
        BY <3>1, <4>3, <4>4 DEF There
    <3> QED
      BY <3>3, <3>4
  <2> QED
    BY <2>2, <2>3, <2>4 DEF SayingsTrue
<1>5. OneProcess' <=> OneProcess
  BY <1>1 DEF OneProcess
<1> QED
  BY <1>3, <1>4, <1>5 DEF SaidInv

(* A stranger's change: the owner's, or a request nobody waits for. *)
LEMMA StrangerSaid ==
  ASSUME SaidInv, NEW ks, Void(ks), UNCHANGED <<by, at, plan>>,
         \A r \in rules : r.key \in Key /\ r.key \notin ks => r \in rules',
         \A c \in Call : at[c] = "answered" /\ plan[c].do # "delete" => plan[c].key \in Key
  PROVE  SaidInv'
<1>1. /\ SaidTyped'
      /\ \A k \in Key : said'[k] \in Body => k \notin ks /\ said'[k] = said[k]
      /\ \A k \in Key : said[k] = "void" => said'[k] = "void"
      /\ \A k \in Key : k \in ks => said'[k] = "void"
  BY Silenced DEF SaidInv
<1>2. \A b : \A k \in Key : k \notin ks /\ There(k, b) => There(k, b)'
  BY DEF There
<1>3. \A k : Answered(k)' <=> Answered(k)
  BY DEF Answered
<1>4. ASSUME OneProcess PROVE PutFirst' /\ AnswersTrue' /\ SayingsTrue'
  <2>1. PutFirst'
    BY <1>1, <1>4 DEF SaidInv, PutFirst
  <2>2. AnswersTrue'
    BY <1>1, <1>2, <1>4 DEF SaidInv, AnswersTrue
  <2>3. SayingsTrue'
    BY <1>1, <1>2, <1>3, <1>4 DEF SaidInv, SayingsTrue
  <2> QED
    BY <2>1, <2>2, <2>3
<1>5. OneProcess' <=> OneProcess
  BY DEF OneProcess
<1> QED
  BY <1>1, <1>4, <1>5 DEF SaidInv

LEMMA NextSaid ==
  ASSUME OwnerInv, CallsInv, KeyedInv, SaidInv, [Next]_vars
  PROVE  SaidInv'
<1>1. \A c \in Call : at[c] = "answered" /\ plan[c].do # "delete" => plan[c].key \in Key
  BY WriteCases DEF CallsInv
<1>2. CASE UNCHANGED <<said, rules, by, at, plan>>
  BY <1>2 DEF SaidInv, SaidTyped, OneProcess, PutFirst, AnswersTrue, SayingsTrue, There, Answered
<1>3. ASSUME NEW c \in Call, Begin(c) PROVE SaidInv'
  <2>1. /\ UNCHANGED <<said, rules, by, plan>>
        /\ \A d \in Call : at'[d] \in {"writing", "answered"} => at[d] = at'[d]
        /\ \A d \in Call : at[d] = "answered" => at'[d] = "answered"
    BY <1>3 DEF Begin, OwnerInv, AskedOK, cloudflare
  <2> QED
    BY <2>1 DEF SaidInv, SaidTyped, OneProcess, PutFirst, AnswersTrue, SayingsTrue, There, Answered
<1>4. ASSUME NEW c \in Call,
             ReadAbsent(c) \/ ReadMissing(c) \/ ReadDifferent(c) \/ ReadDeletable(c)
      PROVE  SaidInv'
  <2>1. at[c] = "reading" /\ UNCHANGED <<said, rules>>
    BY <1>4, Decided
  <2>2. PICK w \in Write : Send(c, w) /\ (w.do = "put" => ~exists)
    BY <1>4, Decided
  <2>3. /\ UNCHANGED by /\ at'[c] = "writing" /\ plan'[c] = w
        /\ \A d \in Call : d # c => at'[d] = at[d] /\ plan'[d] = plan[d]
    BY <2>2 DEF Send, OwnerInv, AskedOK
  <2>4. ASSUME OneProcess PROVE PutFirst' /\ AnswersTrue' /\ SayingsTrue'
    <3>1. \A d \in Call : d # c => at[d] = "idle"
      BY <2>1, <2>4, OthersIdle
    <3>2. \A k \in Key : said[k] \in Body => There(k, said[k])
      BY <2>1, <2>4, <3>1 DEF SaidInv, SayingsTrue, Answered
    <3>3. PutFirst'
      BY <2>1, <2>2, <2>3, <3>1, <3>2 DEF PutFirst, There, OwnerInv
    <3>4. AnswersTrue'
      BY <2>3, <3>1 DEF AnswersTrue
    <3>5. SayingsTrue'
      BY <2>1, <3>2 DEF SayingsTrue, There
    <3> QED
      BY <3>3, <3>4, <3>5
  <2> QED
    BY <2>1, <2>3, <2>4 DEF SaidInv, SaidTyped, OneProcess
<1>5. ASSUME NEW c \in Call, Ends(c) PROVE SaidInv'
  <2>1. UNCHANGED by
    BY <1>5 DEF Ends, ReadSame, ReadFails, ReceiveUpsert, ReceiveDelete, GiveUp, End
  <2> QED
    BY <1>5, <2>1, EndsTyped, EndsTrue DEF SaidInv, OneProcess
<1>6. ASSUME NEW w \in late, ApplyLate(w) PROVE SaidInv'
  <2>1. /\ w \in Write /\ Pending(w) /\ Void(Keys(w)) /\ UNCHANGED <<by, at, plan>>
        /\ Perform(w) \/ UNCHANGED rules
    BY <1>6 DEF OwnerInv, AskedOK, Pending, ApplyLate, calls
  <2>2. \A r \in rules : r.key \in Key /\ r.key \notin Keys(w) => r \in rules'
    BY <2>1, Spared
  <2> QED
    BY <1>1, <2>1, <2>2, StrangerSaid
<1>7. CASE OwnerRemoves
  <2>1. PICK r \in rules : rules' = rules \ {r} /\ Void({r.key}) /\ UNCHANGED <<by, at, plan>>
    BY <1>7 DEF OwnerRemoves, calls
  <2>2. \A s \in rules : s.key \in Key /\ s.key \notin {r.key} => s \in rules'
    BY <2>1
  <2> QED
    BY <1>1, <2>1, <2>2, StrangerSaid
<1>8. CASE OwnerAdds
  <2>1. rules \subseteq rules' /\ UNCHANGED <<said, by, at, plan>>
    BY <1>8 DEF OwnerAdds, calls
  <2> QED
    BY <2>1 DEF SaidInv, SaidTyped, OneProcess, PutFirst, AnswersTrue, SayingsTrue, There, Answered
<1> QED
  BY <1>2, <1>3, <1>4, <1>5, <1>6, <1>7, <1>8, ApplySaid
  DEF Next, CallStep, Ends, vars, cloudflare, calls

(* With one process at work, a receipt says what Cloudflare has, unless a    *)
(* later write is on its way back or its fate is open, or the owner or a     *)
(* request nobody waits for has changed the rule since.                      *)
THEOREM ReceiptsSayWhatIs == Spec => []ReceiptsTrue
<1>1. Init => SaidInv
  BY RulesAssumption DEF Init, SaidInv, SaidTyped, PutFirst, AnswersTrue, SayingsTrue
<1>2. OwnerInv /\ CallsInv /\ KeyedInv /\ SaidInv /\ [Next]_vars
        => OwnerInv' /\ CallsInv' /\ KeyedInv' /\ SaidInv'
  BY NextOwner, NextCalls, NextKeyed, NextSaid
<1>3. SaidInv => ReceiptsTrue
  BY DEF SaidInv, SayingsTrue, There, Answered, ReceiptsTrue, Managed
<1> QED
  BY <1>1, <1>2, <1>3, InitCalls, PTL DEF Spec

===============================================================================
