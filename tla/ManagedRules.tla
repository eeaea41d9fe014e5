----------------------------- MODULE ManagedRules -----------------------------
(***************************************************************************)
(* Rankrat's rules in one Cloudflare ruleset: apply_cache_template,        *)
(* upsert_edge_redirect and delete_edge_redirect of                        *)
(* src/src/rankrat/providers/cloudflare_performance.py.                    *)
(*                                                                         *)
(* A ruleset belongs to one phase of one zone.  Each process has one lock  *)
(* for it; the zone's owner, and other processes, change it at the same    *)
(* time.  An operation reads the whole ruleset, decides on one write, and  *)
(* takes the ruleset that comes back for the outcome.  A rule is its id,   *)
(* the key Rankrat finds it by (the template's marker in its description,  *)
(* or the reference of a redirect's source path) and its body, the rest.   *)
(***************************************************************************)
EXTENDS Naturals, FiniteSets

CONSTANTS
  Key, Body,
  Foreign,    \* the key of a rule that is not Rankrat's
  Call, NoCall, Process,
  MaxId,      \* bound: rules Cloudflare creates
  MaxForeign, \* bound: rules the owner adds
  MaxLate     \* bound: requests that arrive after their caller gave up

ASSUME RulesAssumption ==
  /\ Foreign \notin Key /\ NoCall \notin Call
  /\ {"unknown", "void"} \cap Body = {}
  /\ MaxId \in Nat /\ MaxForeign \in Nat /\ MaxLate \in Nat

VARIABLES
  phase,    \* "cache" or "redirect"
  exists,   \* there is a ruleset for the phase
  rules,    \* its rules
  nextId,
  lock,     \* the call that holds the zone's lock in each process
  by,       \* the process of each call
  at,       \* where each call is
  asked,    \* what it was called for
  plan,     \* the write it sends
  seen,     \* the rules the answer lists
  late,     \* writes whose caller gave up before Cloudflare saw them
  \* History, read by properties only:
  owned,    \* the ids of the owner's rules
  said,     \* what the last receipt said of each key
  raced,    \* a ruleset was written as a whole over one somebody had created
  strayed   \* a request nobody waited for was carried out

cloudflare == <<exists, rules, nextId, late>>
calls == <<lock, by, at, asked, plan, seen>>
fate == <<raced, strayed>>
vars == <<phase, cloudflare, calls, owned, said, fate>>

Id == 1..MaxId
Rule == [id : Id, key : Key \cup {Foreign}, body : Body]
Upsert == [do : {"upsert"}, key : Key, body : Body]
Delete == [do : {"delete"}, id : Id]
Nothing == [do |-> "nothing"]
Write == [do : {"put", "post"}, key : Key, body : Body]
           \cup [do : {"patch"}, id : Id, key : Key, body : Body] \cup Delete

Managed(k, rs) == {r \in rs : r.key = k}

Init ==
  /\ phase \in {"cache", "redirect"} /\ exists \in BOOLEAN
  /\ rules = {} /\ nextId = 1 /\ late = {}
  /\ lock = [p \in Process |-> NoCall]
  /\ by \in [Call -> Process]
  /\ at = [c \in Call |-> "idle"]
  /\ asked = [c \in Call |-> Nothing] /\ plan = [c \in Call |-> Nothing]
  /\ seen = [c \in Call |-> {}]
  /\ owned = {}
  /\ said = [k \in Key |-> "unknown"]
  /\ raced = FALSE /\ strayed = FALSE

-------------------------------------------------------------------------------
(* The keys a write is about: a put takes all other rules away.  The       *)
(* history forgets what was said of a key whose rule is deleted or whose   *)
(* write has an open fate, and says no more of one that the owner or a     *)
(* request nobody waits for has changed.                                   *)
Keys(w) ==
  CASE w.do = "delete" -> {r.key : r \in {s \in rules : s.id = w.id}}
    [] w.do = "put" -> Key
    [] OTHER -> {w.key}

Forget(ks) ==
  said' = [k \in Key |-> IF k \in ks /\ said[k] # "void" THEN "unknown" ELSE said[k]]

Void(ks) == said' = [k \in Key |-> IF k \in ks THEN "void" ELSE said[k]]

Say(k, b) == said' = IF said[k] = "void" THEN said ELSE [said EXCEPT ![k] = b]

-------------------------------------------------------------------------------
(* One call: take the lock, GET the ruleset and decide.                    *)

(* Templates are applied and never deleted. *)
Begin(c) ==
  /\ at[c] = "idle" /\ lock[by[c]] = NoCall
  /\ lock' = [lock EXCEPT ![by[c]] = c]
  /\ at' = [at EXCEPT ![c] = "reading"]
  /\ \E a \in Upsert \cup (IF phase = "redirect" THEN Delete ELSE {}) :
       asked' = [asked EXCEPT ![c] = a]
  /\ UNCHANGED <<phase, cloudflare, by, plan, seen, owned, said, fate>>

End(c) ==
  /\ at' = [at EXCEPT ![c] = "idle"]
  /\ asked' = [asked EXCEPT ![c] = Nothing]
  /\ plan' = [plan EXCEPT ![c] = Nothing]
  /\ seen' = [seen EXCEPT ![c] = {}]
  /\ lock' = IF lock[by[c]] = c THEN [lock EXCEPT ![by[c]] = NoCall] ELSE lock
  /\ UNCHANGED by

Send(c, w) ==
  /\ plan' = [plan EXCEPT ![c] = w]
  /\ at' = [at EXCEPT ![c] = "writing"]
  /\ UNCHANGED <<lock, by, asked, seen>>

(* There is no ruleset: upserts create it with their one rule. *)
ReadAbsent(c) ==
  /\ at[c] = "reading" /\ ~exists /\ asked[c].do = "upsert"
  /\ Send(c, [do |-> "put", key |-> asked[c].key, body |-> asked[c].body])
  /\ UNCHANGED <<phase, cloudflare, owned, said, fate>>

ReadUnmatched(c) ==                  \* mutant: a rule with another body is not found
  /\ at[c] = "reading" /\ exists /\ asked[c].do = "upsert"
  /\ \A r \in Managed(asked[c].key, rules) : r.body # asked[c].body
  /\ Send(c, [do |-> "post", key |-> asked[c].key, body |-> asked[c].body])
  /\ UNCHANGED <<phase, cloudflare, owned, said, fate>>

ReadMissing(c) ==
  /\ at[c] = "reading" /\ exists /\ asked[c].do = "upsert"
  /\ Managed(asked[c].key, rules) = {}
  /\ Send(c, [do |-> "post", key |-> asked[c].key, body |-> asked[c].body])
  /\ UNCHANGED <<phase, cloudflare, owned, said, fate>>

ReadAnyDifferent(c) ==               \* mutant: the first rule is patched, whoever's it is
  /\ at[c] = "reading" /\ exists /\ asked[c].do = "upsert"
  /\ \E r \in rules :
       /\ r.body # asked[c].body
       /\ Send(c, [do |-> "patch", id |-> r.id, key |-> asked[c].key, body |-> asked[c].body])
  /\ UNCHANGED <<phase, cloudflare, owned, said, fate>>

(* The rule is there with another body.  A template refuses two rules of   *)
(* its key, a redirect takes the first.                                    *)
ReadDifferent(c) ==
  /\ at[c] = "reading" /\ exists /\ asked[c].do = "upsert"
  /\ phase = "cache" => Cardinality(Managed(asked[c].key, rules)) = 1
  /\ \E r \in Managed(asked[c].key, rules) :
       /\ r.body # asked[c].body
       /\ Send(c, [do |-> "patch", id |-> r.id, key |-> asked[c].key, body |-> asked[c].body])
  /\ UNCHANGED <<phase, cloudflare, owned, said, fate>>

ReadPresent(c) ==                    \* mutant: the body is not compared
  /\ at[c] = "reading" /\ exists /\ asked[c].do = "upsert"
  /\ phase = "cache" => Cardinality(Managed(asked[c].key, rules)) = 1
  /\ Managed(asked[c].key, rules) # {}
  /\ Say(asked[c].key, asked[c].body)
  /\ End(c)
  /\ UNCHANGED <<phase, cloudflare, owned, fate>>

(* The rule is there as asked: nothing is written. *)
ReadSame(c) ==
  /\ at[c] = "reading" /\ exists /\ asked[c].do = "upsert"
  /\ phase = "cache" => Cardinality(Managed(asked[c].key, rules)) = 1
  /\ \E r \in Managed(asked[c].key, rules) : r.body = asked[c].body
  /\ Say(asked[c].key, asked[c].body)
  /\ End(c)
  /\ UNCHANGED <<phase, cloudflare, owned, fate>>

ReadDeletable(c) ==
  /\ at[c] = "reading" /\ exists /\ asked[c].do = "delete"
  /\ \E r \in rules : r.id = asked[c].id /\ r.key # Foreign
  /\ Send(c, asked[c])
  /\ UNCHANGED <<phase, cloudflare, owned, said, fate>>

(* Nothing to delete, two rules of one template, or a failed GET. *)
ReadFails(c) ==
  /\ at[c] = "reading"
  /\ End(c)
  /\ UNCHANGED <<phase, cloudflare, owned, said, fate>>

-------------------------------------------------------------------------------
(* Cloudflare.  A write by id fails when the rule is gone, and a new rule   *)
(* needs the ruleset that was read.                                         *)

Accepts(w) ==
  \/ w.do = "put" /\ nextId <= MaxId
  \/ w.do = "post" /\ exists /\ nextId <= MaxId
  \/ w.do \in {"patch", "delete"} /\ \E r \in rules : r.id = w.id

Written(w) == [id |-> IF w.do = "patch" THEN w.id ELSE nextId, key |-> w.key, body |-> w.body]

After(w) ==
  CASE w.do = "put" -> {Written(w)}
    [] w.do = "post" -> rules \cup {Written(w)}
    [] w.do = "patch" -> {r \in rules : r.id # w.id} \cup {Written(w)}
    [] w.do = "delete" -> {r \in rules : r.id # w.id}

Perform(w) ==
  /\ Accepts(w)
  /\ rules' = After(w)
  /\ exists' = TRUE
  /\ nextId' = IF w.do \in {"put", "post"} THEN nextId + 1 ELSE nextId
  /\ raced' = (raced \/ (w.do = "put" /\ exists))

Apply(c) ==
  /\ at[c] = "writing"
  /\ Perform(plan[c])
  /\ at' = [at EXCEPT ![c] = "answered"]
  /\ seen' = [seen EXCEPT ![c] = After(plan[c])]
  /\ IF plan[c].do = "delete" THEN Forget(Keys(plan[c])) ELSE UNCHANGED said
  /\ UNCHANGED <<phase, late, lock, by, asked, plan, owned, strayed>>

ApplyLate(w) ==
  /\ w \in late
  /\ late' = late \ {w}
  /\ Perform(w) \/ UNCHANGED <<exists, rules, nextId, raced>>
  /\ Void(Keys(w))
  /\ strayed' = TRUE
  /\ UNCHANGED <<phase, calls, owned>>

-------------------------------------------------------------------------------
(* The receipt: exactly one rule of the key, or the update is ambiguous.   *)
(* A created template ruleset is not checked for a second one.             *)
Unambiguous(c) ==
  \/ Cardinality(Managed(plan[c].key, seen[c])) = 1
  \/ phase = "cache" /\ plan[c].do = "put"

ReceiveUpsert(c) ==
  /\ at[c] = "answered" /\ asked[c].do = "upsert"
  /\ Say(plan[c].key, IF Unambiguous(c) THEN plan[c].body ELSE "unknown")
  /\ End(c)
  /\ UNCHANGED <<phase, cloudflare, owned, fate>>

ReceiveDelete(c) ==
  /\ at[c] = "answered" /\ asked[c].do = "delete"
  /\ End(c)
  /\ UNCHANGED <<phase, cloudflare, owned, said, fate>>

(* A timeout, a refusal or a lost answer; the request may still arrive. *)
GiveUp(c) ==
  /\ at[c] \in {"writing", "answered"}
  /\ Forget(Keys(plan[c]))
  /\ End(c)
  /\ \/ UNCHANGED late
     \/ /\ at[c] = "writing" /\ Cardinality(late) < MaxLate
        /\ late' = late \cup {plan[c]}
  /\ UNCHANGED <<phase, exists, rules, nextId, owned, fate>>

-------------------------------------------------------------------------------
(* The zone's owner, in the dashboard or with another tool. *)
OwnerAdds ==
  /\ Cardinality(owned) < MaxForeign /\ nextId <= MaxId
  /\ \E b \in Body : rules' = rules \cup {[id |-> nextId, key |-> Foreign, body |-> b]}
  /\ exists' = TRUE
  /\ owned' = owned \cup {nextId}
  /\ nextId' = nextId + 1
  /\ UNCHANGED <<phase, late, calls, said, fate>>

OwnerRemoves ==
  \E r \in rules :
    /\ rules' = rules \ {r}
    /\ owned' = owned \ {r.id}
    /\ Void({r.key})
    /\ UNCHANGED <<phase, exists, nextId, late, calls, fate>>

-------------------------------------------------------------------------------
CallStep(c) ==
  \/ Begin(c)
  \/ ReadAbsent(c) \/ ReadMissing(c) \/ ReadDifferent(c) \/ ReadSame(c)
  \/ ReadDeletable(c) \/ ReadFails(c)
  \/ Apply(c) \/ ReceiveUpsert(c) \/ ReceiveDelete(c) \/ GiveUp(c)

Next ==
  \/ \E c \in Call : CallStep(c)
  \/ \E w \in late : ApplyLate(w)
  \/ OwnerAdds \/ OwnerRemoves

Spec == Init /\ [][Next]_vars

-------------------------------------------------------------------------------
(* Properties. *)

(* docs/monitoring-and-remediation.md:199-200: Rankrat "preserves your      *)
(* unrelated rules".  It does, unless somebody creates the ruleset between *)
(* Rankrat's GET and its PUT.                                              *)
OwnersRules == owned \subseteq {r.id : r \in rules}

ForeignKept == raced \/ OwnersRules

(* docs/monitoring-and-remediation.md:203-204: serialized mutations stop    *)
(* two callers of one process from both creating the first rule.  It takes *)
(* another process or a request that outlives its caller to make a second. *)
OneProcess == \A c, d \in Call : by[c] = by[d]

OneManagedRule ==
  OneProcess /\ ~strayed => \A k \in Key : Cardinality(Managed(k, rules)) <= 1

(* What the last receipt said of a rule is what Cloudflare has, as long as  *)
(* one process changes it: unless a later write is on its way back or its   *)
(* fate is open, or the owner has changed it since.                         *)
ReceiptsTrue ==
  OneProcess => \A k \in Key :
    said[k] \in Body =>
      \/ \E r \in Managed(k, rules) : r.body = said[k]
      \/ \E c \in Call : at[c] = "answered" /\ plan[c].do # "delete" /\ plan[c].key = k
===============================================================================
