------------------------------ MODULE Requests ------------------------------
(***************************************************************************)
(* A caller of Rankrat and the request it makes, over REST or MCP, once    *)
(* and again: the surface finds (or does not find) the operation, the      *)
(* service checks the boundary policy and calls its clients, the providers *)
(* do what they do, and the caller is left with one answer.  An agent      *)
(* decides from that answer, and from the hints of the tool, whether it    *)
(* may make the request once more.                                         *)
(***************************************************************************)
EXTENDS McpTools, ServicePlans, Naturals, FiniteSets

CONSTANTS
    Wanted,        \* the service methods a caller may want
    MaxRequests,   \* bound: requests made, on either surface
    BatchSize      \* notifications of an indexing batch

ASSUME WantedAssumption == Wanted \subseteq Methods
ASSUME BoundsAssumption == MaxRequests \in Nat /\ BatchSize \in Nat \ {0}

Surfaces == {"rest", "mcp"}
Parts == 1..BatchSize

-----------------------------------------------------------------------------
(* A step of a plan, and what a request can change in the world: the       *)
(* writes of its plan, a batch being as many as it has parts.              *)
Kind(step) ==
    CASE step[1] = "policy" -> "check"
      [] step[1] = "part" -> "post"
      [] OTHER -> Calls[step[1]][step[2]]

Steps(p) == UNION {p[i] : i \in 1..Len(p)}
PartItems == {<<"part", i>> : i \in Parts}
Items(p) ==
    {step \in Steps(p) : Kind(step) \in {"put", "post", "delete", "upsert", "workflow"}}
    \cup (IF \E step \in Steps(p) : Kind(step) = "batch" THEN PartItems ELSE {})
Owners(p) == {step[2] : step \in {s \in Steps(p) : Kind(s) = "check"}}
             \cup {Owner[step[1]] : step \in {s \in Steps(p) : Kind(s) # "check"}}

Untouched(item) == IF Kind(item) = "delete" THEN 1 ELSE 0
Applied(item, value) ==
    CASE Kind(item) = "delete" -> 0
      [] Kind(item) = "post" -> value + 1
      [] Kind(item) = "upsert" /\ value > 0 -> value
      [] OTHER -> 1

VARIABLES
    writesEnabled,  \* Settings.writes_enabled, fixed when the process starts
    wanted,         \* the service method the caller wants
    plan,           \* what that method does for the caller's arguments
    accepted,       \* the accounts whose boundary accepts the arguments
    requests,       \* requests made
    surface,        \* where the current request, or the last one, was made
    operation,      \* the operation or tool it named
    stage,          \* the stage of the plan that is running; 0 when idle
    waiting,        \* the steps of that stage that have not ended
    answer,         \* what the caller was told
    receipts,       \* the receipts of an indexing batch
    landed,         \* what the current or last request changed at a provider
    world,          \* each thing the plan can change, as it now is
    late,           \* how often an upsert posted a thing that is still on its way
    found           \* what each surface had to offer, as far as it was tried
vars == <<writesEnabled, wanted, plan, accepted, requests, surface, operation, stage,
          waiting, answer, receipts, landed, world, late, found>>

request == <<writesEnabled, wanted, plan, accepted>>
call == <<requests, surface, operation, found>>

NoReceipts == [i \in Parts |-> "none"]

Init ==
    /\ writesEnabled \in BOOLEAN
    /\ wanted \in Wanted
    /\ plan \in Plans[wanted[1]][wanted[2]]
    /\ accepted \in {Owners(plan)} \cup {Owners(plan) \ {o} : o \in Owners(plan) \ {"none"}}
    /\ requests = 0
    /\ surface = "rest"
    /\ operation = "none"
    /\ stage = 0
    /\ waiting = {}
    /\ answer = "none"
    /\ receipts = NoReceipts
    /\ landed = {}
    /\ world = [item \in Items(plan) |-> Untouched(item)]
    /\ late = [item \in Items(plan) |-> 0]
    /\ found = [s \in Surfaces |-> "untried"]

-----------------------------------------------------------------------------
(* The surfaces.                                                           *)
Offered(s) == IF s = "rest" THEN RestRoutes[writesEnabled] ELSE McpTools[writesEnabled]
Names(s) == {op.name : op \in {o \in Offered(s) : o.target = wanted}}

Ask(s) ==
    /\ stage = 0
    /\ requests < MaxRequests
    /\ requests' = requests + 1
    /\ surface' = s
    /\ landed' = {}
    /\ receipts' = NoReceipts
    /\ UNCHANGED <<request, world, late>>

(* 404 NOT_FOUND, TOOL_NOT_FOUND.                                          *)
AskInVain(s) ==
    /\ Ask(s)
    /\ Names(s) = {}
    /\ operation' = "none"
    /\ answer' = "absent"
    /\ found' = [found EXCEPT ![s] = "absent"]
    /\ UNCHANGED <<stage, waiting>>

(* No bearer token, a body over the limit, arguments the model refuses.    *)
TurnAway(s) ==
    /\ Ask(s)
    /\ operation' \in Names(s)
    /\ answer' = "invalid"
    /\ found' = [found EXCEPT ![s] = "offered"]
    /\ UNCHANGED <<stage, waiting>>

Begin(s) ==
    /\ Ask(s)
    /\ operation' \in Names(s)
    /\ found' = [found EXCEPT ![s] = "offered"]
    /\ IF plan = <<>>
       THEN answer' = "OK" /\ UNCHANGED <<stage, waiting>>
       ELSE answer' = "none" /\ stage' = 1 /\ waiting' = plan[1]

-----------------------------------------------------------------------------
(* The service.  The first step that fails answers the request; what is    *)
(* left of its stage is abandoned.                                         *)
Fail(code) ==
    /\ answer' = code
    /\ stage' = 0
    /\ waiting' = {}

Advance(step) ==
    IF waiting # {step}
    THEN waiting' = waiting \ {step} /\ UNCHANGED <<stage, answer>>
    ELSE IF stage < Len(plan)
    THEN stage' = stage + 1 /\ waiting' = plan[stage + 1] /\ UNCHANGED answer
    ELSE stage' = 0 /\ waiting' = {} /\ answer' = "OK"

After(step, code) == IF code = "OK" THEN Advance(step) ELSE Fail(code)

Land(items) ==
    /\ landed' = landed \cup items
    /\ world' = [i \in DOMAIN world |-> IF i \in items THEN Applied(i, world[i])
                                        ELSE world[i]]

CheckPolicy(step) ==
    /\ Kind(step) = "check"
    /\ IF step[2] \in accepted THEN Advance(step) ELSE Fail("rejected")
    /\ UNCHANGED <<receipts, landed, world>>

(* A call that ends before the provider has seen it.                       *)
Withhold(step) ==
    /\ Kind(step) # "check"
    /\ \/ Owner[step[1]] \notin accepted /\ Fail("rejected")
       \/ Owner[step[1]] \in accepted /\ \E code \in Unsent(step[1]) : Fail(code)
    /\ UNCHANGED <<receipts, landed, world>>

Read(step) ==
    /\ Kind(step) = "read"
    /\ Owner[step[1]] \in accepted
    /\ \E conduct \in Conducts : After(step, Code[step[1]][conduct])
    /\ UNCHANGED <<receipts, landed, world>>

(* Two rules with the marker of one cache template are refused.            *)
Ambiguous(step) == step[2] = "apply_cache_template" /\ world[step] > 1

Write(step) ==
    /\ Kind(step) \in {"put", "post", "delete", "upsert"}
    /\ Owner[step[1]] \in accepted
    /\ ~Ambiguous(step)
    /\ \E conduct \in (IF step[1] = "store" THEN StoreConducts ELSE Conducts) :
           \E happened \in MayHaveApplied(conduct) :
               /\ Land(IF happened THEN {step} ELSE {})
               /\ After(step, Code[step[1]][conduct])
    /\ UNCHANGED receipts

(* Onboarding and verification are several writes with one answer; what an *)
(* answer says of them is the subject of SiteSetup.                        *)
RunWorkflow(step) ==
    /\ Kind(step) = "workflow"
    /\ \E done \in SUBSET {step}, code \in FailureCodes \cup {"OK", "rejected", "invalid"} :
           Land(done) /\ After(step, code)
    /\ UNCHANGED receipts

-----------------------------------------------------------------------------
(* A batch of indexing notifications: one multipart call.  Google applies  *)
(* each part or not and answers in any order, with parts missing, doubled  *)
(* or unknown if it is unwell.  A part tells its Content-ID (0: none that  *)
(* was sent) and a status.                                                 *)
PartConducts == {"ok", "unauthorized", "forbidden", "throttled", "bad_request",
                 "server_error"}

PartCode(status) ==
    CASE status = "ok" -> "OK"
      [] status = "unauthorized" -> "AUTHENTICATION"
      [] status = "forbidden" -> "FORBIDDEN"
      [] status = "throttled" -> "RATE_LIMITED"
      [] status = "server_error" -> "UNAVAILABLE"
      [] OTHER -> "INVALID_RESPONSE"

Replies ==
    LET Orders == UNION {[1..n -> Parts \cup {0}] : n \in {BatchSize - 1, BatchSize}}
    IN  {[i \in DOMAIN order |->
            [id |-> order[i],
             status |-> IF order[i] = 0 THEN "ok" ELSE conducts[order[i]]]]
            : order \in Orders, conducts \in [Parts -> PartConducts]}

IdsComplete(reply) ==
    /\ Len(reply) = BatchSize
    /\ {reply[i].id : i \in DOMAIN reply} = Parts

\* mutant: the receipts in the order of the answer.
ReceiptsByPosition(reply) == [part \in Parts |-> PartCode(reply[part].status)]

(* The receipts are in the order of the request.                           *)
ReceiptsOf(reply) ==
    [part \in Parts |->
        PartCode(reply[CHOOSE i \in DOMAIN reply : reply[i].id = part].status)]

(* A part is told "ok" if it was applied; one that was refused was not.    *)
Truthful(reply, done) ==
    \A i \in DOMAIN reply :
        reply[i].id \in Parts => (reply[i].id \in done) \in MayHaveApplied(reply[i].status)

PublishBatch(step) ==
    /\ Kind(step) = "batch"
    /\ Owner[step[1]] \in accepted
    /\ \E done \in SUBSET Parts :
           /\ Land({<<"part", i>> : i \in done})
           /\ \/ \E conduct \in Conducts \ {"ok"} :
                     /\ \A i \in Parts : (i \in done) \in MayHaveApplied(conduct)
                     /\ Fail(Code[step[1]][conduct])
                     /\ UNCHANGED receipts
              \/ \E reply \in Replies :
                     /\ Truthful(reply, done)
                     /\ IF IdsComplete(reply)
                        THEN receipts' = ReceiptsOf(reply) /\ Advance(step)
                        ELSE UNCHANGED receipts /\ Fail("INVALID_RESPONSE")

Run(step) ==
    /\ \/ CheckPolicy(step) \/ Withhold(step) \/ Read(step) \/ Write(step)
       \/ RunWorkflow(step) \/ PublishBatch(step)
    /\ UNCHANGED <<request, call, late>>

(* An upsert has found nothing and has posted its thing; the client gives  *)
(* up before the provider gets to it.  Other writes read nothing first, so *)
(* that nobody can tell whether they are applied at once or late.          *)
GiveUp(step) ==
    /\ Kind(step) = "upsert"
    /\ Owner[step[1]] \in accepted
    /\ world[step] = 0
    /\ \E conduct \in {"timed_out", "broken"} : Fail(Code[step[1]][conduct])
    /\ late' = [late EXCEPT ![step] = @ + 1]
    /\ UNCHANGED <<request, call, receipts, landed, world>>

ApplyLate(item) ==
    /\ late[item] > 0
    /\ late' = [late EXCEPT ![item] = @ - 1]
    /\ world' = [world EXCEPT ![item] = @ + 1]
    /\ UNCHANGED <<request, call, stage, waiting, answer, receipts, landed>>

Next ==
    \/ \E s \in Surfaces : AskInVain(s) \/ TurnAway(s) \/ Begin(s)
    \/ \E step \in waiting : Run(step) \/ GiveUp(step)
    \/ \E item \in DOMAIN late : ApplyLate(item)

Spec == Init /\ [][Next]_vars

-----------------------------------------------------------------------------
(* Answers after which a caller knows that its last call was not applied.  *)
Refusals == {"AUTHENTICATION", "FORBIDDEN", "RATE_LIMITED"}
NotSent == {"rejected", "invalid", "absent"}

Writes(items) == {i \in items : Kind(i) # "workflow"}

(* Nothing changes at a provider, or in the store, unless the process may  *)
(* write; and a tool tells its client beforehand: it is listed, it does    *)
(* not pass for read-only, it is called destructive if it removes          *)
(* something, and if it is called idempotent then making the request again *)
(* changes nothing more, whatever the first request was answered, save for *)
(* an upsert that was posted and is still on its way (_IDEMPOTENT_WRITE_-  *)
(* TOOLS of seo_mcp.py).                                                   *)
DeclaredEffects ==
    [][\A i \in DOMAIN world :
            world'[i] # world[i] =>
                /\ writesEnabled
                /\ surface = "mcp" =>
                       /\ operation \in ListedTools[writesEnabled]
                       /\ ~ReadOnlyHint(operation)
                       /\ world'[i] < world[i] => DestructiveHint(operation)
                       /\ IdempotentHint(operation) =>
                              world[i] = Untouched(i) \/ late[i] > 0]_vars

(* What the hint tells a client: a tool called idempotent can be called    *)
(* again and changes nothing more, whatever it answered.  The code does    *)
(* not keep it: a cache template is posted when the ruleset shows no rule  *)
(* of it, and one that was posted before may only be late.                 *)
RepeatsAddNothing ==
    [][\A i \in DOMAIN world :
            world'[i] # world[i] /\ surface = "mcp" /\ IdempotentHint(operation) =>
                world[i] = Untouched(i)]_vars

(* What a caller may conclude from an answer.  "OK": everything the        *)
(* request writes was applied, and of a batch exactly the parts with a     *)
(* good receipt, save those the provider itself was unsure of.  A refusal: *)
(* nothing that counts twice was applied, and nothing at all unless the    *)
(* method writes more than once (remediation).  Turned away before any     *)
(* call: nothing.  Only TIMEOUT, UNAVAILABLE and INVALID_RESPONSE leave it *)
(* open.                                                                   *)
AnswersTellEffects ==
    stage = 0 /\ requests > 0 =>
        /\ answer = "OK" =>
               /\ Writes(DOMAIN world) \ PartItems \subseteq landed
               /\ \A part \in Parts : <<"part", part>> \in DOMAIN world =>
                      /\ receipts[part] = "OK" => <<"part", part>> \in landed
                      /\ receipts[part] \in Refusals \cup {"INVALID_RESPONSE"} =>
                             <<"part", part>> \notin landed
        /\ answer \in Refusals =>
               /\ \A i \in Writes(landed) : Kind(i) \notin {"post", "upsert"}
               /\ Cardinality(DOMAIN world) = 1 => Writes(landed) = {}
        /\ answer \in NotSent => Writes(landed) = {}

(* REST and MCP offer the same service methods, and MCP lists a tool for   *)
(* exactly the methods it dispatches.                                      *)
SurfacesAgree ==
    /\ "untried" \notin {found["rest"], found["mcp"]} => found["rest"] = found["mcp"]
    /\ surface = "mcp" /\ operation # "none" => operation \in ListedTools[writesEnabled]
    /\ found["mcp"] = "absent" =>
           \A tool \in ListedTools[writesEnabled] :
               \E op \in McpTools[writesEnabled] : op.name = tool /\ op.target # wanted
=============================================================================
