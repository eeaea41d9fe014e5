# Rankrat: specifications, model checking and proofs

Rankrat is a self-hosted SEO service. One Python package answers the same
operations over REST and over MCP, talks to search and analytics providers with
the operator's own credentials, crawls the operator's own sites, and keeps a
small SQLite database of monitors. Next to it run a TypeScript worker that drives
Lighthouse and a shell wrapper that drives Docker Compose. This directory holds
TLA+ models of the parts that keep state and of the way every request goes, the
TLC instances that check them and the TLAPS proofs about them.

Every definition is a translation of the code at the lines that `PROJECT.json`
(`map`) names. Where a document and the code disagree, the model follows the code.
Four runs show such a disagreement; other behaviours a reader of the documents may
not expect are steps or named conditions of the models and are listed with them
(see [Findings](#findings)).

## Inventory

| component | code (under `src/src/rankrat/` unless noted) | state | operations |
|---|---|---|---|
| monitor store | `state/sqlite.py` | tables `monitors`, `snapshots`, `issues`, `issue_events` | create, update, delete a monitor; claim, claim due, renew, save, release a run; set an issue's status |
| monitor runs | `operator/monitoring.py` | one running `_execute` with its audit task and its heartbeat task | run one monitor, run the next due one |
| monitor scheduler | `transports/http.py` | the supervisor task of each HTTP process | look for a due monitor, run it, sleep |
| IndexNow admission | `services/indexnow.py`, `providers/indexnow.py` | per target: attempts in the window, recently accepted URLs, pending URLs | submit |
| site audit | `services/site_audit.py`, `providers/site_fetch.py`, `operator/internal_links.py` | the crawl queue of one call | audit; graph and orphan reports made from it |
| Lighthouse companion | `src/lighthouse-worker/src/*.ts`, `providers/lighthouse.py`, `services/lighthouse.py` | one busy flag, one child process | audit, health |
| OAuth tokens | `providers/google_oauth.py`, `GoogleConfiguredTokenProvider` in `providers/google_search_console.py` | one token file per account, the loopback listener | authorize, refresh, revoke |
| Cloudflare rulesets | `providers/cloudflare_performance.py`, `services/edge_redirects.py` | rules kept by Cloudflare | apply or remove a managed template or redirect |
| onboarding | `operator/site_onboarding.py`, `providers/google_analytics_admin.py`, `operator/guided_setup.py`, `operator/indexnow.py` | provider resources, the boundary file | onboard a site, set up accounts, set up an IndexNow target |
| ownership and DNS | `operator/site_ownership.py`, `providers/dns.py`, `providers/cloudflare.py` | DNS records, verification state | check, verify |
| remediation | `services/site_remediation.py` | provider state | three writes in a row |
| Google indexing | `services/google_indexing.py`, `providers/google_indexing.py` | none | publish one notification or a batch, read metadata |
| boundary policy, limits, models | `policy/`, `models/` | loaded once | resolve an account, accept or reject a resource |
| services | the rest of `services/`, `operator/content_opportunities.py` | none beyond one request | check the policy, call clients, build a report |
| provider clients | the rest of `providers/` | none beyond one request | one HTTP exchange per method |
| transports and contracts | `transports/` | the write setting of the process | REST operations, MCP tools, their listing and hints |
| configuration, CLI, logging | `config.py`, `cli.py`, `logging.py` | read once | - |
| host wrapper, installer | `src/rankrat`, `src/install.sh` | the container engine's | start, stop, update |

**Interactions.** Every HTTP process runs one scheduler task, and every HTTP or
stdio process serves `monitor_run` requests; all of them share one SQLite file.
`_execute` claims a row, runs the site audit beside a heartbeat that renews the
claim, and saves the report in one transaction which also maintains issues,
events and retention. IndexNow submissions share their state inside one process
only. OAuth token files and the boundary file are shared by all processes on the
host and are replaced as whole files. Cloudflare, GA4, Search Console, Bing and
DNS resources are shared with everybody else who has access to those accounts.
A request enters over REST or MCP, both of which reach the same service methods
of `ApplicationServices`; a service checks the boundary policy and then calls its
clients one after the other (two side by side in four reports), each client turns an
HTTP exchange into a result or one of six failure codes, and the surface turns
that, or a rejection, into the one answer the caller gets.

**Hard behaviours, and what correctness means there.**

* *Monitors.* Claims expire on a wall clock while their run may be alive; a claim
  and the read of the claimed row are two transactions; the operator edits,
  disables and deletes monitors during a run; runs fail, are cancelled, crash. A
  superseded or revoked run must never publish, a punctual run must never be
  overtaken, an issue's row and its event log must agree, retention must not
  take what is still within it, and each due monitor must get its turn.
* *IndexNow.* Calls overlap at the await on the endpoint. No URL may be in flight
  twice, the sliding window must hold for every stretch of time, and a recently
  accepted URL must not be sent again while the bounded memory can hold it.
* *Site audit.* No page twice although pages link to each other, depths that are
  distances, and no silent gap in a report that claims to be complete.
* *Lighthouse.* One audit at a time, a slot that is always freed, a client that
  gives up before the worker does.
* *Tokens.* Refresh, rotation and revocation of one file by several processes.
* *Rulesets, onboarding, ownership.* Read-then-write against shared provider
  state, partial failure without rollback, retries that must not duplicate. One
  GA4 stream and one verification record per site, a boundary file that loads, loses nothing
  and names what exists, and reports that are true.
* *Requests.* About 120 operations exist three times over (a REST route, an MCP
  dispatch, an MCP listing with hints), gated by the write setting in several
  places. A lost answer leaves it open whether a write was applied; what the
  code of an answer and the hints of a tool say must be enough to decide
  whether it may be repeated.

`PROJECT.json` lists each hazard at its line, with the properties that cover it
or the reason none does yet.

## Modules

| module | models | composes |
|---|---|---|
| `IssueLifecycle` | the pure steps of one issue and its event log in `save_run`, `set_issue_status` and `_prune` | - |
| `Monitoring` | the monitor tables, the runs and their heartbeats, the operator's requests | `IssueLifecycle` |
| `RunLease` | abstract: a monitor is leased to one run, who alone publishes, once | - |
| `MonitorLease` | the refinement mapping from `Monitoring` to `RunLease` | `Monitoring`, `RunLease` |
| `Monitoring_proofs` | theorems about `Monitoring`, and that it implements `RunLease` | `MonitorLease` |
| `MonitorScheduler` | the supervisor loop, the order of due monitors, competing requests | - |
| `IndexNow` | admission of submissions to one target | - |
| `IndexNow_proofs` | theorems about `IndexNow` | |
| `Lighthouse` | the worker's slot, its child process, and the clients | - |
| `Lighthouse_proofs` | theorems about `Lighthouse` | |
| `TokenStore` | one token file: refreshes, authorization, revocation, Google | - |
| `LoopbackReceiver` | the listener that waits for an authorization's callback | - |
| `GoogleOAuth_proofs` | theorems about both | `TokenStore`, `LoopbackReceiver` |
| `ManagedRules` | Rankrat's rules in one Cloudflare ruleset that others change too | - |
| `ManagedRules_proofs` | theorems about `ManagedRules` | |
| `SiteAudit` | one crawl: sitemaps, the queue, the limits, the report | - |
| `SiteAudit_proofs` | theorems about `SiteAudit` and `LinkReports` | |
| `LinkReports` | the link graph and the orphan findings | `SiteAudit` |
| `BoundaryFile` | the document of accounts and targets, its validation, its atomic replacement, a server's load | - |
| `LocalSetup` | guided setup and the IndexNow initialisation | `BoundaryFile` |
| `BingSites` | Bing's sites, which onboarding and ownership both change | - |
| `SiteOnboarding` | the onboarding of one site: GA4, Search Console, Bing, the file | `BoundaryFile`, `BingSites` |
| `SiteOwnership` | check and verification through DNS records | `BoundaryFile`, `BingSites` |
| `SiteSetup` | all four side by side, with deaths, restarts and late provider work | the five above |
| `SiteSetup_proofs` | theorems about the boundary file, GA4 streams, keys, DNS records and reports | `SiteSetup` |
| `ProviderHttp` | conducts of a provider, and the failure code each client makes of them | - |
| `ProviderCalls` | the methods of every client and what they do at the provider | `ProviderHttp` |
| `ServicePlans` | the checks and calls of every service method, in their order | `ProviderCalls` |
| `RestRoutes`, `McpTools` | the operations of both surfaces, their gates, MCP's listing and hints | - |
| `Requests` | a caller, its requests, the providers, the answers | the five above |
| `Requests_proofs` | theorems about the answers, the tables and the hints | `Requests` |
| `MC*` | instances for TLC (symmetry) | |

### Monitoring

One action per repository method, because each is one `BEGIN IMMEDIATE`
transaction: `CreateMonitor`, `UpdateMonitor`, `DeleteMonitor`, `SetIssueStatus`
for the operator; `ClaimMonitor`, `ClaimDueMonitor`, `Renew`, `SaveRun`,
`Release` for the runs. `row` holds the columns of `monitors` that the code reads
back; `rows` says which rows exist. A worker (`work[w]`) is one call of
`_execute`:

| phase | in the code |
|---|---|
| `claimed` | the claiming UPDATE has committed, `get_monitor` has not run (`sqlite.py:381-386`) |
| `running` | the audit task and the heartbeat task are alive |
| `saving` | the audit has returned, `save_run` has not committed |
| `releasing` | in the `finally` clause, before `release_claim` |
| `orphan` | `_execute` was cancelled, its audit task goes on |

`work[w].due` is when the worker's next step is due: now, or one renewal period
after the last renewal while the audit runs. `Tick` advances the clock unless
that makes a prompt worker's step more than `MaxLag` late, so `MaxLag` says how far
behind its event loop may fall; the workers in `Stalling` may sleep past the
expiry of their claims and wake up at any time; dead and orphaned work does not hold the clock.
Tokens are numbered in the order they are granted (the code uses `uuid4`, and
compares tokens for equality only). `SaveRun` is the whole transaction: token
check, snapshot, upserts, resolutions, next run, release and pruning of all
monitors. When the renewal and the audit's end fall into the same turn of the
loop, the code looks at the heartbeat first; in the model the two are ordered.

Abstracted: the text of an issue, `first_seen_at`, report bodies, pagination and
reads, and request validation. An audit returns any set of findings, each
reported up to `MaxRepeat` times (a report can name one identity twice: the
loop of `_upsert_findings` then counts a second observation).

### MonitorScheduler

Time is reduced to order: `queue` lists the due enabled monitors by
`next_run_at`. A monitor that becomes due joins at the back, a saved run leaves,
and a failed run keeps its place, because `release_claim` does not touch
`next_run_at`. A service is off until it is started (`StartService`: the lifespan of
the HTTP application starts its supervisor). `Look` is a turn of `_run_monitor_scheduler`: take the oldest due
monitor without a claim, or sleep; after a success it looks again at once, after
any failure it sleeps. Claims of dead processes (`Dead`) expire in their own
time. The ASGI middleware in the same file is not modelled.

### IndexNow

A call is one `submit`; the lock is never held across an await, so
`_reserve_submission`, `_record_success` and `_release_pending` are one action
each: `Submit`, `Accept`, `Reject`. `Cancel` is the cancellation of the task
while it waits for the endpoint. `recent` is the `OrderedDict`, in its order;
pruning removes from the front while the front is old, exactly as the code does.
`starts`, `newer`, `acceptedAt` and `abandoned` are history variables, read by
properties only.
The state is one process's: the class keeps it in memory and a restart starts it
empty.

### Lighthouse

A call is one connection. `caller` is the Python side (`httpx` waits, is
answered or times out), `handler` is `handleRequest` in the worker, `runner` is
the child process `runAudit` spawns. `Accept` is the handler up to its first
await, so testing and setting the busy flag are one step; `Settled` is the
answer and the `finally` clause. `HangUp` is the client's own timeout: the worker
does not notice and goes on. `Kill` is the worker's deadline (or its output
limit). The browser that a runner launches is not modelled. `Crash` restarts the container. Reports are
reduced to accepted or not; `GET /healthz` only reads the flag.

### TokenStore

A call is one `GoogleConfiguredTokenProvider.__call__`: `Load` takes the
provider's lock, loads the record and posts it; `Store` is the write after the
answer, which the code makes without a further await, and only when the record
differs from the one it sent. A record is a token number and the spelling of its
scope list, because a list in another order is a difference too. Google may
rotate the token in an answer, and may or may not end the old one. `GiveUp` is
every way a call ends without an answer; its request can still arrive
(`GrantLate`). `Exchange`/`WriteAuthorized` are auth-google, `Revoke*` are
revoke-google: both are other processes and take no lock. `Provider` counts the
provider objects, each with a lock of its own: `transports/runtime.py` builds one
per service on the same file (lines 125-312), and TLC runs two. `lost`, `stale`,
`revoked` and `gone` are history variables; `stale` says that a call whose token
was not rotated, but whose scope list was spelled anew, wrote its record over a
newer one (`WritesBack`).

### LoopbackReceiver

Every connection has a handler: `Start` is the handler up to its await of the
request, `Read` the rest. `Stop` is the end of `wait_for` and the closing of the
listener, `Return` the end of `wait_closed`, which waits for every open
connection. A request is good, bad or broken off, and a peer may stay silent
for ever: nothing in the code makes it speak. `Wait` is the call of
`wait_for_code`.

The four machines whose callers wait have names of their own for their initial
states and steps (`WorkerInit`, `QueueInit`, `LoopInit`, ...), so that `MCWaits` and
the modules of proofs can extend several of them.

### ManagedRules

A call holds its process's lock for one zone and phase from `Begin` to `End`:
it reads the ruleset and decides (`Read*`), sends one write (`Apply` is
Cloudflare's side), and takes the returned ruleset for its receipt. A rule is its
id, the key by which Rankrat finds it (a template's marker, a redirect's
reference) and its body. The zone's owner adds rules of his own and removes any
rule; he is assumed not to take the marker off a managed rule and not to delete
the whole ruleset. `late` holds writes whose caller gave up. `owned` and `said`
are history variables.

### SiteAudit and LinkReports

One action is one fetch and what follows it up to the next await:
`DiscoverSitemaps` (robots.txt), `SitemapRead` and `SitemapInvalid`,
then per page `Visit` or `Unreachable`. `SitemapRaises` and `VisitRaises` are the
exceptions `audit` does not catch; they end the call. `Turn` is the end of a turn
of the crawl's loop, with the report when the loop is over: duplicate titles, the
cut of the list of issues, the flag `truncated`.

There is no site in the state: each fetch chooses what it finds, so a site may
change while it is crawled. A list of links is modelled by what the crawl does with
it: the set, the first `MaxLinks` of it, and an order for those that are new.
URLs are normalised values. Only sitemap locations enter the queue as they are
written, so a sitemap may use another spelling (`Variant`) of a URL, and the
evidence of the orphan report may too: `internal_links.py:175-190` looks Search
Console's and Analytics' keys up among the crawled URLs as they are, so that a linked
page which a provider spells in another way is called an orphan; `Poison` are
the URLs the fetcher refuses with another error than `SiteFetchError`. The queue is
filled as the sitemaps are read, the code collects the same sequence first.
`LinkReports` adds what `InternalLinkOperator` computes from a report. The issues
of a page are a number of faults; scores, link suggestions and the repetition of
one location in robots.txt are left out.

### MonitorLease and RunLease

`RunLease` has no clock, no rows and no heartbeat: leases are granted once, in
order; a monitor has at most one holder; only the holder publishes, and gives the lease
back with it; the operator may withdraw a lease and forget a monitor. The
mapping takes the claim token of the row for the holder, the token of a worker that is
still active for what it believes to hold, and the tokens of the snapshots for
what is published. Take-over of an expired claim is `Acquire` of a monitor that
still has a holder, which the abstract specification allows: that the old holder
was late is the subject of `PunctualRunKeepsClaim`.

### BoundaryFile, LocalSetup, BingSites, SiteOnboarding, SiteOwnership, SiteSetup

A caller of `SiteSetup` runs one command or request at a time and may die before
any step (`Dies`). The document is a function from account ids to what
the operations record in them, and a set of IndexNow targets; a replacement is one step
(`os.replace`), and the read before it is another. `replacements` counts them, so
that a copy is `Stale` when somebody else wrote in between.

`SiteOnboarding` has one action per provider call of
`SiteOnboardingOperator.onboard`. A write ends *applied*, *refused* or *lost*
(applied, but the caller sees an error); the creation of a stream and of a DNS
record can also be *late*, carried out after the caller has given up
(`StreamArrives`, `RecordArrives`). `done` is the list of stages of the partial
error. `SiteOwnership` has the steps of `check` and `verify`: the proof, the
zone's records, their creation, what public resolvers show (`Seen`: they may
still show the past), the redemption at Google and Bing. `streamsRaced`,
`recordsRaced` and `keysRaced` are history: they mark the overlaps, or late
creations, that the code cannot see, because it lists first and creates
afterwards. What a late creation of a stream does to a retry is shown by the run
`setup_retry`.

Abstracted: prompts, file modes, symlinks, the shape of credentials, host names
and record contents (a record is whose proof it carries), and pagination.

### Requests and its tables

`Requests` is one caller and what it wants. `Ask` has three outcomes: the surface
has no such operation (`AskInVain`), turns the request away before any service
sees it (`TurnAway`: bearer token, body limit, arguments), or starts the plan of
the service method (`Begin`). A plan is a sequence of stages, a stage a set of
steps (`asyncio.gather` is the only way two steps share a stage), a step a policy
check or a client call. Every call may end before it is sent (`Withhold`: no
token, no key, an account the policy does not have), and each provider may show
any conduct of `ProviderHttp`; a write has been applied for sure after "ok", not
at all after a refusal, and nobody knows after anything else (`MayHaveApplied`:
the assumption about providers the whole run rests on). `PublishBatch` is the
multipart call: Google applies any subset of the parts and answers in any order,
with a part missing, doubled, unknown or unreadable.

`RestRoutes` and `McpTools` are the registration and the dispatch code as sets of
operations, each a name and the service method it reaches, per value of the write
setting, with `WriteServices` for the services that `build_services` leaves out.
The listing and the hints are sets of their own, as in the code. The tables are
joined with `\sqcup`, which is union, and those of the clients' calls with `++`,
which is `@@`: names of their own, because the provers need the first to stay
closed and cannot open the second. `world` counts what each write of the plan
has done so far, `landed` what the current request did.

A cache template and an edge redirect are of a kind of their own, `upsert`: read
the ruleset, change the rule that is there or post one where there is none. A
caller can give up after the post (`GiveUp`), and the provider gets to it later
(`ApplyLate`; `late` counts them), after the caller's repetition if need be. A
template that is there twice is refused from then on (`Ambiguous`). Other writes
read nothing first, so for them early and late are the same.

Abstracted: the arguments (accepted or not), report arithmetic, response schemas
(accepted or malformed). The bodies of Cloudflare rules are left out. An onboarding, a verification,
the submission state of IndexNow and the claims of a monitor run are one step
here, because `ManagedRules`, `SiteSetup`, `IndexNow` and `Monitoring` take them apart.

## Runs

| run | question | instance and bounds |
|---|---|---|
| `monitor_runs` | can a punctual run lose its monitor, and does the store keep its leases under every lag? | 2 monitors, 2 workers, one of which may stall without limit, claim 4, renewal 1, lag 1 (`3*MaxLag + Renewal = Claim`, the tightest case), clock to 6, 2 claims |
| `monitor_history` | do status, `resolved_at` and the event log agree, are publications ordered, does pruning spare recent history? | 2 monitors on 2 sites, 2 workers that may both stall, 1 identity reported 0, 1 or 2 times, retention 1, clock to 2, 2 claims, operator edits while the log is shorter than 2 |
| `waits` | is every wait over in the end, and what do those who wait find? | the Lighthouse slot with 3 connections and 1 crash; the queue with 3 monitors, 1 scheduler, 1 request and 1 death; the listener with 3 connections that may stay silent; the token file with 2 calls on 1 lock and 2 tokens |
| `tokens` | is a rotation ever lost or a live grant deleted? | 2 calls, 2 providers, 3 tokens, 2 scope spellings, 1 authorization |
| `managed_rules` | are the owner's rules left alone, is there one rule of each key, are receipts true? | 2 calls of 1 process, either phase, 2 keys, 2 bodies, 3 rule ids, 1 rule of the owner, 2 late writes |
| `rules_create` | finding: a rule added before the first write is lost | 2 calls in 1 or 2 processes, 1 key, 1 late write |
| `audit_crawl` | is nothing fetched twice, is every depth a distance, may an unmarked report and its orphans be trusted? | root and 3 pages, 1 variant spelling and 1 refused one in sitemaps, 3 sitemaps (1 refused, 2 at most read), 4 pages, depth 2, 1 link per page followed, 3 issues, 3 links and 1 sitemap location in all |
| `audit_depth` | finding: an unmarked report whose orphan is linked by a crawled page | root and 3 pages in one spelling, 4 pages, depth 1 |
| `setup` | duplicates after a failure, true reports, and a boundary file that loads, names what exists and loses nothing | 2 callers, 1 site, 3 providers, 4 accounts (two of Google), 2 target ids (one that an account has), 4 initial files, 3 commands or requests |
| `setup_retry` | finding: a retry that makes a second stream | as `setup`, with 1 caller and 2 commands or requests |
| `requests` | do effects keep to the gate and the hints, do answers tell what was applied, do the surfaces agree; and do IndexNow's admissions keep the rate limit, the suppression and the bounded memory? | all 119 service methods, either write setting, every plan, every conduct at every call, 3 requests, batches of 3; beside them 3 URLs, 2 senders, batches of 2, window 2, 2 attempts, memory 2, clock to 4 |
| `upserts` | finding: a repeated idempotent tool adds a rule | the two methods that upsert, 2 requests |

`waits` and `requests` each check machines that share no state. A behaviour
follows one of them and leaves the others as they were at the start
(`FollowWorker`, `FollowQueue`, ...), so each machine is explored exactly as it
would be by itself, and the states add up instead of multiplying.

*Why the bounds are enough.* The properties relate at most two runs, two
monitors or two calls, so two of each show every interleaving that can break
them; two claims let a monitor be claimed and superseded. The
clock of `monitor_runs` runs past a whole claim and several renewals. In
`monitor_history` two runs with findings 0, 1 or 2 and the operator's edits
between them walk through opened, observed, resolved and reopened, and a
retention of one unit puts entries exactly at the cutoff and just beyond it into one behaviour. In `requests` a batch of URLs can overflow
the memory, and a window can close and open again. Three connections
let one audit run while one caller has hung up and another is refused. Three
tokens allow two rotations in a row, or a rotation beside an authorization. Three
rule ids let a rule be created, removed by the owner and created again beside a
rule of the owner's, and two keys show what a write of one does to the rule of the
other: the first write of a ruleset replaces all of it. `OneManagedRule` and
`ReceiptsTrue` speak of one process, so `managed_rules` has one; `ForeignKept` is
proved for any number, and `rules_create` has two. In `audit_crawl` every limit can be met exactly and passed by
one: pages (4 of 5 spellings), depth, links of a page, issues; two paths of
different length can lead to one page. In `setup` three commands let two overlap
and a third retry what one of them left behind; one site is enough because the
hazards are about two callers on one site and one file. In
`requests` a third request lets a caller go from one surface to the other and
back after an uncertain answer, and a batch of three can be answered in an order
that is not its own inverse. The
safety results that matter most are also proved for all values (below).

`CHECK_DEADLOCK FALSE` appears where the bounded clock and claim counters stop
the model (in `setup` and `requests` the number of commands and requests), where
a crawl is over, and in `waits`, where a machine may come to rest: a listener that
has returned, a token file that was revoked.
Symmetry over workers, monitors, URLs, calls and callers is used for safety runs only.

### Fairness

`MonitorScheduler`, `Lighthouse`, `TokenStore` and `LoopbackReceiver` state
fairness, of the program and its clocks and never of a peer.
`SupervisorFairness` is weak: the event loop runs what is ready (`Look`, `Wake`), a
bounded crawl ends one way or the other (`RunEnds`: every fetch has a timeout and
`max_pages` bounds their number), the clock passes a due time and an expiry, and a
dead container is restarted (the compose file restarts it). `AuditFairness` is
strong, and the one assumption about the world: the audit of a monitor that is
tried over and over succeeds in the end, whoever runs it. Without it
`DueMonitorsComplete` is false, because a monitor that fails for ever keeps the
head of the queue; with it the property is about crashes, competing requests and
failures that pass. Starting the service, requests, enabling, disabling and deaths
are not fair. In `Lighthouse` the worker's event loop weakly delivers the headers,
the end of a body (complete, or broken off), the deadline of a runner and its
"close" event. The runner may hang for ever and the client may wait for ever: the
deadline alone must free the slot. In `TokenStore` a request ends (it has a
timeout), an answer is handled, and a waiter of the lock gets it: `asyncio.Lock`
serves waiters in their order, hence strong fairness of `Load`. In
`LoopbackReceiver` the event loop runs handlers whose request is there, fires the
timer and wakes the waiter; no peer has to speak or to hang up, and
`WaiterReturns` says what follows: the listener is closed in any case, and the
caller gets its code or its error unless a connected peer stays silent for ever.
`ManagedRules`, `SiteSetup` and `Requests` claim no liveness: each of their
operations is a bounded sequence of calls with timeouts, and the questions are
about what is left behind.

## Proofs

`tlapm` checks every theorem to its last leaf; there are no assumptions but the
named ones of the modules.

* `TypeCorrect` (`Monitoring`): `TypeOK`, by one lemma per record the tables and
  the workers hold.
* `PublicationOrder`, `RevocationIsFinal`: `SnapshotsInClaimOrder` and
  `RevokedNeverSaves` for any number of monitors, workers and claims and any
  lag. Neither is inductive: the proof needs to know that every token in a
  snapshot is older than the token the row carries, that no two workers carry
  the same token, that revoked tokens appear in no row, and that no snapshot is
  from the future. That is `ClaimInv`.
* `PunctualRunKeepsClaim`: if `3 * MaxLag + RenewalSeconds <= ClaimSeconds`
  (`Punctual`), a run of a prompt worker that nobody called off owns its row, even
  beside workers that stall without limit. The inductive
  invariant is `LeaseInv`: a live run's claim reaches beyond the latest moment
  at which its next step may happen, phase by phase (the start, the renewal and
  the save may each be `MaxLag` late). With the code's 900 and 300 seconds the
  assumption allows a lag of 200 seconds.
* `StoreImplementsLeases`: `Spec` of `Monitoring` implies `LeasesHonoured`, that
  is, every step is a step of `RunLease` or a stutter, for every lag and any
  number of monitors and workers. It uses `TypeCorrect` and `ClaimInv`: that a
  token in a row is carried by its own monitor's run is what turns a release or a save
  into the abstract step of the right lease.
* `AcknowledgementIsTheOperators` (`Monitoring`): `AcknowledgementSticks`; a save
  that sees an acknowledged issue again leaves it acknowledged, however often a
  report names it.
* `LogsAccountForIssues`, `OnlyOldHistoryGoes` (`Monitoring`): `HistoryTellsStatus` and
  `RecentHistoryKept`. `HistoryInv` says that every log is in the order of its times
  and that the last entry that is no sighting is the status of its row, unless
  retention has taken all such entries (`Accounts`). From the order follows that
  what retention deletes is the beginning of a log (`OldComeFirst`, `Pruned`), so
  it cannot take the last such entry and leave an older one.
* `RememberedUrlsAreSuppressed` (`IndexNow`): `ResentOnlyAfterEviction`. `MemoryInv`
  says of every URL that it is in the memory, or that its window has passed, or that
  as many other URLs as the memory holds were accepted after it (`Recalls`); and that
  the memory is in the order of its times, each entry followed only by URLs accepted
  later (`InOrder`). From the order follows that eviction and pruning, which both
  take from the front, drop only what may be sent again. An acceptance takes its URLs
  out of the memory and puts them at its end, in the order of the request: the lemmas
  on `Nth` and `Selected` say what is where afterwards.
* `NoUrlTwiceInFlight` (`IndexNow`): `InFlightDisjoint`, from the fact that what a
  call has in flight is pending (`PendingInv`).
* `PendingIsReleased` (`IndexNow`): `PendingIsInFlight`; the invariant `HeldBackInv`
  adds that what is pending and in no call was left by a cancelled one.
* `RateLimitHolds` (`IndexNow`): `RateLimited` for every window and limit. The
  invariant `RateInv` says that `attempts` is a suffix of the history `starts`
  and that everything before it had left the window; the counting step needs
  that the young entries of an ordered sequence form a suffix of it.
* `OneAuditAtATime`, `BusyFlagIsTrue` (`Lighthouse`): `OneAudit` and `BusyIsTrue`
  for any number of connections and crashes, from `SlotInv`: at most one
  handler is inside the slot, a runner belongs to an auditing handler, and the
  flag is set exactly when there is such a handler.
* `LiveGrantKept` (`TokenStore`): `DeletedAfterRevocation`, from
  `RevocationInv`: once Google has accepted a revocation, the token that
  revoke-google had read stays dead.
* `ProvidersKeepRotation` (`TokenStore`): `RotationKept` for any number of provider
  objects and calls: answers that overlap, and that are stored in another order
  than Google gave them, lose no rotated token, unless one could not be stored
  (`lost`), something was revoked, or an unrotated record was written back
  (`stale`). `RotatedFresh` and `AuthFresh` say that a new token is known to nobody but
  the call (or the authorization) it was given to until that one stores it; `Kept`
  that it is alive meanwhile, and that a dead token in the file is about to be
  replaced by one of them.
* `OnlyTheValidCallbackCounts` (`LoopbackReceiver`): `OneValidatedCode`. `ReceiverInv`
  adds that the connection whose code is used has been closed, so that neither a
  later request nor its own handler can change what its peer was told.
* `OwnersRulesStay` (`ManagedRules`): `ForeignKept`: unless somebody creates the
  ruleset between Rankrat's GET and its PUT (`raced`), the owner's rules stay.
  The invariant `OwnerInv` says that a write by id that is planned or late never
  names a rule of the owner's, and that ids are never used twice.
* `OneRuleEach` (`ManagedRules`): `OneManagedRule`. `CallsInv` says that a call under
  way holds the lock of its process, so one process has one; `KeyedInv` that a
  write by id keeps the key of its rule; `OneRuleInv` that a creation is on its way
  only where there is no rule of its key.
* `ReceiptsSayWhatIs` (`ManagedRules`): `ReceiptsTrue`. `SaidInv` says that a write
  Cloudflare has answered is carried out unless a stranger came in between
  (`AnswersTrue`), that nothing is said of a ruleset that is about to be created
  (`PutFirst`), and that what was said is there or a later answer is on its way back
  (`SayingsTrue`).
* `NoPageTwice`, `DepthsAreDistances`, `UnmarkedIsComplete` (`SiteAudit`):
  `FetchedOnce`, `ShortestDepth` and `CompleteWithinLimits` for finite sites of any
  size and any limits. The invariant `CrawlInv` says that what was
  queued is in the queue or in the report and in one place only, that the queue
  holds two levels at most, the shallower one first, and that no page is deeper
  than the queue's head. It is kept by one lemma per way the queue changes
  (`SeedsKeep`, `TurnKeeps`).
* `UnmarkedTellsAll` (`SiteAudit`): `NothingDropped`, from `CrawlInv` and
  `FindingsInv`: while the crawl goes on every page with a problem has an issue, and
  the last turn adds all duplicate titles before it counts (`DuplicatesListed`,
  `TurnTells`). That the sitemaps a site names are finitely many is assumed.
* `OrphansHaveCauses` (`LinkReports`): `OrphansExplained` for any spellings of the
  evidence: a link that was followed is a page of an unmarked report under its own
  URL, hence an edge; so an alleged orphan that is linked is spelled in another way,
  or the page is at the depth limit, or it has too many links.
* `RecordsStayUnique` (`SiteSetup`): `RecordsUnique` for any number of
  callers, sites and accounts. `RecordInv`: until two creations of a record overlap
  (`recordsRaced`), the record is in the zone, or on its way there after its
  caller gave up, or about to be created by one request, and only one of these.
* `NoUpdateIsLost`, `RecordedResourcesExist`, `FileStaysLoadable` (`SiteSetup`):
  `UpdatesSurvive`, `FileNamesWhatExists` and `FileLoads`. `SetupInv` says of the
  file, and of every copy of it that some caller holds, that it is well typed, that
  its resources belong to one account each and that all of them exist; that a copy
  which is not stale equals the file; that the stages a request calls done
  are done at the providers; and that a property without a stream awaits at most
  one. `InitialStatesAssumption` (no account has resources at the start),
  `NoSiteAssumption` and `OrderNamesProviders` are its assumptions.
* `TargetsShareTheKey`: `TargetsUseTheKey`, from `KeyInv`: unless two initialisations
  created the key (`keysRaced`), every copy and every caller has the key of the file.
* `StreamsStayUnique`: `OneStreamPerSite`, from `StreamInv`: until two onboardings
  decided at once (`streamsRaced`) there is one stream at most, a creation is on its
  way only where there is none, and one request at most decides, knowing the streams there are.
* `ReportsTellTheTruth`: `ReportsAreTrue`, from `SetupInv` for onboarding and from
  `TruthInv` for verification: what a request has noted down of Google, Bing and the
  zone is so there, because nothing is taken back.

* `AnswersAreTrue` (`Requests`): `AnswersTellEffects`, for every method of every
  service, any arguments and any number of requests. `RequestInv` says that the plan under way is
  one of the method asked for and that only its items can change; `RunInv` that every
  write of the stages behind was applied, every check behind was passed, and that
  nothing was applied that is not behind or under way. That a code tells what was
  applied is a fact about the clients (`CodeTells`, one case per client); that a
  refusal of a later step does not hide the effect of an earlier one is a fact about the
  plans (`PlansFit`, one lemma per service): only in a remediation does a step follow a
  writing one (`AfterAnEffect`). `ReceiptsTell` is the same for the
  parts of a batch in whatever order they are answered. `IInv`, the conjunction, is
  inductive.
* `EffectsAreDeclared` (`Requests`): `DeclaredEffects`, from the same invariant and the
  tables: every tool beyond the reading ones is listed as writing, those that remove
  are called destructive, and those called idempotent repeat nothing (`ToolsTell`),
  while the plans of the reading ones write nothing (`ToolsRead`, `RoutesRead`).
  `LateInv` says that only an upsert can still be on its way after its request, and
  that the tool or route it came from is one that writes.
* `TablesAgree` (`Requests`): `SurfacesAgree`. `SurfaceInv` says that what was found on
  a surface is what its table has; the rest is that both tables reach the same
  methods (`SameMethods`) and that the listing names the dispatched tools
  (`ListedIsDispatched`), for both values of the write setting. Its third part
  follows, because each listed tool is dispatched to some method, and none to a method
  that was found absent.

*Model-checked only.* Liveness, because no backend knows fairness: `DueMonitorsComplete`
(`MonitorScheduler`), `SlotFreed` and `CallersAnswered` (`Lighthouse`), `WaiterReturns`
(`LoopbackReceiver`) and `CallsEnd` (`TokenStore`). Every other property of a passing
run is stated by a theorem, one of them under a condition that the theorem names
(`Punctual`).

## Findings

* `rules_create`: between the 404 and the PUT of the first ruleset somebody
  else's rule is lost, although Rankrat "never replaces a whole ruleset"
  (`docs/monitoring-and-remediation.md:199-200`).
* `audit_depth`: a crawl that stops at `max_depth` does not mark its report as
  truncated (`site_audit.py:211-223`), so the orphan report can call a page
  unlinked although a crawled page links to it. `docs/features.md` lists truncation
  at the depth limit among what the audit checks (148) and says that truncation is
  reported, "so you know when a graph or orphan result is partial" (172-173).
* `setup_retry`: `docs/ownership-and-onboarding.md:260-261` promise that a retry
  finds the GA4 stream and "won't duplicate" it. A creation that timed out and is
  carried out after the retry has listed the streams gives the site two, and every
  later onboarding of the site fails. A property whose stream was refused also
  stays behind without one, and a retry creates a second property: only streams
  are matched.
* `upserts`: two tools that MCP hints to be idempotent (`seo_mcp.py:219-227`) read
  the ruleset and post a rule where they see none. A post that is late, and the
  repetition the hint invites, make two rules; a cache template that is there
  twice is refused for good. The model lets Cloudflare accept the second rule. A
  cache rule carries nothing but a description that could tell it from the first; a
  redirect rule carries a `ref`, which Cloudflare may refuse to take twice.

More limits of the code are part of the models as the condition under which a
property holds, or as a step of its own:

* A refresh that was under way writes its record back after revoke-google has
  deleted the file and reported success (`google_search_console.py:556` against
  `google_oauth.py:575`); `DeletedAfterRevocation` speaks of the deletion, not of
  what a late writer does afterwards.
* A page that Search Console or Analytics spells in another way than its links do
  is called an orphan although it is linked (`internal_links.py:175-190`;
  `OrphansExplained` names the case). `docs/features.md:167` speaks of URLs with
  "provider evidence but no crawled internal path".
* Two onboardings of one site at the same time can give it two streams, as a late
  creation can (`streamsRaced` in `OneStreamPerSite`).
* A failure to write the boundary file after all provider stages is a plain error
  without the stages that are done (`WriteBoundaryFile`).
* Guided setup, onboarding and IndexNow initialisation replace the whole file from a copy that
  may be stale (`Stale` in `UpdatesSurvive`), two initialisations can each write a
  key (`keysRaced`), and one that names its target like an account writes a file
  that no process loads (`FileLoads`).
* Two verifications at the same time, or a late creation, leave a TXT record
  twice (`recordsRaced`).
* TIMEOUT, UNAVAILABLE and INVALID_RESPONSE leave it open whether a write was
  applied (`AnswersTellEffects`), also for remediation, where AUTHENTICATION,
  FORBIDDEN or RATE_LIMITED may come after the two sitemap submissions were
  applied. `docs/monitoring-and-remediation.md:158-160` call that workflow
  idempotent; whether a second submission does harm is for the provider to say.

* `_execute` waits with `asyncio.wait`, which does not cancel the audit when
  `_execute` itself is cancelled: the claim is released while the crawl goes on
  (phase `orphan`).
* `except Exception` does not see `CancelledError`, so the URLs of a cancelled
  IndexNow submission stay pending until the process restarts (`abandoned` in
  `PendingIsInFlight`).
* The loopback receiver waits for open connections to end and reads without a
  timeout, so a silent peer holds its caller beyond the timeout (`Idle` in
  `WaiterReturns`; the listener itself is closed in time); and a callback that is
  read after the timeout is answered with the success page although its code is
  dropped (`OneValidatedCode` does not mention the outcome).
* The lock of a token refresh belongs to one provider object and a process has
  many. Two rotations through two of them lose nothing, in whatever order they are
  stored (`RotationKept`). But a call whose answer brings no new token writes the
  whole record when only the scope list is spelled in another way, and so puts the
  token it had loaded over a newer one (`stale`; `google_search_console.py:556`).
* A failed run keeps its `next_run_at`, so a monitor whose audit fails every time
  stays at the head of the due order and the others wait (`AuditFairness`).
* The same page is fetched twice when a sitemap spells its URL in another way than
  the links do (`FetchedOnce`), and one sitemap location with a fragment, or one
  link that `urljoin` refuses, ends the whole audit each time (`SitemapRaises`,
  `VisitRaises`).
* Links beyond `MAX_SITE_AUDIT_LINKS_PER_PAGE` are not followed, and sitemap
  locations beyond `max_pages` not taken, without the mark either
  (`CompleteWithinLimits` speaks of what was taken).
* `save_run` resolves the issues of every page that is not in the report, also
  when the crawl did not reach it (not modelled yet).
* A create request that arrives after its caller's timeout, or another process,
  leaves two rules of one key (`OneProcess`, `strayed` in `OneManagedRule`; `upserts` is what that means to a client); and a
  first write of a ruleset that arrives after its caller's timeout replaces the whole
  ruleset, with the rules Rankrat has made of other keys since (`Keys` of a put).

## Not modelled, and why

* The arithmetic of reports (trends, anomalies, opportunity scores, audit scores),
  response schemas, request schemas and the OpenAPI document: pure functions of
  one answer or one request, which the unit tests cover value by value.
* The membership tests and limits of the boundary policy: immutable after load;
  `Requests` takes their result.
* The proxy of the Lighthouse worker, which filters one request at a time, and
  the browsers that a killed runner leaves behind.
* The checks of file metadata and symlinks, the log, the stdio loop.
* `config.py` and `cli.py` parse settings once; the wrapper and the installer
  drive Docker, whose state they do not keep.

## Plan

Done, in this order: `IssueLifecycle`, `Monitoring`, `MonitorScheduler`,
`IndexNow`, `Lighthouse`, `TokenStore` and `LoopbackReceiver`, `ManagedRules`,
`SiteAudit` and `LinkReports` with their proofs; then the setup of sites
(`BoundaryFile` to `SiteSetup`), the refinement of `RunLease`, and the requests
with their tables, and the proofs about `SiteSetup`, the memory of `IndexNow`, the
receiver and the requests.

Left:

1. The reports of `SiteAudit` as the findings of `Monitoring`: which issues may be
   resolved after a crawl that was cut short.
2. Abstract specifications that more of the components implement, as `Monitoring`
   implements `RunLease`: the audit slot of `Lighthouse` as a lock, the memory of
   `IndexNow` as a set of URLs that may not be sent yet. The invariants proved
   here (`SlotInv`, `MemoryInv`) are what their refinement needs.
