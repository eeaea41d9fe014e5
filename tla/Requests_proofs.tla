---------------------------- MODULE Requests_proofs ----------------------------
(***************************************************************************)
(* Theorems about Requests: what an answer tells of the effects of a       *)
(* request, what a tool tells of them beforehand, and that the surfaces    *)
(* offer the same, for any number of requests and batches of any size.     *)
(***************************************************************************)
EXTENDS Requests, FiniteSetTheorems, SequenceTheorems, TLAPS

-------------------------------------------------------------------------------
(* The clients, and the codes of those that write.                         *)

Clients == {"bing", "search_console", "indexing", "analytics", "analytics_admin",
            "tag_manager", "pagespeed", "crux", "clarity", "lighthouse", "cloudflare",
            "dns", "indexnow", "pages", "crawl", "store", "setup"}

(* The clients with a call that one HTTP exchange applies.                 *)
Writers == {"bing", "search_console", "indexing", "analytics_admin", "tag_manager",
            "cloudflare", "indexnow", "store"}

ConductsOf(client) == IF client = "store" THEN StoreConducts ELSE Conducts

(* "OK" is only said of a call that was applied, and a refusal, or an      *)
(* answer that nothing was sent, of none that may have been.               *)
LEMMA CodeTells ==
  ASSUME NEW c \in Writers, NEW conduct \in ConductsOf(c)
  PROVE  /\ Code[c][conduct] = "OK" => MayHaveApplied(conduct) = {TRUE}
         /\ Code[c][conduct] \in Refusals \cup NotSent => MayHaveApplied(conduct) = {FALSE}
<1> DEFINE Tells(code) ==
      /\ code = "OK" => MayHaveApplied(conduct) = {TRUE}
      /\ code \in Refusals \cup NotSent => MayHaveApplied(conduct) = {FALSE}
<1>1. ASSUME conduct \in Conducts
      PROVE  Tells(UsualCode[conduct])
  BY <1>1 DEF UsualCode, Conducts, MayHaveApplied, Refusals, NotSent
<1>2. CASE c \in {"search_console", "indexing", "analytics_admin", "tag_manager", "cloudflare"}
  <2>1. Code[c] = UsualCode
    BY <1>2
       DEF Code, SearchConsoleCode, AnalyticsAdminCode, TagManagerCode, CloudflareCode
  <2>2. conduct \in Conducts
    BY <1>2 DEF ConductsOf
  <2>3. QED
    BY <1>1, <2>1, <2>2
<1>3. CASE c = "bing"
  <2>1. conduct \in Conducts
    BY <1>3 DEF ConductsOf
  <2>2. Code[c] = BingCode
    BY <1>3 DEF Code
  <2>3. CASE conduct \in {"forbidden", "denied_in_body"}
    <3>1. BingCode[conduct] \in {"AUTHENTICATION", "FORBIDDEN"}
      BY <2>1, <2>3 DEF BingCode, UsualCode, Conducts
    <3>2. MayHaveApplied(conduct) = {FALSE}
      BY <2>3 DEF MayHaveApplied
    <3>3. QED
      BY <2>2, <3>1, <3>2
  <2>4. CASE conduct \notin {"forbidden", "denied_in_body"}
    <3>1. BingCode[conduct] = UsualCode[conduct]
      BY <2>1, <2>4 DEF BingCode, UsualCode
    <3>2. QED
      BY <1>1, <2>1, <2>2, <3>1
  <2>5. QED
    BY <2>3, <2>4
<1>4. CASE c = "indexnow"
  <2>1. conduct \in Conducts
    BY <1>4 DEF ConductsOf
  <2>2. Code[c] = IndexNowCode
    BY <1>4 DEF Code
  <2>3. CASE conduct = "unauthorized"
    <3>1. IndexNowCode[conduct] = "INVALID_RESPONSE"
      BY <2>3 DEF IndexNowCode, UsualCode, Conducts
    <3>2. QED
      BY <2>2, <3>1 DEF Refusals, NotSent
  <2>4. CASE conduct # "unauthorized"
    <3>1. IndexNowCode[conduct] = UsualCode[conduct]
      BY <2>1, <2>4 DEF IndexNowCode, UsualCode
    <3>2. QED
      BY <1>1, <2>1, <2>2, <3>1
  <2>5. QED
    BY <2>3, <2>4
<1>5. CASE c = "store"
  <2>1. conduct \in StoreConducts
    BY <1>5 DEF ConductsOf
  <2>2. Code[c][conduct] = (IF conduct = "ok" THEN "OK" ELSE "rejected")
    BY <1>5, <2>1 DEF Code, StoreCode, StoreConducts, Conducts
  <2>3. MayHaveApplied(conduct) = (IF conduct = "ok" THEN {TRUE} ELSE {FALSE})
    BY <2>1 DEF MayHaveApplied, StoreConducts
  <2>4. QED
    BY <2>2, <2>3 DEF Refusals, NotSent
<1>6. QED
  BY <1>2, <1>3, <1>4, <1>5 DEF Writers

(* The two clients a request calls one after the other to write.           *)
LEMMA NeverWithheld ==
  ASSUME NEW c \in {"search_console", "bing"}
  PROVE  /\ \A code \in Unsent(c) : code \notin NotSent
         /\ \A conduct \in Conducts : Code[c][conduct] \notin NotSent
<1>1. \A conduct \in Conducts : Code[c][conduct] \notin NotSent
  BY DEF Code, BingCode, SearchConsoleCode, UsualCode, Conducts, NotSent
<1>2. Owner["search_console"] = "google" /\ Owner["bing"] = "bing"
  BY DEF Owner, Calls
<1>3. QED
  BY <1>1, <1>2 DEF Unsent, NotSent, FailureCodes

LEMMA PartTells ==
  ASSUME NEW status \in PartConducts
  PROVE  /\ PartCode(status) = "OK" => MayHaveApplied(status) = {TRUE}
         /\ PartCode(status) \in Refusals \cup {"INVALID_RESPONSE"} =>
                MayHaveApplied(status) = {FALSE}
  BY DEF PartConducts, PartCode, MayHaveApplied, Refusals

-------------------------------------------------------------------------------
(* What the clients' calls do.                                             *)

LEMMA CallsOfClients ==
  /\ DOMAIN Calls = Clients
  /\ Calls["bing"] = BingCalls
  /\ Calls["search_console"] = SearchConsoleCalls
  /\ Calls["indexing"] = IndexingCalls
  /\ Calls["analytics"] = AnalyticsCalls
  /\ Calls["analytics_admin"] = AnalyticsAdminCalls
  /\ Calls["tag_manager"] = TagManagerCalls
  /\ Calls["pagespeed"] = PageSpeedCalls
  /\ Calls["crux"] = CruxCalls
  /\ Calls["clarity"] = ClarityCalls
  /\ Calls["lighthouse"] = LighthouseCalls
  /\ Calls["cloudflare"] = CloudflareCalls
  /\ Calls["dns"] = DnsCalls
  /\ Calls["indexnow"] = IndexNowCalls
  /\ Calls["pages"] = PageCalls
  /\ Calls["crawl"] = CrawlCalls
  /\ Calls["store"] = StoreCalls
  /\ Calls["setup"] = SetupCalls
  BY DEF Calls, Clients

-------------------------------------------------------------------------------
(* Plans.                                                                  *)

Effects == {"put", "post", "delete", "upsert", "workflow", "batch"}
Policies == {"google", "bing", "cloudflare", "clarity", "indexnow", "site"}

Does(client, method, kind) ==
  client \in Clients /\ method \in DOMAIN Calls[client] /\ Calls[client][method] = kind

Step == ({"policy"} \X Policies)
        \cup {<<client, method>> : client \in Clients,
                                  method \in UNION {DOMAIN Calls[c] : c \in Clients}}

(* Steps other than reads run alone.                                       *)
Staged(p) ==
  /\ p \in Seq(SUBSET Step)
  /\ \A i \in 1..Len(p) : \A s \in p[i] :
         /\ Kind(s) \in {"check", "read"} \cup Effects
         /\ Kind(s) # "read" => p[i] = {s}

Quiet(p) ==
  /\ Staged(p)
  /\ \A i \in 1..Len(p) : \A s \in p[i] : Kind(s) \in {"check", "read"}

(* A call with effects is the last of its plan, unless all effects before  *)
(* it are puts; then it is a put or a post of a client that withholds no   *)
(* call it was asked for, and its account was checked earlier.             *)
Follows(p, i, j) ==
  \A s \in p[i], t \in p[j] : Kind(s) \in Effects =>
      /\ s # t
      /\ Kind(s) = "put" /\ Kind(t) \in {"put", "post"}
      /\ t[1] \in {"search_console", "bing"}
      /\ \E k \in 1..(i-1) : p[k] = {<<"policy", Owner[t[1]]>>}

(* One HTTP exchange applies a write, and a batch is one of them.          *)
Carries(client, kind) ==
  /\ kind \in Effects \ {"workflow"} => client \in Writers
  /\ kind = "batch" => client = "indexing"

Sound(p) ==
  /\ Staged(p)
  /\ \A i \in 1..Len(p) : \A s \in p[i] :
         Carries(s[1], Kind(s))
  /\ \A j \in 1..Len(p) : \A i \in 1..(j-1) : Follows(p, i, j)

LEMMA KindOfCheck ==
  ASSUME NEW owner \in Policies
  PROVE  <<"policy", owner>> \in Step /\ Kind(<<"policy", owner>>) = "check"
  BY DEF Step, Kind

LEMMA KindOfCall ==
  ASSUME NEW c, NEW m, NEW kind, Does(c, m, kind)
  PROVE  <<c, m>> \in Step /\ Kind(<<c, m>>) = kind
<1>1. c \notin {"policy", "part"}
  BY DEF Does, Clients
<1>2. QED
  BY <1>1 DEF Does, Step, Kind

LEMMA CheckIsQuiet ==
  ASSUME NEW owner \in Policies
  PROVE  Quiet(Check(owner)) /\ Len(Check(owner)) = 1
  BY KindOfCheck DEF Check, Quiet, Staged

LEMMA ReadIsQuiet ==
  ASSUME NEW c, NEW m, Does(c, m, "read")
  PROVE  Quiet(Call(c, m))
  BY KindOfCall DEF Call, Quiet, Staged

LEMMA GatheredReadsAreQuiet ==
  ASSUME NEW c1, NEW m1, Does(c1, m1, "read"), NEW c2, NEW m2, Does(c2, m2, "read")
  PROVE  Quiet(Gather(c1, m1, c2, m2))
  BY KindOfCall DEF Gather, Quiet, Staged

LEMMA QuietAfterQuiet ==
  ASSUME NEW p, NEW q, Quiet(p), Quiet(q)
  PROVE  Quiet(p \o q)
<1>1. p \in Seq(SUBSET Step) /\ q \in Seq(SUBSET Step)
  BY DEF Quiet, Staged
<1>2. /\ p \o q \in Seq(SUBSET Step)
      /\ Len(p \o q) = Len(p) + Len(q)
      /\ \A i \in 1..(Len(p) + Len(q)) :
             (p \o q)[i] = IF i <= Len(p) THEN p[i] ELSE q[i - Len(p)]
  BY <1>1, ConcatProperties
<1>3. ASSUME NEW i \in 1..(Len(p) + Len(q))
      PROVE  \/ i \in 1..Len(p) /\ (p \o q)[i] = p[i]
             \/ i - Len(p) \in 1..Len(q) /\ (p \o q)[i] = q[i - Len(p)]
  BY <1>1, <1>2
<1>4. QED
  BY <1>2, <1>3 DEF Quiet, Staged

-------------------------------------------------------------------------------
(* The service methods that write, those that may remove something, and    *)
(* those a repetition of which changes nothing more.                       *)

WriteMethods ==
  ({"google_analytics_admin"} \X {"rename_account", "rename_property"})
  \cup ({"google_tag_manager"} \X
        {"create_container", "delete_container", "create_workspace", "delete_workspace",
         "create_entity", "update_entity", "delete_entity", "create_version",
         "publish_version"})
  \cup ({"bing_webmaster"} \X {"submit_url_batch", "submit_site", "submit_sitemap"})
  \cup ({"google_indexing"} \X {"submit", "submit_batch"})
  \cup ({"cloudflare_performance"} \X {"purge", "apply_cache_template"})
  \cup ({"edge_redirects"} \X {"upsert", "delete"})
  \cup ({"monitoring"} \X {"create_monitor", "update_monitor", "delete_monitor",
                           "set_issue_status", "run_monitor"})
  \cup ({"bing_content", "google_sites", "google_sitemaps", "indexnow",
         "site_onboarding"} \X {"submit"})
  \cup {<<"site_remediation", "apply">>, <<"site_ownership", "verify">>}

RemovingMethods ==
  {<<"google_tag_manager", "delete_container">>, <<"google_tag_manager", "delete_workspace">>,
   <<"google_tag_manager", "delete_entity">>, <<"bing_webmaster", "submit_site">>,
   <<"bing_webmaster", "submit_sitemap">>, <<"google_sites", "submit">>,
   <<"google_sitemaps", "submit">>, <<"edge_redirects", "delete">>,
   <<"monitoring", "delete_monitor">>}

RepeatableMethods ==
  {<<"monitoring", "update_monitor">>, <<"monitoring", "set_issue_status">>,
   <<"cloudflare_performance", "apply_cache_template">>, <<"edge_redirects", "upsert">>,
   <<"google_tag_manager", "update_entity">>}

(* What a call of a method may do.                                         *)
Permitted(target, kind) ==
  /\ kind \in Effects => target \in WriteMethods
  /\ kind = "delete" => target \in RemovingMethods
  /\ kind \in Effects => target \notin RepeatableMethods \/ kind \in {"put", "upsert"}

Fits(target, p) ==
  /\ Sound(p)
  /\ \A i \in 1..Len(p) : \A s \in p[i] : Permitted(target, Kind(s))

TableFits(service, table) ==
  \A m \in DOMAIN table : \A p \in table[m] : Fits(<<service, m>>, p)

Sendable(target, c, m) ==
  \E kind \in {"read"} \cup Effects :
      /\ Does(c, m, kind)
      /\ Carries(c, kind)
      /\ Permitted(target, kind)

LEMMA QuietFits ==
  ASSUME NEW target, NEW p, Quiet(p)
  PROVE  Fits(target, p)
<1>1. \A i \in 1..Len(p) : \A s \in p[i] : Kind(s) \notin Effects
  BY DEF Quiet, Effects
<1>2. \A j \in 1..Len(p) : \A i \in 1..(j-1) : i \in 1..Len(p)
  BY DEF Quiet, Staged
<1>3. QED
  BY <1>1, <1>2 DEF Quiet, Fits, Sound, Follows, Permitted, Effects, Carries

(* A plan and one more stage, of a single step.                            *)
Then(q, w) == q \o <<{w}>>

LEMMA JoinedStage ==
  ASSUME NEW q \in Seq(SUBSET Step), NEW w \in Step
  PROVE  /\ Then(q, w) \in Seq(SUBSET Step)
         /\ Len(Then(q, w)) = Len(q) + 1
         /\ \A i \in 1..Len(q) : Then(q, w)[i] = q[i]
         /\ Then(q, w)[Len(q) + 1] = {w}
<1> DEFINE r == <<{w}>>
<1>1. r \in Seq(SUBSET Step) /\ Len(r) = 1 /\ r[1] = {w} /\ Len(q) \in Nat
  OBVIOUS
<1> HIDE DEF r
<1>2. /\ q \o r \in Seq(SUBSET Step)
      /\ Len(q \o r) = Len(q) + Len(r)
      /\ \A i \in 1..(Len(q) + Len(r)) :
             (q \o r)[i] = IF i <= Len(q) THEN q[i] ELSE r[i - Len(q)]
  BY <1>1, ConcatProperties
<1>3. Then(q, w) = q \o r
  BY DEF Then, r
<1>4. QED
  BY <1>1, <1>2, <1>3

LEMMA QuietKinds ==
  ASSUME NEW q, Quiet(q), NEW i \in 1..Len(q), NEW s \in q[i]
  PROVE  /\ Kind(s) \in {"check", "read"}
         /\ Kind(s) \notin Effects
         /\ Kind(s) # "read" => q[i] = {s}
  BY DEF Quiet, Staged, Effects

LEMMA AppendedFits ==
  ASSUME NEW target, NEW q, Quiet(q), NEW w \in Step, NEW p \in Seq(SUBSET Step),
         Len(p) = Len(q) + 1,
         \A i \in 1..Len(q) : p[i] = q[i],
         p[Len(q) + 1] = {w},
         Kind(w) \in {"read"} \cup Effects,
         Carries(w[1], Kind(w)),
         Permitted(target, Kind(w))
  PROVE  Fits(target, p)
<1>1. Len(q) \in Nat
  BY DEF Quiet, Staged
<1>2. ASSUME NEW i \in 1..Len(p)
      PROVE  i \in 1..Len(q) \/ p[i] = {w}
  BY <1>1, <1>2
<1>3. ASSUME NEW i \in 1..Len(p), NEW s \in p[i]
      PROVE  /\ Kind(s) \in {"check", "read"} \cup Effects
             /\ Kind(s) # "read" => p[i] = {s}
             /\ Carries(s[1], Kind(s))
             /\ Permitted(target, Kind(s))
  <2>1. CASE i \in 1..Len(q)
    <3>1. s \in q[i] /\ p[i] = q[i]
      BY <1>3, <2>1
    <3>2. QED
      BY <2>1, <3>1, QuietKinds DEF Permitted, Carries
  <2>2. CASE p[i] = {w}
    BY <1>3, <2>2
  <2>3. QED
    BY <1>2, <1>3, <2>1, <2>2
<1>4. ASSUME NEW j \in 1..Len(p), NEW i \in 1..(j-1)
      PROVE  Follows(p, i, j)
  <2>1. i \in 1..Len(q)
    BY <1>1, <1>4
  <2>2. p[i] = q[i]
    BY <2>1
  <2>3. QED
    BY <2>1, <2>2, QuietKinds DEF Follows
<1>5. QED
  BY <1>3, <1>4 DEF Fits, Sound, Staged

LEMMA CallFits ==
  ASSUME NEW target, NEW q, Quiet(q), NEW c, NEW m, Sendable(target, c, m)
  PROVE  Fits(target, q \o Call(c, m))
<1>1. PICK kind \in {"read"} \cup Effects :
         /\ Does(c, m, kind)
         /\ Carries(c, kind)
         /\ Permitted(target, kind)
  BY DEF Sendable
<1>2. <<c, m>> \in Step /\ Kind(<<c, m>>) = kind
  BY <1>1, KindOfCall
<1>3. q \in Seq(SUBSET Step) /\ Len(q) \in Nat
  BY DEF Quiet, Staged
<1>4. q \o Call(c, m) = Then(q, <<c, m>>)
  BY DEF Then, Call
<1>5. /\ Kind(<<c, m>>) \in {"read"} \cup Effects
      /\ Carries(<<c, m>>[1], Kind(<<c, m>>))
      /\ Permitted(target, Kind(<<c, m>>))
  BY <1>1, <1>2
<1>6. Fits(target, Then(q, <<c, m>>))
  BY <1>2, <1>3, <1>5, JoinedStage, AppendedFits
<1>7. QED
  BY <1>4, <1>6

LEMMA ReadSendable ==
  ASSUME NEW target, NEW c, NEW m, Does(c, m, "read")
  PROVE  Sendable(target, c, m)
  BY DEF Sendable, Permitted, Effects, Carries

LEMMA WriteSendable ==
  ASSUME NEW target, NEW c \in Writers, NEW m, NEW kind \in {"put", "post", "delete", "upsert", "batch"},
         Does(c, m, kind), Permitted(target, kind), kind = "batch" => c = "indexing"
  PROVE  Sendable(target, c, m)
  BY DEF Sendable, Effects, Carries

LEMMA LoneCallFits ==
  ASSUME NEW target, NEW c, NEW m, Sendable(target, c, m)
  PROVE  Fits(target, Call(c, m))
<1>1. Quiet(<<>>)
  BY DEF Quiet, Staged
<1>2. <<>> \o Call(c, m) = Call(c, m)
  BY DEF Call
<1>3. QED
  BY <1>1, <1>2, CallFits

LEMMA DirectFits ==
  ASSUME NEW service, NEW c, NEW f,
         \A m \in DOMAIN f : Sendable(<<service, m>>, c, f[m])
  PROVE  TableFits(service, Direct(c, f))
  BY LoneCallFits DEF TableFits, Direct

LEMMA CheckedFits ==
  ASSUME NEW service, NEW owner \in Policies, NEW c, NEW f,
         \A m \in DOMAIN f : Sendable(<<service, m>>, c, f[m])
  PROVE  TableFits(service, Checked(owner, c, f))
  BY CheckIsQuiet, CallFits DEF TableFits, Checked

LEMMA MergedDomain ==
  ASSUME NEW f, NEW g
  PROVE  DOMAIN (f ++ g) = DOMAIN f \cup DOMAIN g
  BY DEF ++

LEMMA MergedFirst ==
  ASSUME NEW f, NEW g, NEW x \in DOMAIN f
  PROVE  (f ++ g)[x] = f[x]
  BY DEF ++

LEMMA MergedSecond ==
  ASSUME NEW f, NEW g, NEW x \in DOMAIN g, x \notin DOMAIN f
  PROVE  (f ++ g)[x] = g[x]
  BY DEF ++

LEMMA MergedFits ==
  ASSUME NEW service, NEW f, NEW g, TableFits(service, f), TableFits(service, g)
  PROVE  TableFits(service, f ++ g)
<1> SUFFICES ASSUME NEW m \in DOMAIN (f ++ g), NEW p \in (f ++ g)[m]
             PROVE  Fits(<<service, m>>, p)
  BY DEF TableFits
<1>1. CASE m \in DOMAIN f
  <2>1. p \in f[m]
    BY <1>1, MergedFirst
  <2>2. QED
    BY <1>1, <2>1 DEF TableFits
<1>2. CASE m \notin DOMAIN f
  <2>1. m \in DOMAIN g
    BY <1>2, MergedDomain
  <2>2. p \in g[m]
    BY <1>2, <2>1, MergedSecond
  <2>3. QED
    BY <2>1, <2>2 DEF TableFits
<1>3. QED
  BY <1>1, <1>2

-------------------------------------------------------------------------------
(* What each client's calls do.                                            *)

LEMMA BingDoes ==
  ASSUME NEW m
  PROVE  /\ m \in {"readiness", "list_sites", "read_rank_and_traffic_stats",
                   "read_query_stats", "read_page_stats", "read_query_page_stats",
                   "read_page_query_stats"} => Does("bing", m, "read")
         /\ m \in {"read_url_submission_quota", "read_crawl_issues", "read_crawl_stats",
                   "read_feeds", "read_link_counts", "read_url_links",
                   "read_url_information", "read_keyword_stats",
                   "read_related_keywords"} => Does("bing", m, "read")
         /\ m \in {"submit_url_batch", "submit_content"} => Does("bing", m, "post")
         /\ m \in {"add_site", "submit_feed"} => Does("bing", m, "put")
         /\ m \in {"remove_site", "remove_feed"} => Does("bing", m, "delete")
  BY CallsOfClients, SMTT(30) DEF Does, Clients, BingCalls, BingSiteCalls, BingCrawlCalls,
     BingUrlCalls, BingWrites, Reads, ++

LEMMA SearchConsoleDoes ==
  ASSUME NEW m
  PROVE  /\ m \in {"readiness", "list_sites", "search_analytics", "get_site",
                   "list_sitemaps", "get_sitemap", "inspect_url"} =>
                Does("search_console", m, "read")
         /\ m \in {"add_site", "submit_sitemap"} => Does("search_console", m, "put")
         /\ m \in {"delete_site", "delete_sitemap"} => Does("search_console", m, "delete")
  BY CallsOfClients DEF Does, Clients, SearchConsoleCalls, SearchConsoleSiteCalls,
     SearchConsoleSitemapCalls, Reads, ++

LEMMA GoogleDoes ==
  /\ Does("indexing", "publish", "post")
  /\ Does("indexing", "metadata", "read")
  /\ Does("indexing", "publish_batch", "batch")
  /\ \A m \in {"run_report", "run_realtime_report", "run_funnel_report",
               "list_account_summaries"} : Does("analytics", m, "read")
  /\ Does("analytics_admin", "list_data_streams", "read")
  /\ \A m \in {"update_account_display_name", "update_property_display_name"} :
         Does("analytics_admin", m, "put")
  /\ Does("pagespeed", "analyze", "read")
  /\ Does("crux", "query", "read")
  /\ Does("lighthouse", "audit", "read")
  BY CallsOfClients DEF Does, Clients, IndexingCalls, AnalyticsCalls, AnalyticsAdminCalls,
     PageSpeedCalls, CruxCalls, LighthouseCalls, Reads, ++

LEMMA TagManagerDoes ==
  ASSUME NEW m
  PROVE  /\ m \in {"list_accounts", "list_containers", "list_workspaces",
                   "list_entities"} => Does("tag_manager", m, "read")
         /\ m \in {"create_container", "create_workspace", "create_entity",
                   "create_workspace_version"} => Does("tag_manager", m, "post")
         /\ m \in {"delete_container", "delete_workspace", "delete_entity"} =>
                Does("tag_manager", m, "delete")
         /\ m \in {"update_entity", "publish_version"} => Does("tag_manager", m, "put")
  BY CallsOfClients DEF Does, Clients, TagManagerCalls, TagManagerContainerCalls,
     TagManagerWorkspaceCalls, TagManagerVersionCalls, Reads, ++

LEMMA OtherDoes ==
  /\ Does("clarity", "live_insights", "read")
  /\ Does("cloudflare", "analytics", "read")
  /\ Does("cloudflare", "list_edge_redirects", "read")
  /\ Does("cloudflare", "purge_urls", "post")
  /\ Does("cloudflare", "apply_cache_template", "upsert")
  /\ Does("cloudflare", "upsert_edge_redirect", "upsert")
  /\ Does("cloudflare", "delete_edge_redirect", "delete")
  /\ Does("dns", "readiness", "read")
  /\ Does("dns", "resolve_zone", "read")
  /\ Does("indexnow", "submit", "post")
  /\ Does("pages", "fetch", "read")
  /\ Does("crawl", "audit", "read")
  /\ Does("setup", "check", "read")
  /\ Does("setup", "verify", "workflow")
  /\ Does("setup", "onboard", "workflow")
  BY CallsOfClients DEF Does, Clients, ClarityCalls, CloudflareCalls,
     CloudflareAnalyticsCalls, CloudflareCacheCalls, CloudflareRedirectCalls, DnsCalls,
     IndexNowCalls, PageCalls, CrawlCalls, SetupCalls, Reads, ++

LEMMA StoreDoes ==
  ASSUME NEW m
  PROVE  /\ m \in {"list_monitors", "list_snapshots", "list_issues",
                   "list_issue_events"} => Does("store", m, "read")
         /\ m \in {"create_monitor", "save_run"} => Does("store", m, "post")
         /\ m \in {"update_monitor", "set_issue_status"} => Does("store", m, "put")
         /\ m = "delete_monitor" => Does("store", m, "delete")
  BY CallsOfClients DEF Does, Clients, StoreCalls, Reads, ++

(* What the writing methods may do.                                        *)
LEMMA MayPost ==
  ASSUME NEW m
  PROVE  /\ m \in {"create_container", "create_workspace", "create_entity",
                   "create_version"} => Permitted(<<"google_tag_manager", m>>, "post")
         /\ m \in {"create_monitor", "run_monitor"} => Permitted(<<"monitoring", m>>, "post")
         /\ Permitted(<<"bing_webmaster", "submit_url_batch">>, "post")
         /\ Permitted(<<"bing_content", "submit">>, "post")
         /\ Permitted(<<"google_indexing", "submit">>, "post")
         /\ Permitted(<<"google_indexing", "submit_batch">>, "batch")
         /\ Permitted(<<"cloudflare_performance", "purge">>, "post")
         /\ Permitted(<<"indexnow", "submit">>, "post")
  BY DEF Permitted, Effects, WriteMethods, RemovingMethods, RepeatableMethods

LEMMA MayPut ==
  ASSUME NEW m
  PROVE  /\ m \in {"update_entity", "publish_version"} =>
                Permitted(<<"google_tag_manager", m>>, "put")
         /\ m \in {"update_monitor", "set_issue_status"} =>
                Permitted(<<"monitoring", m>>, "put")
         /\ m \in {"rename_account", "rename_property"} =>
                Permitted(<<"google_analytics_admin", m>>, "put")
         /\ m \in {"submit_site", "submit_sitemap"} =>
                Permitted(<<"bing_webmaster", m>>, "put")
         /\ Permitted(<<"google_sites", "submit">>, "put")
         /\ Permitted(<<"google_sitemaps", "submit">>, "put")
         /\ Permitted(<<"cloudflare_performance", "apply_cache_template">>, "upsert")
         /\ Permitted(<<"edge_redirects", "upsert">>, "upsert")
  BY DEF Permitted, Effects, WriteMethods, RemovingMethods, RepeatableMethods

LEMMA MayDelete ==
  ASSUME NEW m
  PROVE  /\ m \in {"delete_container", "delete_workspace", "delete_entity"} =>
                Permitted(<<"google_tag_manager", m>>, "delete")
         /\ m \in {"submit_site", "submit_sitemap"} =>
                Permitted(<<"bing_webmaster", m>>, "delete")
         /\ Permitted(<<"monitoring", "delete_monitor">>, "delete")
         /\ Permitted(<<"google_sites", "submit">>, "delete")
         /\ Permitted(<<"google_sitemaps", "submit">>, "delete")
         /\ Permitted(<<"edge_redirects", "delete">>, "delete")
  BY DEF Permitted, Effects, WriteMethods, RemovingMethods, RepeatableMethods

LEMMA MayDoMore ==
  /\ Permitted(<<"site_ownership", "verify">>, "workflow")
  /\ Permitted(<<"site_onboarding", "submit">>, "workflow")
  /\ Permitted(<<"site_remediation", "apply">>, "put")
  /\ Permitted(<<"site_remediation", "apply">>, "post")
  /\ \A target : Permitted(target, "check") /\ Permitted(target, "read")
  BY DEF Permitted, Effects, WriteMethods, RemovingMethods, RepeatableMethods

-------------------------------------------------------------------------------
(* The plans of the services.                                              *)

LEMMA QuietTable ==
  ASSUME NEW service, NEW S, NEW p, Quiet(p)
  PROVE  TableFits(service, [m \in S |-> {p}])
  BY QuietFits DEF TableFits

LEMMA DirectReads ==
  ASSUME NEW service, NEW c, NEW f, \A m \in DOMAIN f : Does(c, f[m], "read")
  PROVE  TableFits(service, Direct(c, f))
  BY ReadSendable, DirectFits

LEMMA CheckedReads ==
  ASSUME NEW service, NEW owner \in Policies, NEW c, NEW f,
         \A m \in DOMAIN f : Does(c, f[m], "read")
  PROVE  TableFits(service, Checked(owner, c, f))
  BY ReadSendable, CheckedFits

LEMMA NoPlanIsQuiet == Quiet(<<>>)
  BY DEF Quiet, Staged

LEMMA LocalFits ==
  ASSUME NEW s
  PROVE  /\ TableFits(s, LocalPlans) /\ TableFits(s, SitesPlans)
         /\ TableFits(s, DiagnosticsPlans) /\ TableFits(s, GuidePlans)
  BY NoPlanIsQuiet, QuietFits DEF TableFits, LocalPlans, SitesPlans, DiagnosticsPlans,
     GuidePlans, Local

LEMMA SchemaFits == TableFits("local_schema", SchemaPlans)
<1>1. Quiet(Call("pages", "fetch"))
  BY OtherDoes, ReadIsQuiet
<1>2. QED
  BY <1>1, NoPlanIsQuiet, QuietFits DEF TableFits, SchemaPlans, Local

LEMMA ReadinessFits == TableFits("provider_readiness", ReadinessPlans)
<1>1. /\ Quiet(Call("search_console", "readiness")) /\ Quiet(Call("bing", "readiness"))
      /\ Quiet(Call("dns", "readiness"))
  BY SearchConsoleDoes, BingDoes, OtherDoes, ReadIsQuiet
<1>2. \A owner \in Policies : Quiet(Check(owner))
  BY CheckIsQuiet
<1>3. /\ Quiet(Check("google") \o Call("search_console", "readiness"))
      /\ Quiet(Check("bing") \o Call("bing", "readiness"))
      /\ Quiet(Check("cloudflare") \o Call("dns", "readiness"))
      /\ Quiet(Check("clarity"))
  BY <1>1, <1>2, QuietAfterQuiet DEF Policies
<1>4. ASSUME NEW p1, NEW p2, NEW p3, NEW p4, Quiet(p1), Quiet(p2), Quiet(p3), Quiet(p4)
      PROVE  TableFits("provider_readiness", [readiness |-> {p1, p2, p3, p4}])
  BY <1>4, QuietFits DEF TableFits
<1>5. QED
  BY <1>3, <1>4 DEF ReadinessPlans

LEMMA SearchSiteFits == TableFits("google_search_console", SearchSitePlans)
<1>1. Quiet(Check("google")) /\ Quiet(Call("search_console", "inspect_url"))
  BY SearchConsoleDoes, CheckIsQuiet, ReadIsQuiet DEF Policies
<1>2. TableFits("google_search_console",
        Direct("search_console", [list_sites |-> "list_sites", get_site |-> "get_site",
                                  list_sitemaps |-> "list_sitemaps"]))
  BY SearchConsoleDoes, DirectReads
<1>3. TableFits("google_search_console",
        Checked("google", "search_console",
                [get_sitemap |-> "get_sitemap", inspect_url |-> "inspect_url"]))
  BY SearchConsoleDoes, CheckedReads DEF Policies
<1>4. Quiet(Check("google") \o Call("search_console", "inspect_url")
                            \o Call("search_console", "inspect_url"))
  BY <1>1, QuietAfterQuiet
<1>5. ASSUME NEW p, Quiet(p)
      PROVE  TableFits("google_search_console", [inspect_urls |-> {p}])
  BY <1>5, QuietFits DEF TableFits
<1>6. QED
  BY <1>2, <1>3, <1>4, <1>5, MergedFits DEF SearchSitePlans

LEMMA ReportsAreQuiet ==
  Quiet(SearchAnalytics) /\ Quiet(AnalyticsReport) /\ Quiet(Crawl)
  BY SearchConsoleDoes, GoogleDoes, OtherDoes, CheckIsQuiet, ReadIsQuiet, QuietAfterQuiet
  DEF SearchAnalytics, AnalyticsReport, Crawl, Policies

LEMMA SearchReportFits == TableFits("google_search_console", SearchReportPlans)
<1>1. \A S : TableFits("google_search_console", [m \in S |-> {SearchAnalytics}])
  BY ReportsAreQuiet, QuietTable
<1>2. \A S : TableFits("google_search_console",
                       [m \in S |-> {SearchAnalytics \o SearchAnalytics}])
  BY ReportsAreQuiet, QuietAfterQuiet, QuietTable
<1>3. QED
  BY <1>1, <1>2, MergedFits DEF SearchReportPlans

LEMMA AnalyticsFits == TableFits("google_analytics", AnalyticsPlans)
<1>1. \A S : TableFits("google_analytics", [m \in S |-> {AnalyticsReport}])
  BY ReportsAreQuiet, QuietTable
<1>2. ASSUME NEW f, \A m \in DOMAIN f : Does("analytics", f[m], "read")
      PROVE  TableFits("google_analytics", Checked("google", "analytics", f))
  BY <1>2, CheckedReads DEF Policies
<1>3. TableFits("google_analytics",
        Checked("google", "analytics",
            [list_account_summaries |-> "list_account_summaries",
             run_realtime_report |-> "run_realtime_report",
             conversion_funnel |-> "run_funnel_report"]))
  BY <1>2, GoogleDoes
<1>4. QED
  BY <1>1, <1>3, MergedFits DEF AnalyticsPlans

LEMMA AnalyticsAdminFits == TableFits("google_analytics_admin", AnalyticsAdminPlans)
<1>1. /\ Sendable(<<"google_analytics_admin", "list_data_streams">>,
                  "analytics_admin", "list_data_streams")
      /\ Sendable(<<"google_analytics_admin", "rename_account">>,
                  "analytics_admin", "update_account_display_name")
      /\ Sendable(<<"google_analytics_admin", "rename_property">>,
                  "analytics_admin", "update_property_display_name")
  BY GoogleDoes, MayPut, ReadSendable, WriteSendable DEF Writers
<1>2. QED
  BY <1>1, DirectFits DEF AnalyticsAdminPlans

LEMMA TagManagerFits == TableFits("google_tag_manager", TagManagerPlans)
<1>1. \A m \in {"list_accounts", "list_containers", "list_workspaces", "list_entities"} :
         Sendable(<<"google_tag_manager", m>>, "tag_manager", m)
  BY TagManagerDoes, ReadSendable
<1>2. \A m \in {"create_container", "delete_container", "create_workspace",
                "delete_workspace", "create_entity", "update_entity", "delete_entity",
                "publish_version"} :
         Sendable(<<"google_tag_manager", m>>, "tag_manager", m)
  BY TagManagerDoes, MayPost, MayPut, MayDelete, WriteSendable DEF Writers
<1>3. Sendable(<<"google_tag_manager", "create_version">>,
               "tag_manager", "create_workspace_version")
  BY TagManagerDoes, MayPost, WriteSendable DEF Writers
<1>4. QED
  BY <1>1, <1>2, <1>3, DirectFits DEF TagManagerPlans

LEMMA PageToolsFit ==
  /\ TableFits("pagespeed", PageSpeedPlans)
  /\ TableFits("crux", CruxPlans)
  /\ TableFits("clarity", ClarityPlans)
  /\ TableFits("lighthouse", LighthousePlans)
<1>1. TableFits("pagespeed", PageSpeedPlans)
  BY GoogleDoes, CheckedReads DEF PageSpeedPlans, Policies
<1>2. TableFits("crux", CruxPlans)
  BY GoogleDoes, DirectReads DEF CruxPlans
<1>3. TableFits("clarity", ClarityPlans)
  BY OtherDoes, DirectReads DEF ClarityPlans
<1>4. Quiet(Check("google") \o Call("lighthouse", "audit"))
  BY GoogleDoes, CheckIsQuiet, ReadIsQuiet, QuietAfterQuiet DEF Policies
<1>5. TableFits("lighthouse", LighthousePlans)
  BY <1>4, QuietTable DEF LighthousePlans
<1>6. QED
  BY <1>1, <1>2, <1>3, <1>5

LEMMA BingTrafficFits == TableFits("bing_webmaster", BingTrafficPlans)
<1>1. TableFits("bing_webmaster",
        Direct("bing", [keyword_statistics |-> "read_keyword_stats",
                        related_keywords |-> "read_related_keywords",
                        traffic_trend |-> "read_rank_and_traffic_stats",
                        traffic_anomalies |-> "read_rank_and_traffic_stats"]))
  BY BingDoes, DirectReads
<1>2. Quiet(Call("bing", "read_rank_and_traffic_stats"))
  BY BingDoes, ReadIsQuiet
<1>3. Quiet(Call("bing", "read_rank_and_traffic_stats")
            \o Call("bing", "read_rank_and_traffic_stats"))
  BY <1>2, QuietAfterQuiet
<1>4. ASSUME NEW p, Quiet(p)
      PROVE  TableFits("bing_webmaster", [traffic_comparison |-> {p}])
  BY <1>4, QuietFits DEF TableFits
<1>5. QED
  BY <1>1, <1>3, <1>4, MergedFits DEF BingTrafficPlans

LEMMA BingReportFits == TableFits("bing_webmaster", BingReportPlans)
<1>1. TableFits("bing_webmaster",
        Direct("bing", [query_performance |-> "read_query_stats",
                        page_performance |-> "read_page_stats",
                        query_opportunities |-> "read_query_stats",
                        brand_analysis |-> "read_query_stats",
                        ranking_buckets |-> "read_query_stats",
                        page_opportunities |-> "read_page_stats",
                        query_page_performance |-> "read_query_page_stats",
                        query_cannibalization |-> "read_query_page_stats"]))
  BY BingDoes, DirectReads
<1>2. Quiet(Check("bing") \o Gather("bing", "read_query_stats", "bing", "read_page_stats"))
  BY BingDoes, CheckIsQuiet, GatheredReadsAreQuiet, QuietAfterQuiet DEF Policies
<1>3. ASSUME NEW p, Quiet(p)
      PROVE  TableFits("bing_webmaster", [opportunity_matrix |-> {p}])
  BY <1>3, QuietFits DEF TableFits
<1>4. QED
  BY <1>1, <1>2, <1>3, MergedFits DEF BingReportPlans

LEMMA BingSiteFits == TableFits("bing_webmaster", BingSitePlans)
  BY BingDoes, CheckedReads DEF BingSitePlans, Policies

LEMMA BingUrlFits == TableFits("bing_webmaster", BingUrlPlans)
<1>1. TableFits("bing_webmaster",
        Checked("bing", "bing", [url_information |-> "read_url_information"]))
  BY BingDoes, CheckedReads DEF Policies
<1>2. Quiet(Check("bing")) /\ Quiet(Call("bing", "read_url_links"))
  BY BingDoes, CheckIsQuiet, ReadIsQuiet DEF Policies
<1>3. /\ Quiet(Check("bing") \o Check("bing") \o Call("bing", "read_url_links"))
      /\ Quiet(Check("bing") \o Check("bing") \o Call("bing", "read_url_links")
                                            \o Call("bing", "read_url_links"))
  BY <1>2, QuietAfterQuiet
<1>4. ASSUME NEW p1, NEW p2, Quiet(p1), Quiet(p2)
      PROVE  TableFits("bing_webmaster", [backlink_intelligence |-> {p1, p2}])
  BY <1>4, QuietFits DEF TableFits
<1>5. QED
  BY <1>1, <1>3, <1>4, MergedFits DEF BingUrlPlans

(* A submission after its check.                                           *)
LEMMA CheckedCallFits ==
  ASSUME NEW target, NEW owner \in Policies, NEW c, NEW m, Sendable(target, c, m)
  PROVE  Fits(target, Check(owner) \o Call(c, m))
  BY CheckIsQuiet, CallFits

LEMMA BingSubmissionFits == TableFits("bing_webmaster", BingSubmissionPlans)
<1>1. /\ Sendable(<<"bing_webmaster", "submit_url_batch">>, "bing", "submit_url_batch")
      /\ \A m \in {"add_site", "remove_site"} :
            Sendable(<<"bing_webmaster", "submit_site">>, "bing", m)
      /\ \A m \in {"submit_feed", "remove_feed"} :
            Sendable(<<"bing_webmaster", "submit_sitemap">>, "bing", m)
  BY BingDoes, MayPost, MayPut, MayDelete, WriteSendable DEF Writers
<1>2. /\ Fits(<<"bing_webmaster", "submit_url_batch">>,
              Check("bing") \o Call("bing", "submit_url_batch"))
      /\ \A m \in {"add_site", "remove_site"} :
            Fits(<<"bing_webmaster", "submit_site">>, Check("bing") \o Call("bing", m))
      /\ \A m \in {"submit_feed", "remove_feed"} :
            Fits(<<"bing_webmaster", "submit_sitemap">>, Check("bing") \o Call("bing", m))
  BY <1>1, CheckedCallFits DEF Policies
<1>3. ASSUME NEW p1, Fits(<<"bing_webmaster", "submit_url_batch">>, p1),
             NEW S, \A p \in S : Fits(<<"bing_webmaster", "submit_site">>, p),
             NEW T, \A p \in T : Fits(<<"bing_webmaster", "submit_sitemap">>, p)
      PROVE  TableFits("bing_webmaster",
                 [submit_url_batch |-> {p1}, submit_site |-> S, submit_sitemap |-> T])
  BY <1>3 DEF TableFits
<1>4. /\ \A p \in {Check("bing") \o Call("bing", m) : m \in {"add_site", "remove_site"}} :
            Fits(<<"bing_webmaster", "submit_site">>, p)
      /\ \A p \in {Check("bing") \o Call("bing", m) : m \in {"submit_feed", "remove_feed"}} :
            Fits(<<"bing_webmaster", "submit_sitemap">>, p)
  BY <1>2
<1>5. QED
  BY <1>2, <1>3, <1>4 DEF BingSubmissionPlans

LEMMA BingContentFits == TableFits("bing_content", BingContentPlans)
<1>1. Sendable(<<"bing_content", "submit">>, "bing", "submit_content")
  BY BingDoes, MayPost, WriteSendable DEF Writers
<1>2. Quiet(Check("bing") \o Call("pages", "fetch"))
  BY OtherDoes, CheckIsQuiet, ReadIsQuiet, QuietAfterQuiet DEF Policies
<1>3. Fits(<<"bing_content", "submit">>,
           Check("bing") \o Call("pages", "fetch") \o Call("bing", "submit_content"))
  BY <1>1, <1>2, CallFits
<1>4. ASSUME NEW p, Fits(<<"bing_content", "submit">>, p)
      PROVE  TableFits("bing_content", [submit |-> {p}])
  BY <1>4 DEF TableFits
<1>5. QED
  BY <1>3, <1>4 DEF BingContentPlans

LEMMA GoogleSitesFit ==
  TableFits("google_sites", GoogleSitesPlans) /\ TableFits("google_sitemaps", GoogleSitemapsPlans)
<1>1. /\ \A m \in {"add_site", "delete_site"} :
            Sendable(<<"google_sites", "submit">>, "search_console", m)
      /\ \A m \in {"submit_sitemap", "delete_sitemap"} :
            Sendable(<<"google_sitemaps", "submit">>, "search_console", m)
  BY SearchConsoleDoes, MayPut, MayDelete, WriteSendable DEF Writers
<1>2. /\ \A m \in {"add_site", "delete_site"} :
            Fits(<<"google_sites", "submit">>, Check("google") \o Call("search_console", m))
      /\ \A m \in {"submit_sitemap", "delete_sitemap"} :
            Fits(<<"google_sitemaps", "submit">>,
                 Check("google") \o Call("search_console", m))
  BY <1>1, CheckedCallFits DEF Policies
<1>3. ASSUME NEW s, NEW S, \A p \in S : Fits(<<s, "submit">>, p)
      PROVE  TableFits(s, [submit |-> S])
  BY <1>3 DEF TableFits
<1>4. /\ \A p \in {Check("google") \o Call("search_console", m)
                     : m \in {"add_site", "delete_site"}} : Fits(<<"google_sites", "submit">>, p)
      /\ \A p \in {Check("google") \o Call("search_console", m)
                     : m \in {"submit_sitemap", "delete_sitemap"}} :
            Fits(<<"google_sitemaps", "submit">>, p)
  BY <1>2
<1>5. QED
  BY <1>3, <1>4 DEF GoogleSitesPlans, GoogleSitemapsPlans

LEMMA IndexingFits ==
  /\ TableFits("google_indexing", IndexingPlans)
  /\ TableFits("google_indexing_metadata", IndexingMetadataPlans)
<1>1. /\ Sendable(<<"google_indexing", "submit">>, "indexing", "publish")
      /\ Sendable(<<"google_indexing", "submit_batch">>, "indexing", "publish_batch")
  BY GoogleDoes, MayPost, WriteSendable DEF Writers
<1>2. Quiet(Check("google") \o Call("pages", "fetch")) /\ Quiet(Check("google"))
  BY OtherDoes, CheckIsQuiet, ReadIsQuiet, QuietAfterQuiet DEF Policies
<1>3. /\ Fits(<<"google_indexing", "submit">>,
              Check("google") \o Call("pages", "fetch") \o Call("indexing", "publish"))
      /\ Fits(<<"google_indexing", "submit">>, Check("google") \o Call("indexing", "publish"))
      /\ Fits(<<"google_indexing", "submit_batch">>,
              Check("google") \o Call("pages", "fetch") \o Call("indexing", "publish_batch"))
      /\ Fits(<<"google_indexing", "submit_batch">>,
              Check("google") \o Call("indexing", "publish_batch"))
  BY <1>1, <1>2, CallFits
<1>4. ASSUME NEW p1, Fits(<<"google_indexing", "submit">>, p1),
             NEW p2, Fits(<<"google_indexing", "submit">>, p2),
             NEW p3, Fits(<<"google_indexing", "submit_batch">>, p3),
             NEW p4, Fits(<<"google_indexing", "submit_batch">>, p4)
      PROVE  TableFits("google_indexing", [submit |-> {p1, p2}, submit_batch |-> {p3, p4}])
  BY <1>4 DEF TableFits
<1>5. TableFits("google_indexing", IndexingPlans)
  BY <1>3, <1>4 DEF IndexingPlans
<1>6. TableFits("google_indexing_metadata", IndexingMetadataPlans)
  BY GoogleDoes, CheckedReads DEF IndexingMetadataPlans, Policies
<1>7. QED
  BY <1>5, <1>6

LEMMA CloudflareFits ==
  /\ TableFits("cloudflare_performance", CloudflarePlans)
  /\ TableFits("edge_redirects", EdgeRedirectPlans)
<1>1. /\ Sendable(<<"cloudflare_performance", "analytics">>, "cloudflare", "analytics")
      /\ Sendable(<<"edge_redirects", "list">>, "cloudflare", "list_edge_redirects")
  BY OtherDoes, ReadSendable
<1>2. /\ Sendable(<<"cloudflare_performance", "purge">>, "cloudflare", "purge_urls")
      /\ Sendable(<<"cloudflare_performance", "apply_cache_template">>,
                  "cloudflare", "apply_cache_template")
      /\ Sendable(<<"edge_redirects", "upsert">>, "cloudflare", "upsert_edge_redirect")
      /\ Sendable(<<"edge_redirects", "delete">>, "cloudflare", "delete_edge_redirect")
  BY OtherDoes, MayPost, MayPut, MayDelete, WriteSendable DEF Writers
<1>3. TableFits("cloudflare_performance", CloudflarePlans)
  BY <1>1, <1>2, DirectFits DEF CloudflarePlans
<1>4. Quiet(Call("dns", "resolve_zone"))
  BY OtherDoes, ReadIsQuiet
<1>5. /\ Fits(<<"edge_redirects", "list">>,
              Call("dns", "resolve_zone") \o Call("cloudflare", "list_edge_redirects"))
      /\ Fits(<<"edge_redirects", "upsert">>,
              Call("dns", "resolve_zone") \o Call("cloudflare", "upsert_edge_redirect"))
      /\ Fits(<<"edge_redirects", "delete">>,
              Call("dns", "resolve_zone") \o Call("cloudflare", "delete_edge_redirect"))
  BY <1>1, <1>2, <1>4, CallFits
<1>6. ASSUME NEW p1, Fits(<<"edge_redirects", "list">>, p1),
             NEW p2, Fits(<<"edge_redirects", "upsert">>, p2),
             NEW p3, Fits(<<"edge_redirects", "delete">>, p3)
      PROVE  TableFits("edge_redirects", [list |-> {p1}, upsert |-> {p2}, delete |-> {p3}])
  BY <1>6 DEF TableFits
<1>7. TableFits("edge_redirects", EdgeRedirectPlans)
  BY <1>5, <1>6 DEF EdgeRedirectPlans
<1>8. QED
  BY <1>3, <1>7

LEMMA CrossProviderFits == TableFits("cross_provider", CrossProviderPlans)
<1>1. /\ Quiet(Gather("analytics", "run_report", "pagespeed", "analyze"))
      /\ Quiet(Gather("analytics", "run_report", "search_console", "search_analytics"))
      /\ Quiet(Gather("search_console", "search_analytics",
                      "bing", "read_rank_and_traffic_stats"))
  BY GoogleDoes, SearchConsoleDoes, BingDoes, GatheredReadsAreQuiet
<1>2. Quiet(Check("google")) /\ Quiet(Check("bing"))
  BY CheckIsQuiet DEF Policies
<1>3. /\ Quiet(Check("google") \o Check("google")
               \o Gather("analytics", "run_report", "pagespeed", "analyze"))
      /\ Quiet(Check("google") \o Check("google")
               \o Gather("analytics", "run_report", "search_console", "search_analytics"))
      /\ Quiet(Check("google") \o Check("bing")
               \o Gather("search_console", "search_analytics",
                         "bing", "read_rank_and_traffic_stats"))
  BY <1>1, <1>2, QuietAfterQuiet
<1>4. ASSUME NEW p1, NEW p2, NEW p3, Quiet(p1), Quiet(p2), Quiet(p3)
      PROVE  TableFits("cross_provider",
                       [ga4_pagespeed_correlation |-> {p1},
                        ga4_search_console_comparison |-> {p2},
                        search_engine_comparison |-> {p3},
                        search_engine_traffic_health |-> {p3}])
  BY <1>4, QuietFits DEF TableFits
<1>5. QED
  BY <1>3, <1>4 DEF CrossProviderPlans

LEMMA OperatorsFit ==
  /\ TableFits("content_opportunities", ContentOpportunityPlans)
  /\ TableFits("internal_links", InternalLinkPlans)
  /\ TableFits("site_audit", SiteAuditPlans)
<1>1. Quiet(Call("bing", "read_query_stats"))
  BY BingDoes, ReadIsQuiet
<1>2. /\ Quiet(SearchAnalytics \o Call("bing", "read_query_stats") \o AnalyticsReport \o Crawl)
      /\ Quiet(Crawl \o SearchAnalytics \o AnalyticsReport)
      /\ Quiet(Crawl)
  BY <1>1, ReportsAreQuiet, QuietAfterQuiet
<1>3. ASSUME NEW p1, NEW p2, NEW p3, Quiet(p1), Quiet(p2), Quiet(p3)
      PROVE  /\ TableFits("content_opportunities", [report |-> {p1}])
             /\ TableFits("internal_links",
                          [graph |-> {p2}, opportunities |-> {p2}, orphans |-> {p3}])
             /\ TableFits("site_audit", [audit |-> {p2}])
  BY <1>3, QuietFits DEF TableFits
<1>4. QED
  BY <1>2, <1>3 DEF ContentOpportunityPlans, InternalLinkPlans, SiteAuditPlans

LEMMA MonitoringFits == TableFits("monitoring", MonitoringPlans)
<1>1. \A m \in {"list_monitors", "list_snapshots", "list_issues", "list_issue_events"} :
         Sendable(<<"monitoring", m>>, "store", m)
  BY StoreDoes, ReadSendable
<1>2. \A m \in {"create_monitor", "update_monitor", "delete_monitor", "set_issue_status"} :
         Sendable(<<"monitoring", m>>, "store", m)
  BY StoreDoes, MayPost, MayPut, MayDelete, WriteSendable DEF Writers
<1>3. TableFits("monitoring",
        Checked("site", "store",
            [list_monitors |-> "list_monitors", list_snapshots |-> "list_snapshots",
             list_issues |-> "list_issues", list_issue_events |-> "list_issue_events",
             create_monitor |-> "create_monitor", update_monitor |-> "update_monitor",
             delete_monitor |-> "delete_monitor", set_issue_status |-> "set_issue_status"]))
  BY <1>1, <1>2, CheckedFits DEF Policies
<1>4. Sendable(<<"monitoring", "run_monitor">>, "store", "save_run")
  BY StoreDoes, MayPost, WriteSendable DEF Writers
<1>5. Quiet(Check("site") \o Crawl)
  BY ReportsAreQuiet, CheckIsQuiet, QuietAfterQuiet DEF Policies
<1>6. Fits(<<"monitoring", "run_monitor">>,
           Check("site") \o Crawl \o Call("store", "save_run"))
  BY <1>4, <1>5, CallFits
<1>7. ASSUME NEW p, Fits(<<"monitoring", "run_monitor">>, p)
      PROVE  TableFits("monitoring", [run_monitor |-> {p}])
  BY <1>7 DEF TableFits
<1>8. QED
  BY <1>3, <1>6, <1>7, MergedFits DEF MonitoringPlans

LEMMA IndexNowFits == TableFits("indexnow", IndexNowPlans)
<1>1. Sendable(<<"indexnow", "submit">>, "indexnow", "submit")
  BY OtherDoes, MayPost, WriteSendable DEF Writers
<1>2. /\ Fits(<<"indexnow", "submit">>, Check("indexnow") \o Call("indexnow", "submit"))
      /\ Fits(<<"indexnow", "submit">>, Check("indexnow"))
  BY <1>1, CheckedCallFits, CheckIsQuiet, QuietFits DEF Policies
<1>3. ASSUME NEW p1, Fits(<<"indexnow", "submit">>, p1), NEW p2, Fits(<<"indexnow", "submit">>, p2)
      PROVE  TableFits("indexnow", [submit |-> {p1, p2}])
  BY <1>3 DEF TableFits
<1>4. QED
  BY <1>2, <1>3 DEF IndexNowPlans

LEMMA SetupFits ==
  TableFits("site_ownership", OwnershipPlans) /\ TableFits("site_onboarding", OnboardingPlans)
<1>1. /\ Sendable(<<"site_ownership", "verify">>, "setup", "verify")
      /\ Sendable(<<"site_onboarding", "submit">>, "setup", "onboard")
  BY OtherDoes, MayDoMore DEF Sendable, Effects, Carries
<1>2. Sendable(<<"site_ownership", "check">>, "setup", "check")
  BY OtherDoes, ReadSendable
<1>3. QED
  BY <1>1, <1>2, LoneCallFits DEF TableFits, OwnershipPlans, OnboardingPlans

(* The one plan with several effects.                                      *)
(* Plans of a known length, stage by stage.                                *)
Has(q, n) == q \in Seq(SUBSET Step) /\ n \in Nat /\ Len(q) = n

LEMMA OneStage ==
  ASSUME NEW w \in Step
  PROVE  Has(<<{w}>>, 1) /\ <<{w}>>[1] = {w}
  BY DEF Has

LEMMA OneStageMore ==
  ASSUME NEW q, NEW n, NEW k, k = n + 1, Has(q, n), NEW w \in Step
  PROVE  Has(Then(q, w), k)
  BY JoinedStage DEF Has

LEMMA StagesStay ==
  ASSUME NEW q, NEW n, Has(q, n), NEW w \in Step, NEW i \in 1..n
  PROVE  Then(q, w)[i] = q[i]
  BY JoinedStage DEF Has

LEMMA LastStage ==
  ASSUME NEW q, NEW n, NEW k, k = n + 1, Has(q, n), NEW w \in Step
  PROVE  Then(q, w)[k] = {w}
  BY JoinedStage DEF Has

LEMMA RemediationFits == TableFits("site_remediation", RemediationPlans)
<1> DEFINE p == Check("google") \o Check("bing")
                \o Call("search_console", "submit_sitemap")
                \o Call("bing", "submit_feed") \o Call("bing", "submit_url_batch")
           a == <<"policy", "google">>
           b == <<"policy", "bing">>
           c == <<"search_console", "submit_sitemap">>
           d == <<"bing", "submit_feed">>
           e == <<"bing", "submit_url_batch">>
<1>1. p = <<{a}>> \o <<{b}>> \o <<{c}>> \o <<{d}>> \o <<{e}>>
  BY DEF Check, Call
<1>2. /\ {a, b, c, d, e} \subseteq Step
      /\ Kind(a) = "check" /\ Kind(b) = "check"
      /\ Kind(c) = "put" /\ Kind(d) = "put" /\ Kind(e) = "post"
  <2>1. a \in Step /\ Kind(a) = "check" /\ b \in Step /\ Kind(b) = "check"
    BY KindOfCheck DEF Policies
  <2>2. c \in Step /\ Kind(c) = "put"
    BY KindOfCall, SearchConsoleDoes
  <2>3. d \in Step /\ Kind(d) = "put" /\ e \in Step /\ Kind(e) = "post"
    BY KindOfCall, BingDoes
  <2>4. QED
    BY <2>1, <2>2, <2>3
<1>3. /\ a = <<"policy", Owner[c[1]]>>
      /\ b = <<"policy", Owner[d[1]]>> /\ b = <<"policy", Owner[e[1]]>>
  BY DEF Owner, Calls
<1>4. /\ c[1] \in Writers /\ d[1] \in Writers /\ e[1] \in Writers
      /\ c[1] = "search_console" /\ d[1] = "bing" /\ e[1] = "bing"
      /\ c # d /\ c # e /\ d # e
  BY DEF Writers
<1> HIDE DEF p, a, b, c, d, e
<1>5. /\ p \in Seq(SUBSET Step) /\ Len(p) = 5
      /\ p[1] = {a} /\ p[2] = {b} /\ p[3] = {c} /\ p[4] = {d} /\ p[5] = {e}
  <2>1. p = Then(Then(Then(Then(<<{a}>>, b), c), d), e)
    BY <1>1 DEF Then
  <2> DEFINE p1 == <<{a}>>
             p2 == Then(p1, b)
             p3 == Then(p2, c)
             p4 == Then(p3, d)
  <2>2. a \in Step /\ b \in Step /\ c \in Step /\ d \in Step /\ e \in Step
    BY <1>2
  <2>3. 2 = 1 + 1 /\ 3 = 2 + 1 /\ 4 = 3 + 1 /\ 5 = 4 + 1
    OBVIOUS
  <2>4. Has(p1, 1) /\ p1[1] = {a}
    BY <2>2, OneStage
  <2> HIDE DEF p1
  <2>5. Has(p2, 2)
    BY <2>2, <2>3, <2>4, OneStageMore
  <2>6. p2[2] = {b}
    BY <2>2, <2>3, <2>4, LastStage
  <2>7. p2[1] = {a}
    BY <2>2, <2>4, StagesStay
  <2> HIDE DEF p2
  <2>8. Has(p3, 3)
    BY <2>2, <2>3, <2>5, OneStageMore
  <2>9. p3[3] = {c}
    BY <2>2, <2>3, <2>5, LastStage
  <2>10. p3[1] = {a} /\ p3[2] = {b}
    BY <2>2, <2>5, <2>6, <2>7, StagesStay
  <2> HIDE DEF p3
  <2>11. Has(p4, 4)
    BY <2>2, <2>3, <2>8, OneStageMore
  <2>12. p4[4] = {d}
    BY <2>2, <2>3, <2>8, LastStage
  <2>13. p4[1] = {a} /\ p4[2] = {b} /\ p4[3] = {c}
    BY <2>2, <2>8, <2>9, <2>10, StagesStay
  <2> HIDE DEF p4
  <2>14. p = Then(p4, e)
    BY <2>1 DEF p1, p2, p3, p4
  <2>15. Has(p, 5)
    BY <2>2, <2>3, <2>11, <2>14, OneStageMore
  <2>16. p[5] = {e}
    BY <2>2, <2>3, <2>11, <2>14, LastStage
  <2>17. p[1] = {a} /\ p[2] = {b} /\ p[3] = {c} /\ p[4] = {d}
    BY <2>2, <2>11, <2>12, <2>13, <2>14, StagesStay
  <2>18. QED
    BY <2>15, <2>16, <2>17 DEF Has
<1>6. ASSUME NEW i \in 1..Len(p), NEW s \in p[i]
      PROVE  /\ p[i] = {s}
             /\ s \in {a, b, c, d, e}
  BY <1>5
<1>7. Staged(p)
  BY <1>2, <1>5, <1>6 DEF Staged, Effects
<1>8. ASSUME NEW j \in 1..Len(p), NEW i \in 1..(j-1)
      PROVE  Follows(p, i, j)
  <2>1. CASE i \in {1, 2}
    <3>1. \A s \in p[i] : Kind(s) \notin Effects
      BY <2>1, <1>2, <1>5 DEF Effects
    <3>2. QED
      BY <3>1 DEF Follows
  <2>2. CASE i = 3 /\ j = 4
    BY <2>2, <1>2, <1>3, <1>4, <1>5 DEF Follows
  <2>3. CASE i = 3 /\ j = 5
    BY <2>3, <1>2, <1>3, <1>4, <1>5 DEF Follows
  <2>4. CASE i = 4 /\ j = 5
    BY <2>4, <1>2, <1>3, <1>4, <1>5 DEF Follows
  <2>5. QED
    BY <2>1, <2>2, <2>3, <2>4, <1>5
<1>9. Sound(p)
  BY <1>2, <1>4, <1>6, <1>7, <1>8 DEF Sound, Effects, Carries
<1>10. \A i \in 1..Len(p) : \A s \in p[i] : Permitted(<<"site_remediation", "apply">>, Kind(s))
  BY <1>2, <1>6, MayDoMore
<1>11. Fits(<<"site_remediation", "apply">>, p)
  BY <1>9, <1>10 DEF Fits
<1>12. ASSUME NEW q, Fits(<<"site_remediation", "apply">>, q)
       PROVE  TableFits("site_remediation", [apply |-> {q}])
  BY <1>12 DEF TableFits
<1>13. QED
  BY <1>11, <1>12 DEF RemediationPlans, p

(* Every plan fits its method.                                             *)
LEMMA PlansFit ==
  ASSUME NEW s \in DOMAIN Plans, NEW m \in DOMAIN Plans[s], NEW p \in Plans[s][m]
  PROVE  Fits(<<s, m>>, p)
<1>1. TableFits("google_search_console", SearchSitePlans ++ SearchReportPlans)
  BY SearchSiteFits, SearchReportFits, MergedFits
<1>2. TableFits("bing_webmaster", BingTrafficPlans ++ BingReportPlans ++ BingSitePlans
                                  ++ BingUrlPlans ++ BingSubmissionPlans)
  BY BingTrafficFits, BingReportFits, BingSiteFits, BingUrlFits, BingSubmissionFits,
     MergedFits
<1>3. TableFits(s, Plans[s])
  BY <1>1, <1>2, LocalFits, SchemaFits, ReadinessFits, AnalyticsFits, AnalyticsAdminFits,
     TagManagerFits, PageToolsFit, BingContentFits, GoogleSitesFit, IndexingFits,
     RemediationFits, CloudflareFits, CrossProviderFits, OperatorsFit, MonitoringFits,
     IndexNowFits, SetupFits DEF Plans
<1>4. QED
  BY <1>3 DEF TableFits

-------------------------------------------------------------------------------
(* The invariant of a request that is being served.                        *)

(* Done in an earlier stage than the one that is running.                  *)
Past(s) == \E i \in 1..(stage - 1) : s \in plan[i]

(* An effect of a step, on an item of the world.                           *)
EffectOf(s, item) ==
  Kind(s) \in Effects /\ (item = s \/ (Kind(s) = "batch" /\ item \in PartItems))

Values(item) == IF Kind(item) \in {"post", "upsert"} THEN Nat ELSE {0, 1}

RequestInv ==
  /\ Fits(wanted, plan)
  /\ DOMAIN world = Items(plan)
  /\ \A item \in Items(plan) : world[item] \in Values(item)
  /\ landed \subseteq Items(plan)
  /\ stage \in 0..Len(plan)
  /\ waiting \subseteq (IF stage = 0 THEN {} ELSE plan[stage])

(* What was called was done, what was done was called, and what was        *)
(* checked was accepted.                                                   *)
RunInv ==
  stage # 0 =>
      /\ operation \in Names(surface)
      /\ \A s \in Steps(plan) : Past(s) =>
             /\ Kind(s) \in {"put", "post", "delete", "upsert"} => s \in landed
             /\ Kind(s) = "check" => s[2] \in accepted
      /\ \A item \in landed : \E s \in Steps(plan) : Past(s) /\ EffectOf(s, item)

IInv == RequestInv /\ RunInv /\ AnswersTellEffects

(* What is still on its way was posted by a tool or route that writes.     *)
LateInv ==
  /\ late \in [Items(plan) -> Nat]
  /\ \A item \in Items(plan) : late[item] > 0 =>
         /\ Kind(item) = "upsert"
         /\ wanted \in WriteMethods
         /\ operation \in Names(surface)

LEMMA PartKind ==
  ASSUME NEW i
  PROVE  Kind(<<"part", i>>) = "post"
  BY DEF Kind

LEMMA PartsAreNoSteps ==
  ASSUME NEW p, Staged(p)
  PROVE  Steps(p) \cap PartItems = {}
<1>1. \A i \in 1..Len(p) : p[i] \subseteq Step
  BY DEF Staged
<1>2. ASSUME NEW s \in Steps(p)
      PROVE  s \in Step
  BY <1>1, <1>2 DEF Steps
<1>3. ASSUME NEW s \in Step
      PROVE  s[1] # "part"
  BY <1>3 DEF Step, Clients
<1>4. ASSUME NEW s \in PartItems
      PROVE  s[1] = "part"
  BY <1>4 DEF PartItems
<1>5. QED
  BY <1>2, <1>3, <1>4

LEMMA ItemsAreEffects ==
  ASSUME NEW p, NEW x
  PROVE  x \in Items(p) <=>
           \/ x \in Steps(p) /\ Kind(x) \in {"put", "post", "delete", "upsert", "workflow"}
           \/ x \in PartItems /\ \E s \in Steps(p) : Kind(s) = "batch"
  BY DEF Items

LEMMA ImageIsFinite ==
  ASSUME NEW f, IsFiniteSet(DOMAIN f), f = [x \in DOMAIN f |-> f[x]]
  PROVE  IsFiniteSet({f[x] : x \in DOMAIN f})
<1> DEFINE T == {f[x] : x \in DOMAIN f}
<1>1. f \in [DOMAIN f -> T]
  OBVIOUS
<1>2. f \in Surjection(DOMAIN f, T)
  BY <1>1 DEF Surjection
<1>3. QED
  BY <1>2, FS_Surjection

TheOneIn(stageSet) == CHOOSE s : stageSet = {s}

LEMMA ItemsAreFinite ==
  ASSUME NEW p, Staged(p)
  PROVE  IsFiniteSet(Items(p))
<1> DEFINE F == [i \in 1..Len(p) |-> TheOneIn(p[i])]
           G == [i \in Parts |-> <<"part", i>>]
           lone == {F[i] : i \in 1..Len(p)}
<1>1. Len(p) \in Nat
  BY DEF Staged
<1>2. IsFiniteSet(1..Len(p)) /\ IsFiniteSet(Parts)
  BY <1>1, BoundsAssumption, FS_Interval DEF Parts
<1>3. IsFiniteSet(lone)
  <2>1. DOMAIN F = 1..Len(p) /\ F = [i \in DOMAIN F |-> F[i]]
    OBVIOUS
  <2> HIDE DEF F
  <2>2. QED
    BY <1>2, <2>1, ImageIsFinite
<1>4. IsFiniteSet(PartItems)
  <2>1. DOMAIN G = Parts /\ G = [i \in DOMAIN G |-> G[i]] /\ PartItems = {G[i] : i \in Parts}
    BY DEF PartItems
  <2> HIDE DEF G
  <2>2. QED
    BY <1>2, <2>1, ImageIsFinite
<1>5. ASSUME NEW x \in Items(p), x \notin PartItems
      PROVE  x \in lone
  <2>1. x \in Steps(p) /\ Kind(x) # "read"
    BY <1>5, ItemsAreEffects
  <2>2. PICK i \in 1..Len(p) : x \in p[i]
    BY <2>1 DEF Steps
  <2>3. p[i] = {x}
    BY <2>1, <2>2 DEF Staged
  <2>4. F[i] = x
    BY <2>2, <2>3 DEF TheOneIn
  <2>5. QED
    BY <2>2, <2>4
<1>6. Items(p) \subseteq lone \cup PartItems
  BY <1>5
<1>7. IsFiniteSet(lone \cup PartItems)
  BY <1>3, <1>4, FS_Union
<1>8. QED
  BY <1>6, <1>7, FS_Subset

(* The step that runs, and its stage.                                      *)
LEMMA RunningStep ==
  ASSUME RequestInv, NEW t \in waiting
  PROVE  /\ stage \in 1..Len(plan) /\ stage # 0
         /\ t \in plan[stage] /\ t \in Steps(plan)
         /\ Kind(t) \in {"check", "read"} \cup Effects
         /\ \A s \in plan[stage] : Kind(s) # "read" => plan[stage] = {s}
         /\ Carries(t[1], Kind(t))
         /\ Permitted(wanted, Kind(t))
<1>1. Len(plan) \in Nat
  BY DEF RequestInv, Fits, Sound, Staged
<1>2. stage # 0 /\ t \in plan[stage]
  BY DEF RequestInv
<1>3. stage \in 1..Len(plan)
  BY <1>1, <1>2 DEF RequestInv
<1>4. t \in Steps(plan)
  BY <1>2, <1>3 DEF Steps
<1>5. QED
  BY <1>2, <1>3, <1>4 DEF RequestInv, Fits, Sound, Staged

(* What an effect of an earlier stage implies for the step that runs.      *)
LEMMA AfterAnEffect ==
  ASSUME RequestInv, RunInv, NEW t \in waiting, NEW s, Past(s), Kind(s) \in Effects
  PROVE  /\ s # t
         /\ Kind(s) = "put" /\ Kind(t) \in {"put", "post"}
         /\ t[1] \in {"search_console", "bing"}
         /\ Owner[t[1]] \in accepted
         /\ s \in Items(plan) /\ t \in Items(plan)
<1>1. stage \in 1..Len(plan) /\ stage # 0 /\ t \in plan[stage] /\ t \in Steps(plan)
  BY RunningStep
<1>2. PICK i \in 1..(stage - 1) : s \in plan[i]
  BY DEF Past
<1>3. Follows(plan, i, stage)
  BY <1>1 DEF RequestInv, Fits, Sound
<1>4. /\ s # t /\ Kind(s) = "put" /\ Kind(t) \in {"put", "post"}
      /\ t[1] \in {"search_console", "bing"}
      /\ \E k \in 1..(i-1) : plan[k] = {<<"policy", Owner[t[1]]>>}
  BY <1>1, <1>2, <1>3 DEF Follows
<1>5. PICK k \in 1..(i-1) : plan[k] = {<<"policy", Owner[t[1]]>>}
  BY <1>4
<1>6. i \in 1..Len(plan) /\ k \in 1..Len(plan) /\ k \in 1..(stage - 1)
  BY <1>1 DEF RequestInv, Fits, Sound, Staged
<1>7. s \in Steps(plan) /\ <<"policy", Owner[t[1]]>> \in Steps(plan)
  BY <1>2, <1>5, <1>6 DEF Steps
<1>8. Kind(<<"policy", Owner[t[1]]>>) = "check" /\ Past(<<"policy", Owner[t[1]]>>)
  BY <1>5, <1>6 DEF Kind, Past
<1>9. Owner[t[1]] \in accepted
  BY <1>1, <1>7, <1>8 DEF RunInv
<1>10. s \in Items(plan) /\ t \in Items(plan)
  BY <1>1, <1>4, <1>7, ItemsAreEffects
<1>11. QED
  BY <1>4, <1>9, <1>10

LEMMA AfterALanding ==
  ASSUME RequestInv, RunInv, NEW t \in waiting, NEW x \in landed
  PROVE  /\ x # t
         /\ Kind(x) = "put" /\ Kind(t) \in {"put", "post"}
         /\ t[1] \in {"search_console", "bing"}
         /\ Owner[t[1]] \in accepted
         /\ x \in Items(plan) /\ t \in Items(plan)
<1>1. stage # 0
  BY RunningStep
<1>2. PICK s \in Steps(plan) : Past(s) /\ EffectOf(s, x)
  BY <1>1 DEF RunInv
<1>3. Kind(s) \in Effects
  BY <1>2 DEF EffectOf
<1>4. Kind(s) = "put"
  BY <1>2, <1>3, AfterAnEffect
<1>5. x = s
  BY <1>2, <1>4 DEF EffectOf
<1>6. QED
  BY <1>2, <1>3, <1>5, AfterAnEffect

(* The way a step ends: with a failure, ...                                *)
LEMMA RefusalsLeftAlone ==
  ASSUME RequestInv, RunInv, NEW t \in waiting
  PROVE  /\ \A x \in Writes(landed) : Kind(x) \notin {"post", "upsert"}
         /\ Cardinality(DOMAIN world) = 1 => Writes(landed) = {}
<1>1. \A x \in Writes(landed) : x \in landed
  BY DEF Writes
<1>2. \A x \in Writes(landed) : Kind(x) \notin {"post", "upsert"}
  BY <1>1, AfterALanding
<1>3. ASSUME Cardinality(DOMAIN world) = 1, NEW x \in Writes(landed)
      PROVE  FALSE
  <2>1. x # t /\ x \in DOMAIN world /\ t \in DOMAIN world
    BY <1>1, AfterALanding DEF RequestInv
  <2>2. IsFiniteSet(DOMAIN world)
    BY ItemsAreFinite DEF RequestInv, Fits, Sound
  <2>3. QED
    BY <1>3, <2>1, <2>2, FS_Singleton
<1>4. QED
  BY <1>2, <1>3

LEMMA FailureTells ==
  ASSUME RequestInv, NEW code, code # "OK", Fail(code), UNCHANGED <<request, call>>,
         DOMAIN world' = DOMAIN world,
         \A item \in Items(plan) : world'[item] \in Values(item),
         landed' \subseteq Items(plan),
         code \in Refusals => /\ \A x \in Writes(landed') : Kind(x) \notin {"post", "upsert"}
                              /\ Cardinality(DOMAIN world) = 1 => Writes(landed') = {},
         code \in NotSent => Writes(landed') = {}
  PROVE  IInv'
<1>1. stage' = 0 /\ waiting' = {} /\ answer' = code
  BY DEF Fail
<1>2. wanted' = wanted /\ plan' = plan
  BY DEF request
<1>3. Len(plan) \in Nat
  BY DEF RequestInv, Fits, Sound, Staged
<1>4. RequestInv'
  BY <1>1, <1>2, <1>3 DEF RequestInv
<1>5. RunInv'
  BY <1>1 DEF RunInv
<1>6. AnswersTellEffects'
  BY <1>1 DEF AnswersTellEffects, Refusals, NotSent
<1>7. QED
  BY <1>4, <1>5, <1>6 DEF IInv

(* ... or with the next step, or with the request answered.                *)
LEMMA SuccessTells ==
  ASSUME RequestInv, RunInv, NEW t \in waiting, Advance(t), UNCHANGED <<request, call>>,
         DOMAIN world' = DOMAIN world,
         \A item \in Items(plan) : world'[item] \in Values(item),
         landed' \subseteq Items(plan),
         landed \subseteq landed',
         \A x \in landed' : x \in landed \/ EffectOf(t, x),
         Kind(t) \in {"put", "post", "delete", "upsert"} => t \in landed',
         Kind(t) = "check" => t[2] \in accepted,
         Kind(t) = "batch" =>
             \A part \in Parts :
                 /\ receipts'[part] = "OK" => <<"part", part>> \in landed'
                 /\ receipts'[part] \in Refusals \cup {"INVALID_RESPONSE"} =>
                        <<"part", part>> \notin landed'
  PROVE  IInv'
<1>1. /\ stage \in 1..Len(plan) /\ stage # 0 /\ t \in plan[stage] /\ t \in Steps(plan)
      /\ \A s \in plan[stage] : Kind(s) # "read" => plan[stage] = {s}
      /\ Len(plan) \in Nat
  BY RunningStep DEF RequestInv, Fits, Sound, Staged
<1>2. wanted' = wanted /\ plan' = plan /\ accepted' = accepted /\ operation' = operation
      /\ Names(surface)' = Names(surface) /\ waiting \subseteq plan[stage]
  BY <1>1 DEF request, call, Names, Offered, RequestInv
<1>3. CASE waiting # {t}
  <2>1. waiting' = waiting \ {t} /\ stage' = stage
    BY <1>3 DEF Advance
  <2>2. Kind(t) = "read"
    BY <1>1, <1>2, <1>3
  <2>3. landed' = landed
    BY <2>2 DEF EffectOf, Effects
  <2>4. RequestInv'
    BY <1>1, <1>2, <2>1 DEF RequestInv
  <2>5. RunInv'
    BY <1>1, <1>2, <2>1, <2>3 DEF RunInv, Past
  <2>6. AnswersTellEffects'
    BY <1>1, <2>1 DEF AnswersTellEffects
  <2>7. QED
    BY <2>4, <2>5, <2>6 DEF IInv
<1>4. ASSUME NEW s \in plan[stage], Kind(s) # "read"
      PROVE  s = t
  BY <1>1, <1>4
<1>5. CASE waiting = {t} /\ stage < Len(plan)
  <2>1. stage' = stage + 1 /\ waiting' = plan[stage + 1]
    BY <1>5 DEF Advance
  <2>2. stage' # 0 /\ stage' \in 0..Len(plan)
    BY <1>1, <1>5, <2>1
  <2>3. RequestInv'
    BY <1>2, <2>1, <2>2 DEF RequestInv
  <2>4. ASSUME NEW s
        PROVE  Past(s)' <=> Past(s) \/ s \in plan[stage]
    BY <1>1, <1>2, <2>1 DEF Past
  <2>5. operation' \in Names(surface)'
    BY <1>1, <1>2 DEF RunInv
  <2>6. ASSUME NEW s \in Steps(plan), Past(s)'
        PROVE  /\ Kind(s) \in {"put", "post", "delete", "upsert"} => s \in landed'
               /\ Kind(s) = "check" => s[2] \in accepted
    <3>1. CASE Past(s)
      BY <1>1, <3>1 DEF RunInv
    <3>2. CASE s \in plan[stage]
      BY <1>4, <3>2
    <3>3. QED
      BY <2>4, <2>6, <3>1, <3>2
  <2>7. ASSUME NEW x \in landed'
        PROVE  \E s \in Steps(plan) : Past(s)' /\ EffectOf(s, x)
    <3>1. CASE x \in landed
      BY <1>1, <2>4, <3>1 DEF RunInv
    <3>2. CASE EffectOf(t, x)
      BY <1>1, <2>4, <3>2
    <3>3. QED
      BY <3>1, <3>2
  <2>8. Steps(plan)' = Steps(plan)
    BY <1>2 DEF Steps
  <2>9. RunInv'
    BY <1>2, <2>5, <2>6, <2>7, <2>8 DEF RunInv, EffectOf, PartItems
  <2>10. AnswersTellEffects'
    BY <2>2 DEF AnswersTellEffects
  <2>11. QED
    BY <2>3, <2>9, <2>10 DEF IInv
<1>6. CASE waiting = {t} /\ ~(stage < Len(plan))
  <2>1. stage' = 0 /\ waiting' = {} /\ answer' = "OK" /\ stage = Len(plan)
    BY <1>1, <1>6 DEF Advance
  <2>2. RequestInv'
    BY <1>1, <1>2, <2>1 DEF RequestInv
  <2>3. RunInv'
    BY <2>1 DEF RunInv
  <2>4. ASSUME NEW s \in Steps(plan)
        PROVE  Past(s) \/ s \in plan[stage]
    <3>1. PICK i \in 1..Len(plan) : s \in plan[i]
      BY DEF Steps
    <3>2. i = stage \/ i \in 1..(stage - 1)
      BY <1>1, <2>1
    <3>3. QED
      BY <3>1, <3>2 DEF Past
  <2>5. ASSUME NEW x \in Writes(DOMAIN world) \ PartItems
        PROVE  x \in landed'
    <3>1. x \in Items(plan) /\ Kind(x) # "workflow"
      BY <2>5 DEF Writes, RequestInv
    <3>2. x \in Steps(plan) /\ Kind(x) \in {"put", "post", "delete", "upsert"}
      BY <2>5, <3>1, ItemsAreEffects
    <3>3. CASE Past(x)
      BY <1>1, <3>2, <3>3 DEF RunInv
    <3>4. CASE x \in plan[stage]
      BY <1>4, <3>2, <3>4
    <3>5. QED
      BY <2>4, <3>2, <3>3, <3>4
  <2>6. ASSUME NEW part \in Parts, <<"part", part>> \in DOMAIN world
        PROVE  Kind(t) = "batch"
    <3>1. <<"part", part>> \notin Steps(plan)
      BY PartsAreNoSteps DEF PartItems, RequestInv, Fits, Sound
    <3>2. PICK s \in Steps(plan) : Kind(s) = "batch"
      BY <2>6, <3>1, ItemsAreEffects DEF RequestInv
    <3>3. ~Past(s)
      BY <3>2, AfterAnEffect DEF Effects
    <3>4. QED
      BY <1>4, <2>4, <3>2, <3>3
  <2>7. AnswersTellEffects'
    BY <2>1, <2>5, <2>6 DEF AnswersTellEffects, Refusals, NotSent
  <2>8. QED
    BY <2>2, <2>3, <2>7 DEF IInv
<1>7. QED
  BY <1>3, <1>5, <1>6

LEMMA LandKeeps ==
  ASSUME RequestInv, NEW items, items \subseteq Items(plan), Land(items)
  PROVE  /\ DOMAIN world' = DOMAIN world
         /\ \A item \in Items(plan) : world'[item] \in Values(item)
         /\ landed' = landed \cup items
         /\ landed' \subseteq Items(plan)
<1>1. /\ landed' = landed \cup items /\ landed \subseteq Items(plan)
      /\ DOMAIN world' = DOMAIN world /\ DOMAIN world = Items(plan)
      /\ \A item \in Items(plan) :
             world'[item] = IF item \in items THEN Applied(item, world[item]) ELSE world[item]
  BY DEF Land, RequestInv
<1>2. ASSUME NEW item \in Items(plan)
      PROVE  world'[item] \in Values(item)
  <2>1. world[item] \in Values(item)
    BY DEF RequestInv
  <2>2. QED
    BY <1>1, <2>1 DEF Values, Applied
<1>3. QED
  BY <1>1, <1>2

LEMMA UnsentFails ==
  ASSUME NEW client, NEW code \in Unsent(client)
  PROVE  code # "OK"
  BY DEF Unsent, FailureCodes

LEMMA InitInv == Init => IInv
<1> SUFFICES ASSUME Init PROVE IInv
  OBVIOUS
<1>1. wanted \in Methods /\ plan \in Plans[wanted[1]][wanted[2]]
  BY WantedAssumption DEF Init
<1>2. PICK s \in DOMAIN Plans : \E m \in DOMAIN Plans[s] : wanted = <<s, m>>
  BY <1>1 DEF Methods
<1>3. Fits(wanted, plan)
  BY <1>1, <1>2, PlansFit
<1>4. Len(plan) \in Nat
  BY <1>3 DEF Fits, Sound, Staged
<1>5. \A item : Untouched(item) \in Values(item)
  BY DEF Untouched, Values
<1>6. QED
  BY <1>3, <1>4, <1>5 DEF Init, IInv, RequestInv, RunInv, AnswersTellEffects

LEMMA AskKeepsInv ==
  ASSUME IInv, NEW s \in Surfaces, AskInVain(s) \/ TurnAway(s) \/ Begin(s)
  PROVE  IInv'
<1>1. /\ Ask(s) /\ stage = 0 /\ waiting = {} /\ surface' = s /\ landed' = {}
      /\ wanted' = wanted /\ plan' = plan /\ accepted' = accepted /\ world' = world
      /\ writesEnabled' = writesEnabled
      /\ Len(plan) \in Nat
  BY DEF IInv, RequestInv, AskInVain, TurnAway, Begin, Ask, request, Fits, Sound, Staged
<1>2. Writes(landed') = {}
  BY <1>1 DEF Writes
<1>3. CASE AskInVain(s) \/ TurnAway(s) \/ (Begin(s) /\ plan = <<>>)
  <2>1. /\ stage' = 0 /\ waiting' = {}
        /\ answer' \in NotSent \/ (plan = <<>> /\ answer' = "OK")
    BY <1>1, <1>3 DEF AskInVain, TurnAway, Begin, NotSent
  <2>2. plan = <<>> => DOMAIN world = {}
    BY DEF IInv, RequestInv, Items, Steps
  <2>3. RequestInv'
    BY <1>1, <2>1 DEF IInv, RequestInv
  <2>4. RunInv'
    BY <2>1 DEF RunInv
  <2>5. AnswersTellEffects'
    BY <1>1, <1>2, <2>1, <2>2 DEF AnswersTellEffects, Refusals, NotSent, Writes
  <2>6. QED
    BY <2>3, <2>4, <2>5 DEF IInv
<1>4. CASE Begin(s) /\ plan # <<>>
  <2>1. stage' = 1 /\ waiting' = plan[1] /\ operation' \in Names(s)
    BY <1>4 DEF Begin
  <2>2. Len(plan) # 0
    BY <1>4 DEF IInv, RequestInv, Fits, Sound, Staged
  <2>3. RequestInv'
    BY <1>1, <2>1, <2>2 DEF IInv, RequestInv
  <2>4. operation' \in Names(surface)'
    BY <1>1, <2>1 DEF Names, Offered
  <2>5. \A x : ~Past(x)'
    BY <2>1 DEF Past
  <2>6. RunInv'
    BY <1>1, <2>4, <2>5 DEF RunInv
  <2>7. AnswersTellEffects'
    BY <2>1 DEF AnswersTellEffects
  <2>8. QED
    BY <2>3, <2>6, <2>7 DEF IInv
<1>5. QED
  BY <1>3, <1>4

LEMMA CheckKeepsInv ==
  ASSUME IInv, NEW t \in waiting, CheckPolicy(t), UNCHANGED <<request, call>>
  PROVE  IInv'
<1>1. RequestInv /\ RunInv
  BY DEF IInv
<1>2. /\ landed = {} /\ landed' = {} /\ world' = world /\ Kind(t) = "check"
  BY <1>1, AfterALanding DEF CheckPolicy
<1>3. Writes(landed') = {}
  BY <1>2 DEF Writes
<1>4. /\ DOMAIN world' = DOMAIN world
      /\ \A item \in Items(plan) : world'[item] \in Values(item)
  BY <1>1, <1>2 DEF RequestInv
<1>5. CASE t[2] \in accepted /\ Advance(t)
  BY <1>1, <1>2, <1>4, <1>5, SuccessTells
<1>6. CASE Fail("rejected")
  BY <1>1, <1>2, <1>3, <1>4, <1>6, FailureTells
<1>7. QED
  BY <1>5, <1>6 DEF CheckPolicy

LEMMA WithholdKeepsInv ==
  ASSUME IInv, NEW t \in waiting, Withhold(t), UNCHANGED <<request, call>>
  PROVE  IInv'
<1>1. RequestInv /\ RunInv
  BY DEF IInv
<1>2. /\ landed' = landed /\ DOMAIN world' = DOMAIN world
      /\ \A item \in Items(plan) : world'[item] \in Values(item)
      /\ landed' \subseteq Items(plan)
  BY <1>1 DEF Withhold, RequestInv
<1>3. PICK code :
         /\ Fail(code) /\ code # "OK"
         /\ code \in NotSent => Owner[t[1]] \notin accepted \/ code \in Unsent(t[1])
  BY UnsentFails DEF Withhold
<1>4. ASSUME code \in NotSent, NEW x \in Writes(landed')
      PROVE  FALSE
  <2>1. x \in landed
    BY <1>2, <1>4 DEF Writes
  <2>2. t[1] \in {"search_console", "bing"} /\ Owner[t[1]] \in accepted
    BY <1>1, <2>1, AfterALanding
  <2>3. QED
    BY <1>3, <1>4, <2>2, NeverWithheld
<1>5. /\ \A x \in Writes(landed') : Kind(x) \notin {"post", "upsert"}
      /\ Cardinality(DOMAIN world) = 1 => Writes(landed') = {}
  BY <1>1, <1>2, RefusalsLeftAlone DEF Writes
<1>6. QED
  BY <1>1, <1>2, <1>3, <1>4, <1>5, FailureTells

LEMMA ReadKeepsInv ==
  ASSUME IInv, NEW t \in waiting, Read(t), UNCHANGED <<request, call>>
  PROVE  IInv'
<1>1. RequestInv /\ RunInv
  BY DEF IInv
<1>2. /\ landed = {} /\ landed' = {} /\ world' = world /\ Kind(t) = "read"
  BY <1>1, AfterALanding DEF Read
<1>3. Writes(landed') = {}
  BY <1>2 DEF Writes
<1>4. /\ DOMAIN world' = DOMAIN world
      /\ \A item \in Items(plan) : world'[item] \in Values(item)
  BY <1>1, <1>2 DEF RequestInv
<1>5. CASE Advance(t)
  BY <1>1, <1>2, <1>4, <1>5, SuccessTells
<1>6. ASSUME NEW code, code # "OK", Fail(code)
      PROVE  IInv'
  BY <1>1, <1>2, <1>3, <1>4, <1>6, FailureTells
<1>7. QED
  BY <1>5, <1>6 DEF Read, After

LEMMA WriteKeepsInv ==
  ASSUME IInv, NEW t \in waiting, Write(t), UNCHANGED <<request, call>>
  PROVE  IInv'
<1>1. RequestInv /\ RunInv
  BY DEF IInv
<1>2. /\ Kind(t) \in {"put", "post", "delete", "upsert"} /\ t[1] \in Writers /\ t \in Items(plan)
  BY <1>1, RunningStep, ItemsAreEffects DEF Write, Carries, Effects
<1>3. PICK conduct \in ConductsOf(t[1]) : \E h \in MayHaveApplied(conduct) :
         Land(IF h THEN {t} ELSE {}) /\ After(t, Code[t[1]][conduct])
  BY DEF Write, ConductsOf
<1>4. PICK h \in MayHaveApplied(conduct) :
         Land(IF h THEN {t} ELSE {}) /\ After(t, Code[t[1]][conduct])
  BY <1>3
<1> DEFINE items == IF h THEN {t} ELSE {}
           code == Code[t[1]][conduct]
<1>5. items \subseteq Items(plan) /\ Land(items) /\ After(t, code)
  BY <1>2, <1>4
<1>6. /\ code = "OK" => MayHaveApplied(conduct) = {TRUE}
      /\ code \in Refusals \cup NotSent => MayHaveApplied(conduct) = {FALSE}
  BY <1>2, <1>3, CodeTells
<1>7. /\ code = "OK" => items = {t}
      /\ code \in Refusals \cup NotSent => items = {}
  <2>1. /\ code = "OK" => h = TRUE
        /\ code \in Refusals \cup NotSent => h = FALSE
    <3> HIDE DEF code
    <3>1. QED
      BY <1>4, <1>6, Zenon
  <2>2. (h = TRUE => items = {t}) /\ (h = FALSE => items = {})
    OBVIOUS
  <2> HIDE DEF items, code
  <2>3. QED
    BY <2>1, <2>2
<1>8. code \in NotSent /\ t[1] \in {"search_console", "bing"} => FALSE
  BY <1>3, NeverWithheld DEF ConductsOf
<1> HIDE DEF items, code
<1>9. /\ DOMAIN world' = DOMAIN world
      /\ \A item \in Items(plan) : world'[item] \in Values(item)
      /\ landed' = landed \cup items
      /\ landed' \subseteq Items(plan)
  BY <1>1, <1>5, LandKeeps
<1>10. CASE code = "OK"
  <2>1. Advance(t) /\ landed' = landed \cup {t}
    BY <1>5, <1>7, <1>9, <1>10 DEF After
  <2>2. EffectOf(t, t)
    BY <1>2 DEF EffectOf, Effects
  <2>3. QED
    BY <1>1, <1>2, <1>9, <2>1, <2>2, SuccessTells
<1>11. CASE code # "OK"
  <2>1. Fail(code)
    BY <1>5, <1>11 DEF After
  <2>2. ASSUME code \in Refusals
        PROVE  /\ \A x \in Writes(landed') : Kind(x) \notin {"post", "upsert"}
               /\ Cardinality(DOMAIN world) = 1 => Writes(landed') = {}
    <3>1. landed' = landed
      BY <1>7, <1>9, <2>2
    <3>2. QED
      BY <1>1, <3>1, RefusalsLeftAlone DEF Writes
  <2>3. ASSUME code \in NotSent, NEW x \in Writes(landed')
        PROVE  FALSE
    <3>1. x \in landed
      BY <1>7, <1>9, <2>3 DEF Writes
    <3>2. QED
      BY <1>1, <1>8, <2>3, <3>1, AfterALanding
  <2>4. QED
    BY <1>1, <1>9, <1>11, <2>1, <2>2, <2>3, FailureTells
<1>12. QED
  BY <1>10, <1>11

LEMMA WorkflowKeepsInv ==
  ASSUME IInv, NEW t \in waiting, RunWorkflow(t), UNCHANGED <<request, call>>
  PROVE  IInv'
<1>1. RequestInv /\ RunInv
  BY DEF IInv
<1>2. /\ landed = {} /\ Kind(t) = "workflow" /\ t \in Items(plan)
  BY <1>1, RunningStep, AfterALanding, ItemsAreEffects DEF RunWorkflow
<1>3. PICK done \in SUBSET {t}, code \in FailureCodes \cup {"OK", "rejected", "invalid"} :
         Land(done) /\ After(t, code)
  BY DEF RunWorkflow
<1>4. done \subseteq Items(plan)
  BY <1>2, <1>3
<1>5. /\ DOMAIN world' = DOMAIN world
      /\ \A item \in Items(plan) : world'[item] \in Values(item)
      /\ landed' = landed \cup done
      /\ landed' \subseteq Items(plan)
  BY <1>1, <1>3, <1>4, LandKeeps
<1>6. Writes(landed') = {}
  BY <1>2, <1>3, <1>5 DEF Writes
<1>7. CASE Advance(t)
  <2>1. EffectOf(t, t)
    BY <1>2 DEF EffectOf, Effects
  <2>2. \A x \in landed' : x \in landed \/ EffectOf(t, x)
    BY <1>3, <1>5, <2>1
  <2>3. QED
    BY <1>1, <1>2, <1>5, <1>7, <2>2, SuccessTells
<1>8. CASE code # "OK" /\ Fail(code)
  BY <1>1, <1>5, <1>6, <1>8, FailureTells
<1>9. QED
  BY <1>3, <1>7, <1>8 DEF After

(* A receipt tells of the part of its own Content-ID.                      *)
LEMMA ReceiptsTell ==
  ASSUME NEW reply \in Replies, NEW done \in SUBSET Parts, Truthful(reply, done),
         IdsComplete(reply), NEW part \in Parts
  PROVE  /\ ReceiptsOf(reply)[part] = "OK" => part \in done
         /\ ReceiptsOf(reply)[part] \in Refusals \cup {"INVALID_RESPONSE"} =>
                part \notin done
<1> DEFINE k == CHOOSE i \in DOMAIN reply : reply[i].id = part
<1>1. \E i \in DOMAIN reply : reply[i].id = part
  BY DEF IdsComplete
<1>2. k \in DOMAIN reply /\ reply[k].id = part
  BY <1>1
<1>3. ReceiptsOf(reply)[part] = PartCode(reply[k].status)
  BY DEF ReceiptsOf
<1> HIDE DEF k
<1>4. reply[k].status \in PartConducts
  <2>1. PICK order \in UNION {[1..n -> Parts \cup {0}] : n \in {BatchSize - 1, BatchSize}},
             conducts \in [Parts -> PartConducts] :
          reply = [i \in DOMAIN order |->
                     [id |-> order[i],
                      status |-> IF order[i] = 0 THEN "ok" ELSE conducts[order[i]]]]
    BY DEF Replies
  <2>2. /\ k \in DOMAIN order
        /\ reply[k].status = IF order[k] = 0 THEN "ok" ELSE conducts[order[k]]
        /\ order[k] = 0 \/ order[k] \in Parts
    BY <1>2, <2>1
  <2>3. QED
    BY <2>1, <2>2 DEF PartConducts
<1>5. (part \in done) \in MayHaveApplied(reply[k].status)
  BY <1>2 DEF Truthful
<1>6. /\ ReceiptsOf(reply)[part] = "OK" => MayHaveApplied(reply[k].status) = {TRUE}
      /\ ReceiptsOf(reply)[part] \in Refusals \cup {"INVALID_RESPONSE"} =>
             MayHaveApplied(reply[k].status) = {FALSE}
  BY <1>3, <1>4, PartTells
<1>7. /\ MayHaveApplied(reply[k].status) = {TRUE} => part \in done
      /\ MayHaveApplied(reply[k].status) = {FALSE} => part \notin done
  <2>1. ASSUME MayHaveApplied(reply[k].status) = {TRUE}
        PROVE  part \in done
    <3>1. (part \in done) \in {TRUE}
      BY <1>5, <2>1, Zenon
    <3>2. QED
      BY <3>1, Zenon
  <2>2. ASSUME MayHaveApplied(reply[k].status) = {FALSE}
        PROVE  part \notin done
    <3>1. (part \in done) \in {FALSE}
      BY <1>5, <2>2, Zenon
    <3>2. QED
      BY <3>1, Zenon
  <2>3. QED
    BY <2>1, <2>2
<1>8. QED
  BY <1>6, <1>7

LEMMA BatchKeepsInv ==
  ASSUME IInv, NEW t \in waiting, PublishBatch(t), UNCHANGED <<request, call>>
  PROVE  IInv'
<1>1. RequestInv /\ RunInv
  BY DEF IInv
<1>2. /\ landed = {} /\ Kind(t) = "batch" /\ t[1] = "indexing"
      /\ PartItems \subseteq Items(plan)
  BY <1>1, RunningStep, AfterALanding, ItemsAreEffects DEF PublishBatch, Carries
<1> DEFINE Done(done) == {<<"part", i>> : i \in done}
<1>3. PICK done \in SUBSET Parts :
         /\ Land(Done(done))
         /\ \/ \E conduct \in Conducts \ {"ok"} :
                   /\ \A i \in Parts : (i \in done) \in MayHaveApplied(conduct)
                   /\ Fail(Code[t[1]][conduct])
            \/ \E reply \in Replies :
                   /\ Truthful(reply, done)
                   /\ IF IdsComplete(reply)
                      THEN receipts' = ReceiptsOf(reply) /\ Advance(t)
                      ELSE Fail("INVALID_RESPONSE")
  BY DEF PublishBatch
<1>4. Done(done) \subseteq PartItems
  BY <1>3 DEF PartItems
<1>5. \A i \in Parts : <<"part", i>> \in Done(done) <=> i \in done
  OBVIOUS
<1>6. \A x \in PartItems : EffectOf(t, x)
  BY <1>2 DEF EffectOf, Effects
<1> HIDE DEF Done
<1>7. /\ DOMAIN world' = DOMAIN world
      /\ \A item \in Items(plan) : world'[item] \in Values(item)
      /\ landed' = Done(done)
      /\ landed' \subseteq Items(plan)
  BY <1>1, <1>2, <1>3, <1>4, LandKeeps
<1>8. ASSUME NEW conduct \in Conducts \ {"ok"},
             \A i \in Parts : (i \in done) \in MayHaveApplied(conduct),
             Fail(Code[t[1]][conduct])
      PROVE  IInv'
  <2> DEFINE code == Code[t[1]][conduct]
  <2>1. /\ code = "OK" => MayHaveApplied(conduct) = {TRUE}
        /\ code \in Refusals \cup NotSent => MayHaveApplied(conduct) = {FALSE}
    BY <1>2, <1>8, CodeTells DEF Writers, ConductsOf
  <2>2. code # "OK"
    BY <1>8, <2>1 DEF MayHaveApplied, Conducts
  <2> HIDE DEF code
  <2>3. ASSUME code \in Refusals \cup NotSent
        PROVE  Writes(landed') = {}
    <3>1. \A i \in Parts : i \notin done
      <4>1. MayHaveApplied(conduct) = {FALSE}
        BY <2>1, <2>3
      <4>2. \A i \in Parts : (i \in done) \in {FALSE}
        BY <1>8, <4>1, Zenon
      <4>3. QED
        BY <4>2, Zenon
    <3>2. \A x \in Done(done) : FALSE
      BY <1>3, <3>1 DEF Done
    <3>3. QED
      BY <1>7, <3>2 DEF Writes
  <2>4. Fail(code)
    BY <1>8 DEF code
  <2>5. QED
    BY <1>1, <1>7, <2>2, <2>3, <2>4, FailureTells
<1>9. ASSUME NEW reply \in Replies, Truthful(reply, done), IdsComplete(reply),
             receipts' = ReceiptsOf(reply), Advance(t)
      PROVE  IInv'
  <2>1. \A part \in Parts :
           /\ receipts'[part] = "OK" => <<"part", part>> \in landed'
           /\ receipts'[part] \in Refusals \cup {"INVALID_RESPONSE"} =>
                  <<"part", part>> \notin landed'
    BY <1>5, <1>7, <1>9, ReceiptsTell
  <2>2. \A x \in landed' : x \in landed \/ EffectOf(t, x)
    BY <1>4, <1>6, <1>7
  <2>3. landed \subseteq landed'
    BY <1>2
  <2>4. QED
    BY <1>1, <1>2, <1>7, <1>9, <2>1, <2>2, <2>3, SuccessTells
<1>10. ASSUME Fail("INVALID_RESPONSE")
       PROVE  IInv'
  BY <1>1, <1>7, <1>10, FailureTells DEF Refusals, NotSent
<1>11. QED
  BY <1>3, <1>8, <1>9, <1>10

LEMMA StutterKeepsInv ==
  ASSUME IInv, UNCHANGED vars
  PROVE  IInv'
<1>1. RequestInv'
  BY DEF IInv, RequestInv, vars
<1>2. RunInv'
  BY DEF IInv, RunInv, vars, Past, Names, Offered, EffectOf
<1>3. AnswersTellEffects'
  BY DEF IInv, AnswersTellEffects, vars
<1>4. QED
  BY <1>1, <1>2, <1>3 DEF IInv

LEMMA GiveUpKeepsInv ==
  ASSUME IInv, NEW t \in waiting, GiveUp(t)
  PROVE  IInv'
<1>1. RequestInv /\ RunInv
  BY DEF IInv
<1>2. /\ landed = {} /\ landed' = {} /\ world' = world /\ Kind(t) = "upsert" /\ t[1] \in Writers
  BY <1>1, RunningStep, AfterALanding DEF GiveUp, Carries, Effects
<1>3. /\ DOMAIN world' = DOMAIN world
      /\ \A item \in Items(plan) : world'[item] \in Values(item)
  BY <1>1, <1>2 DEF RequestInv
<1>4. Writes(landed') = {}
  BY <1>2 DEF Writes
<1>5. PICK conduct \in {"timed_out", "broken"} : Fail(Code[t[1]][conduct])
  BY DEF GiveUp
<1>6. Code[t[1]][conduct] # "OK"
  <2>1. CASE t[1] # "store"
    <3>1. conduct \in ConductsOf(t[1]) /\ MayHaveApplied(conduct) # {TRUE}
      BY <1>5, <2>1 DEF ConductsOf, Conducts, MayHaveApplied
    <3>2. QED
      BY <1>2, <3>1, CodeTells
  <2>2. CASE t[1] = "store"
    BY <1>5, <2>2 DEF Code, StoreCode, Conducts
  <2>3. QED
    BY <2>1, <2>2
<1>7. QED
  BY <1>1, <1>2, <1>3, <1>4, <1>5, <1>6, FailureTells DEF GiveUp

LEMMA LateKeepsInv ==
  ASSUME IInv, LateInv, NEW i \in DOMAIN late, ApplyLate(i)
  PROVE  IInv'
<1>1. RequestInv /\ RunInv /\ AnswersTellEffects
  BY DEF IInv
<1>2. /\ wanted' = wanted /\ plan' = plan /\ accepted' = accepted
      /\ stage' = stage /\ waiting' = waiting /\ landed' = landed /\ answer' = answer
      /\ receipts' = receipts /\ requests' = requests /\ surface' = surface
      /\ operation' = operation /\ writesEnabled' = writesEnabled
      /\ world' = [world EXCEPT ![i] = @ + 1]
  BY DEF ApplyLate, request, call
<1>3. i \in Items(plan) /\ Kind(i) = "upsert"
  BY DEF LateInv, ApplyLate
<1>4. DOMAIN world' = DOMAIN world
  BY <1>2
<1>5. \A item \in Items(plan) : world'[item] \in Values(item)
  BY <1>1, <1>2, <1>3 DEF RequestInv, Values
<1>6. RequestInv'
  BY <1>1, <1>2, <1>4, <1>5 DEF RequestInv
<1>7. RunInv'
  BY <1>1, <1>2 DEF RunInv, Past, Names, Offered, EffectOf
<1>8. AnswersTellEffects'
  BY <1>1, <1>2, <1>4 DEF AnswersTellEffects
<1>9. QED
  BY <1>6, <1>7, <1>8 DEF IInv

LEMMA StepInv == IInv /\ LateInv /\ [Next]_vars => IInv'
<1> SUFFICES ASSUME IInv, LateInv, [Next]_vars PROVE IInv'
  OBVIOUS
<1>1. ASSUME NEW s \in Surfaces, AskInVain(s) \/ TurnAway(s) \/ Begin(s)
      PROVE  IInv'
  BY <1>1, AskKeepsInv
<1>2. ASSUME NEW t \in waiting, Run(t)
      PROVE  IInv'
  BY <1>2, CheckKeepsInv, WithholdKeepsInv, ReadKeepsInv, WriteKeepsInv, WorkflowKeepsInv,
     BatchKeepsInv DEF Run
<1>3. CASE UNCHANGED vars
  BY <1>3, StutterKeepsInv
<1>4. ASSUME NEW t \in waiting, GiveUp(t)
      PROVE  IInv'
  BY <1>4, GiveUpKeepsInv
<1>5. ASSUME NEW i \in DOMAIN late, ApplyLate(i)
      PROVE  IInv'
  BY <1>5, LateKeepsInv
<1>6. QED
  BY <1>1, <1>2, <1>3, <1>4, <1>5 DEF Next

-------------------------------------------------------------------------------
(* The tables of the surfaces, those that only read and the others.        *)

ReadingRoutes ==
    LocalRoutes \sqcup SearchQueryRoutes \sqcup SearchTrendRoutes
    \sqcup SearchSiteRoutes \sqcup AnalyticsRoutes \sqcup AnalyticsReportRoutes
    \sqcup PageSpeedRoutes \sqcup CrossProviderRoutes \sqcup BingTrafficRoutes
    \sqcup BingPageRoutes \sqcup BingSiteRoutes \sqcup IndexingReadRoutes
    \sqcup HealthRoutes \sqcup InsightRoutes \sqcup TagManagerListRoutes
    \sqcup MonitorListRoutes

WritingRoutes ==
    BingWriteRoutes \sqcup GoogleWriteRoutes \sqcup SiteWriteRoutes
    \sqcup MonitorWriteRoutes \sqcup EdgeWriteRoutes \sqcup TagManagerWriteRoutes

ReadingTools ==
    KindTools \sqcup BingReportTools \sqcup AnalyticsTools \sqcup CrossProviderTools
    \sqcup LocalTools \sqcup SearchTools \sqcup SearchSiteTools \sqcup BingTrafficTools
    \sqcup BingSiteTools \sqcup InsightTools \sqcup MonitorListTools
    \sqcup IndexingMetadataTool

WritingTools ==
    RenameTools \sqcup BingWriteTools \sqcup GoogleWriteTools \sqcup SiteWriteTools
    \sqcup EdgeTools \sqcup TagManagerTools \sqcup MonitorTools

(* No service of the process that reads is left out when it may not write. *)
Reading(table) ==
  \A op \in table : op.target \notin WriteMethods /\ op.target[1] \notin WriteServices

(* What a tool that writes is listed as.                                   *)
Told(tool, target) ==
  /\ tool \in ListedWriteTools \cup SeoWriteTools /\ tool \notin ReadTools
  /\ target \in RemovingMethods => DestructiveHint(tool)
  /\ IdempotentHint(tool) => target \in RepeatableMethods

AllTold(table) == \A op \in table : Told(op.name, op.target)

LEMMA InBoth ==
  ASSUME NEW A, NEW B, NEW op
  PROVE  op \in A \sqcup B <=> op \in A \/ op \in B
  BY DEF \sqcup

LEMMA ReadingOf ==
  ASSUME NEW service, NEW f,
         \A x \in DOMAIN f : <<service, f[x]>> \notin WriteMethods,
         service \notin WriteServices
  PROVE  Reading(Of(service, f))
  BY DEF Reading, Of

LEMMA ReadingBoth ==
  ASSUME NEW A, NEW B, Reading(A), Reading(B)
  PROVE  Reading(A \sqcup B)
  BY DEF Reading, \sqcup

LEMMA ToldOf ==
  ASSUME NEW service, NEW f, \A x \in DOMAIN f : Told(x, <<service, f[x]>>)
  PROVE  AllTold(Of(service, f))
  BY DEF AllTold, Of

LEMMA ToldBoth ==
  ASSUME NEW A, NEW B, AllTold(A), AllTold(B)
  PROVE  AllTold(A \sqcup B)
  BY DEF AllTold, \sqcup

LEMMA RoutesRead == Reading(ReadingRoutes)
<1>1. Reading(LocalRoutes)
  BY ReadingOf, ReadingBoth DEF LocalRoutes, WriteMethods, WriteServices
<1>2. Reading(SearchQueryRoutes)
  BY ReadingOf, ReadingBoth DEF SearchQueryRoutes, WriteMethods, WriteServices
<1>3. Reading(SearchTrendRoutes)
  BY ReadingOf, ReadingBoth DEF SearchTrendRoutes, WriteMethods, WriteServices
<1>4. Reading(SearchSiteRoutes)
  BY ReadingOf, ReadingBoth DEF SearchSiteRoutes, WriteMethods, WriteServices
<1>5. Reading(AnalyticsRoutes)
  BY ReadingOf, ReadingBoth DEF AnalyticsRoutes, WriteMethods, WriteServices
<1>6. Reading(AnalyticsReportRoutes)
  BY ReadingOf, ReadingBoth DEF AnalyticsReportRoutes, WriteMethods, WriteServices
<1>7. Reading(PageSpeedRoutes)
  BY ReadingOf, ReadingBoth DEF PageSpeedRoutes, WriteMethods, WriteServices
<1>8. Reading(CrossProviderRoutes)
  BY ReadingOf, ReadingBoth DEF CrossProviderRoutes, WriteMethods, WriteServices
<1>9. Reading(BingTrafficRoutes)
  BY ReadingOf, ReadingBoth DEF BingTrafficRoutes, WriteMethods, WriteServices
<1>10. Reading(BingPageRoutes)
  BY ReadingOf, ReadingBoth DEF BingPageRoutes, WriteMethods, WriteServices
<1>11. Reading(BingSiteRoutes)
  BY ReadingOf, ReadingBoth DEF BingSiteRoutes, WriteMethods, WriteServices
<1>12. Reading(IndexingReadRoutes)
  BY ReadingOf, ReadingBoth DEF IndexingReadRoutes, WriteMethods, WriteServices
<1>13. Reading(HealthRoutes)
  BY ReadingOf, ReadingBoth DEF HealthRoutes, WriteMethods, WriteServices
<1>14. Reading(InsightRoutes)
  BY ReadingOf, ReadingBoth DEF InsightRoutes, WriteMethods, WriteServices
<1>15. Reading(TagManagerListRoutes)
  BY ReadingOf, ReadingBoth DEF TagManagerListRoutes, WriteMethods, WriteServices
<1>16. Reading(MonitorListRoutes)
  BY ReadingOf, ReadingBoth DEF MonitorListRoutes, WriteMethods, WriteServices
<1>17. QED
  BY <1>1, <1>2, <1>3, <1>4, <1>5, <1>6, <1>7, <1>8, <1>9, <1>10, <1>11, <1>12,
     <1>13, <1>14, <1>15, <1>16, ReadingBoth DEF ReadingRoutes

LEMMA ToolsRead == Reading(ReadingTools)
<1>1. Reading(KindTools)
  BY ReadingOf, ReadingBoth DEF KindTools, WriteMethods, WriteServices
<1>2. Reading(BingReportTools)
  BY ReadingOf, ReadingBoth DEF BingReportTools, WriteMethods, WriteServices
<1>3. Reading(AnalyticsTools)
  BY ReadingOf, ReadingBoth DEF AnalyticsTools, WriteMethods, WriteServices
<1>4. Reading(CrossProviderTools)
  BY ReadingOf, ReadingBoth DEF CrossProviderTools, WriteMethods, WriteServices
<1>5. Reading(LocalTools)
  BY ReadingOf, ReadingBoth DEF LocalTools, WriteMethods, WriteServices
<1>6. Reading(SearchTools)
  BY ReadingOf, ReadingBoth DEF SearchTools, WriteMethods, WriteServices
<1>7. Reading(SearchSiteTools)
  BY ReadingOf, ReadingBoth DEF SearchSiteTools, WriteMethods, WriteServices
<1>8. Reading(BingTrafficTools)
  BY ReadingOf, ReadingBoth DEF BingTrafficTools, WriteMethods, WriteServices
<1>9. Reading(BingSiteTools)
  BY ReadingOf, ReadingBoth DEF BingSiteTools, WriteMethods, WriteServices
<1>10. Reading(InsightTools)
  BY ReadingOf, ReadingBoth DEF InsightTools, WriteMethods, WriteServices
<1>11. Reading(MonitorListTools)
  BY ReadingOf, ReadingBoth DEF MonitorListTools, WriteMethods, WriteServices
<1>12. Reading(IndexingMetadataTool)
  BY ReadingOf, ReadingBoth DEF IndexingMetadataTool, WriteMethods, WriteServices
<1>13. QED
  BY <1>1, <1>2, <1>3, <1>4, <1>5, <1>6, <1>7, <1>8, <1>9, <1>10, <1>11, <1>12,
     ReadingBoth DEF ReadingTools

LEMMA ToolsTell == AllTold(WritingTools)
<1>1. AllTold(RenameTools)
  BY ToldOf, ToldBoth DEF RenameTools, Told, ListedWriteTools, SeoWriteTools, ReadTools,
     ListedSearchTools, ListedReportTools, ListedBingTools, ListedBingSiteTools, SeoReadTools,
     RemovingMethods, RepeatableMethods, DestructiveHint, IdempotentHint, DestructiveTools,
     IdempotentWriteTools
<1>2. AllTold(BingWriteTools)
  BY ToldOf, ToldBoth
     DEF BingWriteTools, Told, ListedWriteTools, SeoWriteTools, ReadTools,
     ListedSearchTools, ListedReportTools, ListedBingTools, ListedBingSiteTools, SeoReadTools,
     RemovingMethods, RepeatableMethods, DestructiveHint, IdempotentHint, DestructiveTools,
     IdempotentWriteTools
<1>3. AllTold(GoogleWriteTools)
  BY ToldOf, ToldBoth
     DEF GoogleWriteTools, Told, ListedWriteTools, SeoWriteTools, ReadTools,
     ListedSearchTools, ListedReportTools, ListedBingTools, ListedBingSiteTools, SeoReadTools,
     RemovingMethods, RepeatableMethods, DestructiveHint, IdempotentHint, DestructiveTools,
     IdempotentWriteTools
<1>4. AllTold(SiteWriteTools)
  BY ToldOf, ToldBoth
     DEF SiteWriteTools, Told, ListedWriteTools, SeoWriteTools, ReadTools,
     ListedSearchTools, ListedReportTools, ListedBingTools, ListedBingSiteTools, SeoReadTools,
     RemovingMethods, RepeatableMethods, DestructiveHint, IdempotentHint, DestructiveTools,
     IdempotentWriteTools
<1>5. AllTold(EdgeTools)
  BY ToldOf, ToldBoth DEF EdgeTools, Told, ListedWriteTools, SeoWriteTools, ReadTools,
     ListedSearchTools, ListedReportTools, ListedBingTools, ListedBingSiteTools, SeoReadTools,
     RemovingMethods, RepeatableMethods, DestructiveHint, IdempotentHint, DestructiveTools,
     IdempotentWriteTools
<1>6. AllTold(TagManagerTools)
  BY ToldOf, ToldBoth
     DEF TagManagerTools, Told, ListedWriteTools, SeoWriteTools, ReadTools,
     ListedSearchTools, ListedReportTools, ListedBingTools, ListedBingSiteTools, SeoReadTools,
     RemovingMethods, RepeatableMethods, DestructiveHint, IdempotentHint, DestructiveTools,
     IdempotentWriteTools
<1>7. AllTold(MonitorTools)
  BY ToldOf, ToldBoth DEF MonitorTools, Told, ListedWriteTools, SeoWriteTools, ReadTools,
     ListedSearchTools, ListedReportTools, ListedBingTools, ListedBingSiteTools, SeoReadTools,
     RemovingMethods, RepeatableMethods, DestructiveHint, IdempotentHint, DestructiveTools,
     IdempotentWriteTools
<1>8. QED
  BY <1>1, <1>2, <1>3, <1>4, <1>5, <1>6, <1>7, ToldBoth DEF WritingTools

(* A process that may write offers both tables of a surface, any other the *)
(* one that reads.                                                         *)
LEMMA RoutesAre ==
  ASSUME NEW w \in BOOLEAN, NEW op
  PROVE  op \in RestRoutes[w] <=> op \in ReadingRoutes \/ (w /\ op \in WritingRoutes)
<1>1. op \in ReadingRoutes => op.target[1] \notin WriteServices
  BY RoutesRead DEF Reading
<1>2. CASE w = TRUE
  <2>1. op \in RestRoutes[TRUE] <=> op \in ReadingRoutes \/ op \in WritingRoutes
    BY InBoth DEF RestRoutes, Served, Built, SeoRoutes, ReadingRoutes, WritingRoutes
  <2>2. QED
    BY <1>2, <2>1
<1>3. CASE w = FALSE
  <2>1. op \in RestRoutes[FALSE] <=> op \in ReadingRoutes
    BY <1>1, InBoth DEF RestRoutes, Served, Built, SeoRoutes, ReadingRoutes
  <2>2. QED
    BY <1>3, <2>1
<1>4. QED
  BY <1>2, <1>3

LEMMA ToolsAre ==
  ASSUME NEW w \in BOOLEAN, NEW op
  PROVE  op \in McpTools[w] <=> op \in ReadingTools \/ (w /\ op \in WritingTools)
<1>1. op \in ReadingTools => op.target[1] \notin WriteServices
  BY ToolsRead DEF Reading
<1>2. CASE w = TRUE
  <2>1. op \in McpTools[TRUE] <=> op \in ReadingTools \/ op \in WritingTools
    BY InBoth DEF McpTools, Served, Built, SeoTools, ReadingTools, WritingTools
  <2>2. QED
    BY <1>2, <2>1
<1>3. CASE w = FALSE
  <2>1. op \in McpTools[FALSE] <=> op \in ReadingTools
    BY <1>1, InBoth DEF McpTools, Served, Built, SeoTools, ReadingTools
  <2>2. QED
    BY <1>3, <2>1
<1>4. QED
  BY <1>2, <1>3

(* The names of a table.                                                   *)
Named(table, name) == \E op \in table : op.name = name

LEMMA NamedOf ==
  ASSUME NEW service, NEW f, NEW name
  PROVE  Named(Of(service, f), name) <=> name \in DOMAIN f
<1>1. ASSUME name \in DOMAIN f
      PROVE  Named(Of(service, f), name)
  <2> DEFINE op == [name |-> name, target |-> <<service, f[name]>>]
  <2>1. op \in Of(service, f) /\ op.name = name
    BY <1>1 DEF Of
  <2>2. QED
    BY <2>1 DEF Named
<1>2. ASSUME NEW op \in Of(service, f), op.name = name
      PROVE  name \in DOMAIN f
  BY <1>2 DEF Of
<1>3. QED
  BY <1>1, <1>2 DEF Named

LEMMA NamedBoth ==
  ASSUME NEW A, NEW B, NEW name
  PROVE  Named(A \sqcup B, name) <=> Named(A, name) \/ Named(B, name)
  BY DEF Named, \sqcup

(* What the server lists is what it dispatches.                            *)
LEMMA ReadToolsAreNamed ==
  ASSUME NEW name
  PROVE  Named(ReadingTools, name) <=> name \in ReadTools
<1>1. Named(KindTools, name) => name \in ReadTools
  BY NamedOf, NamedBoth DEF KindTools, ReadTools, ListedSearchTools,
     ListedReportTools, ListedBingTools, ListedBingSiteTools, SeoReadTools
<1>2. Named(BingReportTools, name) => name \in ReadTools
  BY NamedOf, NamedBoth DEF BingReportTools, ReadTools, ListedSearchTools,
     ListedReportTools, ListedBingTools, ListedBingSiteTools, SeoReadTools
<1>3. Named(AnalyticsTools, name) => name \in ReadTools
  BY NamedOf, NamedBoth DEF AnalyticsTools, ReadTools, ListedSearchTools,
     ListedReportTools, ListedBingTools, ListedBingSiteTools, SeoReadTools
<1>4. Named(CrossProviderTools, name) => name \in ReadTools
  BY NamedOf, NamedBoth DEF CrossProviderTools, ReadTools, ListedSearchTools,
     ListedReportTools, ListedBingTools, ListedBingSiteTools, SeoReadTools
<1>5. Named(LocalTools, name) => name \in ReadTools
  BY NamedOf, NamedBoth DEF LocalTools, ReadTools, ListedSearchTools,
     ListedReportTools, ListedBingTools, ListedBingSiteTools, SeoReadTools
<1>6. Named(SearchTools, name) => name \in ReadTools
  BY NamedOf, NamedBoth DEF SearchTools, ReadTools, ListedSearchTools,
     ListedReportTools, ListedBingTools, ListedBingSiteTools, SeoReadTools
<1>7. Named(SearchSiteTools, name) => name \in ReadTools
  BY NamedOf, NamedBoth DEF SearchSiteTools, ReadTools, ListedSearchTools,
     ListedReportTools, ListedBingTools, ListedBingSiteTools, SeoReadTools
<1>8. Named(BingTrafficTools, name) => name \in ReadTools
  BY NamedOf, NamedBoth DEF BingTrafficTools, ReadTools, ListedSearchTools,
     ListedReportTools, ListedBingTools, ListedBingSiteTools, SeoReadTools
<1>9. Named(BingSiteTools, name) => name \in ReadTools
  BY NamedOf, NamedBoth DEF BingSiteTools, ReadTools, ListedSearchTools,
     ListedReportTools, ListedBingTools, ListedBingSiteTools, SeoReadTools
<1>10. Named(InsightTools, name) => name \in ReadTools
  BY NamedOf, NamedBoth DEF InsightTools, ReadTools, ListedSearchTools,
     ListedReportTools, ListedBingTools, ListedBingSiteTools, SeoReadTools
<1>11. Named(MonitorListTools, name) => name \in ReadTools
  BY NamedOf, NamedBoth DEF MonitorListTools, ReadTools, ListedSearchTools,
     ListedReportTools, ListedBingTools, ListedBingSiteTools, SeoReadTools
<1>12. Named(IndexingMetadataTool, name) => name \in ReadTools
  BY NamedOf, NamedBoth DEF IndexingMetadataTool, ReadTools, ListedSearchTools,
     ListedReportTools, ListedBingTools, ListedBingSiteTools, SeoReadTools
<1>13. name \in ListedSearchTools =>
           \/ Named(LocalTools, name)
           \/ Named(SearchTools, name)
           \/ Named(SearchSiteTools, name)
           \/ Named(BingSiteTools, name)
           \/ Named(IndexingMetadataTool, name)
  BY NamedOf, NamedBoth DEF ListedSearchTools, LocalTools, SearchTools,
     SearchSiteTools, BingSiteTools, IndexingMetadataTool
<1>14. name \in ListedReportTools =>
           \/ Named(KindTools, name)
           \/ Named(AnalyticsTools, name)
           \/ Named(LocalTools, name)
           \/ Named(SearchTools, name)
           \/ Named(SearchSiteTools, name)
  BY NamedOf, NamedBoth DEF ListedReportTools, KindTools, AnalyticsTools, LocalTools,
     SearchTools, SearchSiteTools
<1>15. name \in ListedBingTools =>
           \/ Named(KindTools, name)
           \/ Named(BingReportTools, name)
           \/ Named(CrossProviderTools, name)
           \/ Named(BingTrafficTools, name)
  BY NamedOf, NamedBoth DEF ListedBingTools, KindTools, BingReportTools,
     CrossProviderTools, BingTrafficTools
<1>16. name \in ListedBingSiteTools =>
           \/ Named(BingReportTools, name)
           \/ Named(BingSiteTools, name)
  BY NamedOf, NamedBoth DEF ListedBingSiteTools, BingReportTools, BingSiteTools
<1>17. name \in SeoReadTools =>
           \/ Named(InsightTools, name)
           \/ Named(MonitorListTools, name)
  BY NamedOf, NamedBoth DEF SeoReadTools, InsightTools, MonitorListTools
<1>18. QED
  BY <1>1, <1>2, <1>3, <1>4, <1>5, <1>6, <1>7, <1>8, <1>9, <1>10, <1>11, <1>12, <1>13,
     <1>14, <1>15, <1>16, <1>17, NamedBoth DEF ReadingTools, ReadTools

LEMMA WriteToolsAreNamed ==
  ASSUME NEW name
  PROVE  Named(WritingTools, name) <=> name \in ListedWriteTools \cup SeoWriteTools
<1>1. Named(RenameTools, name) => name \in ListedWriteTools \cup SeoWriteTools
  BY NamedOf, NamedBoth DEF RenameTools, ListedWriteTools, SeoWriteTools
<1>2. Named(BingWriteTools, name) => name \in ListedWriteTools \cup SeoWriteTools
  BY NamedOf, NamedBoth DEF BingWriteTools, ListedWriteTools, SeoWriteTools
<1>3. Named(GoogleWriteTools, name) => name \in ListedWriteTools \cup SeoWriteTools
  BY NamedOf, NamedBoth DEF GoogleWriteTools, ListedWriteTools, SeoWriteTools
<1>4. Named(SiteWriteTools, name) => name \in ListedWriteTools \cup SeoWriteTools
  BY NamedOf, NamedBoth DEF SiteWriteTools, ListedWriteTools, SeoWriteTools
<1>5. Named(EdgeTools, name) => name \in ListedWriteTools \cup SeoWriteTools
  BY NamedOf, NamedBoth DEF EdgeTools, ListedWriteTools, SeoWriteTools
<1>6. Named(TagManagerTools, name) => name \in ListedWriteTools \cup SeoWriteTools
  BY NamedOf, NamedBoth DEF TagManagerTools, ListedWriteTools, SeoWriteTools
<1>7. Named(MonitorTools, name) => name \in ListedWriteTools \cup SeoWriteTools
  BY NamedOf, NamedBoth DEF MonitorTools, ListedWriteTools, SeoWriteTools
<1>8. name \in ListedWriteTools =>
           \/ Named(RenameTools, name)
           \/ Named(BingWriteTools, name)
           \/ Named(GoogleWriteTools, name)
           \/ Named(SiteWriteTools, name)
  BY NamedOf, NamedBoth DEF ListedWriteTools, RenameTools, BingWriteTools,
     GoogleWriteTools, SiteWriteTools
<1>9. name \in SeoWriteTools =>
           \/ Named(EdgeTools, name)
           \/ Named(TagManagerTools, name)
           \/ Named(MonitorTools, name)
  BY NamedOf, NamedBoth DEF SeoWriteTools, EdgeTools, TagManagerTools, MonitorTools
<1>10. QED
  BY <1>1, <1>2, <1>3, <1>4, <1>5, <1>6, <1>7, <1>8, <1>9, NamedBoth DEF WritingTools

LEMMA ListedIsDispatched ==
  ASSUME NEW w \in BOOLEAN, NEW name
  PROVE  name \in ListedTools[w] <=> \E op \in McpTools[w] : op.name = name
<1>1. (\E op \in McpTools[w] : op.name = name)
         <=> Named(ReadingTools, name) \/ (w /\ Named(WritingTools, name))
  BY ToolsAre DEF Named
<1>2. name \in ListedTools[w]
         <=> name \in ReadTools \/ (w /\ name \in ListedWriteTools \cup SeoWriteTools)
  BY DEF ListedTools
<1>3. QED
  BY <1>1, <1>2, ReadToolsAreNamed, WriteToolsAreNamed

(* The methods of a table.                                                 *)
Offers(table, service, method) == \E op \in table : op.target = <<service, method>>

LEMMA OffersOf ==
  ASSUME NEW service, NEW f, NEW s, NEW m
  PROVE  Offers(Of(service, f), s, m) <=> s = service /\ \E x \in DOMAIN f : f[x] = m
<1>1. ASSUME s = service, NEW x \in DOMAIN f, f[x] = m
      PROVE  Offers(Of(service, f), s, m)
  <2> DEFINE op == [name |-> x, target |-> <<service, f[x]>>]
  <2>1. op \in Of(service, f) /\ op.target = <<s, m>>
    BY <1>1 DEF Of
  <2>2. QED
    BY <2>1 DEF Offers
<1>2. ASSUME NEW op \in Of(service, f), op.target = <<s, m>>
      PROVE  s = service /\ \E x \in DOMAIN f : f[x] = m
  BY <1>2 DEF Of
<1>3. QED
  BY <1>1, <1>2 DEF Offers

LEMMA OffersBoth ==
  ASSUME NEW A, NEW B, NEW s, NEW m
  PROVE  Offers(A \sqcup B, s, m) <=> Offers(A, s, m) \/ Offers(B, s, m)
  BY DEF Offers, \sqcup

(* The two surfaces offer the same methods.                                *)
LEMMA ReadsAgree ==
  ASSUME NEW s, NEW m
  PROVE  Offers(ReadingRoutes, s, m) <=> Offers(ReadingTools, s, m)
<1>1. Offers(LocalRoutes, s, m) =>
           Offers(LocalTools, s, m) \/ Offers(BingSiteTools, s, m)
  BY OffersOf, OffersBoth DEF LocalRoutes, LocalTools, BingSiteTools
<1>2. Offers(SearchQueryRoutes, s, m) =>
           Offers(SearchTools, s, m)
  BY OffersOf, OffersBoth DEF SearchQueryRoutes, SearchTools
<1>3. Offers(SearchTrendRoutes, s, m) =>
           Offers(SearchTools, s, m)
  BY OffersOf, OffersBoth DEF SearchTrendRoutes, SearchTools
<1>4. Offers(SearchSiteRoutes, s, m) =>
           Offers(SearchSiteTools, s, m)
  BY OffersOf, OffersBoth DEF SearchSiteRoutes, SearchSiteTools
<1>5. Offers(AnalyticsRoutes, s, m) =>
           \/ Offers(KindTools, s, m)
           \/ Offers(AnalyticsTools, s, m)
           \/ Offers(LocalTools, s, m)
  BY OffersOf, OffersBoth DEF AnalyticsRoutes, KindTools, AnalyticsTools, LocalTools
<1>6. Offers(AnalyticsReportRoutes, s, m) =>
           Offers(KindTools, s, m) \/ Offers(AnalyticsTools, s, m)
  BY OffersOf, OffersBoth DEF AnalyticsReportRoutes, KindTools, AnalyticsTools
<1>7. Offers(PageSpeedRoutes, s, m) =>
           \/ Offers(KindTools, s, m)
           \/ Offers(AnalyticsTools, s, m)
           \/ Offers(CrossProviderTools, s, m)
  BY OffersOf, OffersBoth DEF PageSpeedRoutes, KindTools, AnalyticsTools,
     CrossProviderTools
<1>8. Offers(CrossProviderRoutes, s, m) =>
           \/ Offers(CrossProviderTools, s, m)
           \/ Offers(SearchSiteTools, s, m)
           \/ Offers(BingTrafficTools, s, m)
  BY OffersOf, OffersBoth DEF CrossProviderRoutes, CrossProviderTools,
     SearchSiteTools, BingTrafficTools
<1>9. Offers(BingTrafficRoutes, s, m) =>
           \/ Offers(BingReportTools, s, m)
           \/ Offers(BingTrafficTools, s, m)
  BY OffersOf, OffersBoth DEF BingTrafficRoutes, BingReportTools, BingTrafficTools
<1>10. Offers(BingPageRoutes, s, m) =>
           \/ Offers(BingReportTools, s, m)
           \/ Offers(BingTrafficTools, s, m)
           \/ Offers(BingSiteTools, s, m)
  BY OffersOf, OffersBoth DEF BingPageRoutes, BingReportTools, BingTrafficTools,
     BingSiteTools
<1>11. Offers(BingSiteRoutes, s, m) =>
           Offers(BingSiteTools, s, m)
  BY OffersOf, OffersBoth DEF BingSiteRoutes, BingSiteTools
<1>12. Offers(IndexingReadRoutes, s, m) =>
           Offers(IndexingMetadataTool, s, m)
  BY OffersOf, OffersBoth DEF IndexingReadRoutes, IndexingMetadataTool
<1>13. Offers(HealthRoutes, s, m) =>
           Offers(LocalTools, s, m)
  BY OffersOf, OffersBoth DEF HealthRoutes, LocalTools
<1>14. Offers(InsightRoutes, s, m) =>
           Offers(InsightTools, s, m)
  BY OffersOf, OffersBoth DEF InsightRoutes, InsightTools
<1>15. Offers(TagManagerListRoutes, s, m) =>
           Offers(InsightTools, s, m)
  BY OffersOf, OffersBoth DEF TagManagerListRoutes, InsightTools
<1>16. Offers(MonitorListRoutes, s, m) =>
           Offers(MonitorListTools, s, m)
  BY OffersOf, OffersBoth DEF MonitorListRoutes, MonitorListTools
<1>17. Offers(KindTools, s, m) =>
           \/ Offers(AnalyticsRoutes, s, m)
           \/ Offers(AnalyticsReportRoutes, s, m)
           \/ Offers(PageSpeedRoutes, s, m)
  BY OffersOf, OffersBoth DEF KindTools, AnalyticsRoutes, AnalyticsReportRoutes,
     PageSpeedRoutes
<1>18. Offers(BingReportTools, s, m) =>
           \/ Offers(BingTrafficRoutes, s, m)
           \/ Offers(BingPageRoutes, s, m)
  BY OffersOf, OffersBoth DEF BingReportTools, BingTrafficRoutes, BingPageRoutes
<1>19. Offers(AnalyticsTools, s, m) =>
           \/ Offers(AnalyticsRoutes, s, m)
           \/ Offers(AnalyticsReportRoutes, s, m)
           \/ Offers(PageSpeedRoutes, s, m)
  BY OffersOf, OffersBoth DEF AnalyticsTools, AnalyticsRoutes, AnalyticsReportRoutes,
     PageSpeedRoutes
<1>20. Offers(CrossProviderTools, s, m) =>
           \/ Offers(PageSpeedRoutes, s, m)
           \/ Offers(CrossProviderRoutes, s, m)
  BY OffersOf, OffersBoth DEF CrossProviderTools, PageSpeedRoutes, CrossProviderRoutes
<1>21. Offers(LocalTools, s, m) =>
           \/ Offers(LocalRoutes, s, m)
           \/ Offers(AnalyticsRoutes, s, m)
           \/ Offers(HealthRoutes, s, m)
  BY OffersOf, OffersBoth DEF LocalTools, LocalRoutes, AnalyticsRoutes, HealthRoutes
<1>22. Offers(SearchTools, s, m) =>
           \/ Offers(SearchQueryRoutes, s, m)
           \/ Offers(SearchTrendRoutes, s, m)
  BY OffersOf, OffersBoth DEF SearchTools, SearchQueryRoutes, SearchTrendRoutes
<1>23. Offers(SearchSiteTools, s, m) =>
           \/ Offers(SearchSiteRoutes, s, m)
           \/ Offers(CrossProviderRoutes, s, m)
  BY OffersOf, OffersBoth DEF SearchSiteTools, SearchSiteRoutes, CrossProviderRoutes
<1>24. Offers(BingTrafficTools, s, m) =>
           \/ Offers(CrossProviderRoutes, s, m)
           \/ Offers(BingTrafficRoutes, s, m)
           \/ Offers(BingPageRoutes, s, m)
  BY OffersOf, OffersBoth DEF BingTrafficTools, CrossProviderRoutes,
     BingTrafficRoutes, BingPageRoutes
<1>25. Offers(BingSiteTools, s, m) =>
           \/ Offers(LocalRoutes, s, m)
           \/ Offers(BingPageRoutes, s, m)
           \/ Offers(BingSiteRoutes, s, m)
  BY OffersOf, OffersBoth DEF BingSiteTools, LocalRoutes, BingPageRoutes, BingSiteRoutes
<1>26. Offers(InsightTools, s, m) =>
           \/ Offers(InsightRoutes, s, m)
           \/ Offers(TagManagerListRoutes, s, m)
  BY OffersOf, OffersBoth DEF InsightTools, InsightRoutes, TagManagerListRoutes
<1>27. Offers(MonitorListTools, s, m) =>
           Offers(MonitorListRoutes, s, m)
  BY OffersOf, OffersBoth DEF MonitorListTools, MonitorListRoutes
<1>28. Offers(IndexingMetadataTool, s, m) =>
           Offers(IndexingReadRoutes, s, m)
  BY OffersOf, OffersBoth DEF IndexingMetadataTool, IndexingReadRoutes
<1>29. Offers(ReadingRoutes, s, m) => Offers(ReadingTools, s, m)
  BY <1>1, <1>2, <1>3, <1>4, <1>5, <1>6, <1>7, <1>8, <1>9, <1>10, <1>11, <1>12, <1>13,
     <1>14, <1>15, <1>16, OffersBoth DEF ReadingRoutes, ReadingTools
<1>30. Offers(ReadingTools, s, m) => Offers(ReadingRoutes, s, m)
  BY <1>17, <1>18, <1>19, <1>20, <1>21, <1>22, <1>23, <1>24, <1>25, <1>26, <1>27,
     <1>28, OffersBoth DEF ReadingRoutes, ReadingTools
<1>31. QED
  BY <1>29, <1>30

LEMMA WritesAgree ==
  ASSUME NEW s, NEW m
  PROVE  Offers(WritingRoutes, s, m) <=> Offers(WritingTools, s, m)
<1>1. Offers(BingWriteRoutes, s, m) =>
           Offers(BingWriteTools, s, m)
  BY OffersOf, OffersBoth DEF BingWriteRoutes, BingWriteTools
<1>2. Offers(GoogleWriteRoutes, s, m) =>
           Offers(RenameTools, s, m) \/ Offers(GoogleWriteTools, s, m)
  BY OffersOf, OffersBoth DEF GoogleWriteRoutes, RenameTools, GoogleWriteTools
<1>3. Offers(SiteWriteRoutes, s, m) =>
           \/ Offers(GoogleWriteTools, s, m)
           \/ Offers(SiteWriteTools, s, m)
  BY OffersOf, OffersBoth DEF SiteWriteRoutes, GoogleWriteTools, SiteWriteTools
<1>4. Offers(MonitorWriteRoutes, s, m) =>
           Offers(MonitorTools, s, m)
  BY OffersOf, OffersBoth DEF MonitorWriteRoutes, MonitorTools
<1>5. Offers(EdgeWriteRoutes, s, m) =>
           Offers(EdgeTools, s, m)
  BY OffersOf, OffersBoth DEF EdgeWriteRoutes, EdgeTools
<1>6. Offers(TagManagerWriteRoutes, s, m) =>
           Offers(EdgeTools, s, m) \/ Offers(TagManagerTools, s, m)
  BY OffersOf, OffersBoth DEF TagManagerWriteRoutes, EdgeTools, TagManagerTools
<1>7. Offers(RenameTools, s, m) =>
           Offers(GoogleWriteRoutes, s, m)
  BY OffersOf, OffersBoth DEF RenameTools, GoogleWriteRoutes
<1>8. Offers(BingWriteTools, s, m) =>
           Offers(BingWriteRoutes, s, m)
  BY OffersOf, OffersBoth DEF BingWriteTools, BingWriteRoutes
<1>9. Offers(GoogleWriteTools, s, m) =>
           \/ Offers(GoogleWriteRoutes, s, m)
           \/ Offers(SiteWriteRoutes, s, m)
  BY OffersOf, OffersBoth DEF GoogleWriteTools, GoogleWriteRoutes, SiteWriteRoutes
<1>10. Offers(SiteWriteTools, s, m) =>
           Offers(SiteWriteRoutes, s, m)
  BY OffersOf, OffersBoth DEF SiteWriteTools, SiteWriteRoutes
<1>11. Offers(EdgeTools, s, m) =>
           \/ Offers(EdgeWriteRoutes, s, m)
           \/ Offers(TagManagerWriteRoutes, s, m)
  BY OffersOf, OffersBoth DEF EdgeTools, EdgeWriteRoutes, TagManagerWriteRoutes
<1>12. Offers(TagManagerTools, s, m) =>
           Offers(TagManagerWriteRoutes, s, m)
  BY OffersOf, OffersBoth DEF TagManagerTools, TagManagerWriteRoutes
<1>13. Offers(MonitorTools, s, m) =>
           Offers(MonitorWriteRoutes, s, m)
  BY OffersOf, OffersBoth DEF MonitorTools, MonitorWriteRoutes
<1>14. Offers(WritingRoutes, s, m) => Offers(WritingTools, s, m)
  BY <1>1, <1>2, <1>3, <1>4, <1>5, <1>6, OffersBoth DEF WritingRoutes, WritingTools
<1>15. Offers(WritingTools, s, m) => Offers(WritingRoutes, s, m)
  BY <1>7, <1>8, <1>9, <1>10, <1>11, <1>12, <1>13, OffersBoth DEF WritingRoutes,
     WritingTools
<1>16. QED
  BY <1>14, <1>15

LEMMA SameMethods ==
  ASSUME NEW w \in BOOLEAN, NEW s, NEW m
  PROVE  Offers(RestRoutes[w], s, m) <=> Offers(McpTools[w], s, m)
<1>1. Offers(RestRoutes[w], s, m)
         <=> Offers(ReadingRoutes, s, m) \/ (w /\ Offers(WritingRoutes, s, m))
  BY RoutesAre DEF Offers
<1>2. Offers(McpTools[w], s, m)
         <=> Offers(ReadingTools, s, m) \/ (w /\ Offers(WritingTools, s, m))
  BY ToolsAre DEF Offers
<1>3. QED
  BY <1>1, <1>2, ReadsAgree, WritesAgree

-------------------------------------------------------------------------------
(* What a step may change, and what a tool says of it beforehand.          *)

LEMMA OfferedWrites ==
  ASSUME writesEnabled \in BOOLEAN, surface \in Surfaces, wanted \in WriteMethods,
         operation \in Names(surface)
  PROVE  /\ writesEnabled
         /\ surface = "mcp" =>
                /\ operation \in ListedTools[writesEnabled]
                /\ Told(operation, wanted)
<1>1. PICK op \in Offered(surface) : op.target = wanted /\ op.name = operation
  BY DEF Names
<1>2. CASE surface = "rest"
  <2>1. op \in RestRoutes[writesEnabled]
    BY <1>1, <1>2 DEF Offered
  <2>2. op \notin ReadingRoutes
    BY <1>1, RoutesRead DEF Reading
  <2>3. QED
    BY <1>2, <2>1, <2>2, RoutesAre
<1>3. CASE surface = "mcp"
  <2>1. op \in McpTools[writesEnabled]
    BY <1>1, <1>3 DEF Offered
  <2>2. op \notin ReadingTools
    BY <1>1, ToolsRead DEF Reading
  <2>3. writesEnabled /\ op \in WritingTools
    BY <2>1, <2>2, ToolsAre
  <2>4. Told(operation, wanted)
    BY <1>1, <2>3, ToolsTell DEF AllTold
  <2>5. operation \in ListedTools[writesEnabled]
    BY <1>1, <2>1, ListedIsDispatched
  <2>6. QED
    BY <2>3, <2>4, <2>5
<1>4. QED
  BY <1>2, <1>3 DEF Surfaces

(* Where the current request was made, and what was found there.           *)
SurfaceInv ==
  /\ writesEnabled \in BOOLEAN
  /\ surface \in Surfaces
  /\ \E s, m : wanted = <<s, m>>
  /\ operation # "none" => operation \in Names(surface)
  /\ DOMAIN found = Surfaces
  /\ \A s \in Surfaces :
         /\ found[s] \in {"untried", "absent", "offered"}
         /\ found[s] = "absent" => Names(s) = {}
         /\ found[s] = "offered" => Names(s) # {}

LEMMA InitSurface == Init => SurfaceInv
<1> SUFFICES ASSUME Init PROVE SurfaceInv
  OBVIOUS
<1>1. wanted \in Methods
  BY WantedAssumption DEF Init
<1>2. \E s, m : wanted = <<s, m>>
  BY <1>1 DEF Methods
<1>3. QED
  BY <1>2 DEF Init, SurfaceInv, Surfaces

LEMMA StepSurface == SurfaceInv /\ [Next]_vars => SurfaceInv'
<1> SUFFICES ASSUME SurfaceInv, [Next]_vars PROVE SurfaceInv'
  OBVIOUS
<1>1. ASSUME NEW s \in Surfaces, AskInVain(s) \/ TurnAway(s) \/ Begin(s)
      PROVE  SurfaceInv'
  <2>1. /\ writesEnabled' = writesEnabled /\ wanted' = wanted /\ surface' = s
        /\ \/ operation' = "none" /\ found' = [found EXCEPT ![s] = "absent"] /\ Names(s) = {}
           \/ operation' \in Names(s) /\ found' = [found EXCEPT ![s] = "offered"]
    BY <1>1 DEF AskInVain, TurnAway, Begin, Ask, request
  <2>2. \A r : Names(r)' = Names(r)
    BY <2>1 DEF Names, Offered
  <2>3. QED
    BY <2>1, <2>2 DEF SurfaceInv
<1>2. ASSUME NEW t \in waiting, Run(t)
      PROVE  SurfaceInv'
  BY <1>2 DEF Run, request, call, SurfaceInv, Names, Offered
<1>3. CASE UNCHANGED vars
  BY <1>3 DEF vars, SurfaceInv, Names, Offered
<1>4. ASSUME NEW t \in waiting, GiveUp(t)
      PROVE  SurfaceInv'
  BY <1>4 DEF GiveUp, request, call, SurfaceInv, Names, Offered
<1>5. ASSUME NEW i \in DOMAIN late, ApplyLate(i)
      PROVE  SurfaceInv'
  BY <1>5 DEF ApplyLate, request, call, SurfaceInv, Names, Offered
<1>6. QED
  BY <1>1, <1>2, <1>3, <1>4, <1>5, SMTT(30) DEF Next

LEMMA NamesAgree ==
  ASSUME SurfaceInv
  PROVE  Names("rest") = {} <=> Names("mcp") = {}
<1>1. PICK s, m : wanted = <<s, m>>
  BY DEF SurfaceInv
<1>2. Names("rest") # {} <=> Offers(RestRoutes[writesEnabled], s, m)
  BY <1>1 DEF Names, Offered, Offers
<1>3. Names("mcp") # {} <=> Offers(McpTools[writesEnabled], s, m)
  BY <1>1 DEF Names, Offered, Offers
<1>4. QED
  BY <1>2, <1>3, SameMethods DEF SurfaceInv

LEMMA InitLate == Init => LateInv
  BY DEF Init, LateInv

LEMMA StepLate == IInv /\ SurfaceInv /\ LateInv /\ [Next]_vars => LateInv'
<1> SUFFICES ASSUME IInv, SurfaceInv, LateInv, [Next]_vars PROVE LateInv'
  OBVIOUS
<1>1. ASSUME NEW s \in Surfaces, AskInVain(s) \/ TurnAway(s) \/ Begin(s)
      PROVE  LateInv'
  <2>1. /\ writesEnabled' = writesEnabled /\ wanted' = wanted /\ plan' = plan
        /\ late' = late /\ surface' = s
        /\ operation' \in Names(s) \/ Names(s) = {}
    BY <1>1 DEF AskInVain, TurnAway, Begin, Ask, request
  <2>2. \A r : Names(r)' = Names(r)
    BY <2>1 DEF Names, Offered
  <2>3. ASSUME NEW item \in Items(plan), late[item] > 0
        PROVE  Names(s) # {}
    <3>1. Names(surface) # {}
      BY <2>3 DEF LateInv
    <3>2. QED
      BY <3>1, NamesAgree DEF SurfaceInv, Surfaces
  <2>4. QED
    BY <2>1, <2>2, <2>3 DEF LateInv
<1>2. ASSUME NEW t \in waiting, Run(t)
      PROVE  LateInv'
  BY <1>2 DEF Run, request, call, LateInv, Names, Offered
<1>3. ASSUME NEW t \in waiting, GiveUp(t)
      PROVE  LateInv'
  <2>1. RequestInv /\ RunInv
    BY DEF IInv
  <2>2. /\ Kind(t) = "upsert" /\ late' = [late EXCEPT ![t] = @ + 1]
        /\ wanted' = wanted /\ plan' = plan /\ writesEnabled' = writesEnabled
        /\ surface' = surface /\ operation' = operation
    BY <1>3 DEF GiveUp, request, call
  <2>3. t \in Items(plan) /\ wanted \in WriteMethods /\ operation \in Names(surface)
    BY <2>1, <2>2, RunningStep, ItemsAreEffects DEF RunInv, Permitted, Effects
  <2>4. Names(surface)' = Names(surface)
    BY <2>2 DEF Names, Offered
  <2>5. QED
    BY <2>2, <2>3, <2>4 DEF LateInv
<1>4. ASSUME NEW i \in DOMAIN late, ApplyLate(i)
      PROVE  LateInv'
  <2>1. /\ late' = [late EXCEPT ![i] = @ - 1] /\ late[i] > 0
        /\ wanted' = wanted /\ plan' = plan /\ writesEnabled' = writesEnabled
        /\ surface' = surface /\ operation' = operation
    BY <1>4 DEF ApplyLate, request, call
  <2>2. Names(surface)' = Names(surface)
    BY <2>1 DEF Names, Offered
  <2>3. i \in Items(plan) /\ late[i] - 1 \in Nat
    BY <2>1 DEF LateInv
  <2>4. QED
    BY <2>1, <2>2, <2>3 DEF LateInv
<1>5. CASE UNCHANGED vars
  BY <1>5 DEF vars, LateInv, Names, Offered
<1>6. QED
  BY <1>1, <1>2, <1>3, <1>4, <1>5 DEF Next

(* In any number of requests, whatever the providers do and in whatever    *)
(* order the calls of a stage end: "OK" means that all the request writes  *)
(* was applied, a refusal that nothing was that counts twice, and being    *)
(* turned away that nothing was (the answers of rest.py and mcp.py).       *)
THEOREM AnswersAreTrue == Spec => []AnswersTellEffects
<1>1. IInv => AnswersTellEffects
  BY DEF IInv
<1>2. QED
  BY InitInv, StepInv, InitSurface, StepSurface, InitLate, StepLate, <1>1, PTL DEF Spec

(* The routes of REST and the dispatch of MCP are two hand-written tables, *)
(* and the list of tools a third: they offer the same methods, whether the *)
(* process may write or not (rest.py, mcp.py, tool_contracts.py).          *)
THEOREM TablesAgree == Spec => []SurfacesAgree
<1>1. SurfaceInv => SurfacesAgree
  <2> SUFFICES ASSUME SurfaceInv PROVE SurfacesAgree
    OBVIOUS
  <2>1. "untried" \notin {found["rest"], found["mcp"]} => found["rest"] = found["mcp"]
    BY NamesAgree DEF SurfaceInv, Surfaces
  <2>2. ASSUME surface = "mcp", operation # "none"
        PROVE  operation \in ListedTools[writesEnabled]
    <3>1. PICK op \in McpTools[writesEnabled] : op.name = operation
      BY <2>2 DEF SurfaceInv, Names, Offered
    <3>2. QED
      BY <3>1, ListedIsDispatched DEF SurfaceInv
  <2>3. ASSUME found["mcp"] = "absent", NEW tool \in ListedTools[writesEnabled]
        PROVE  \E op \in McpTools[writesEnabled] : op.name = tool /\ op.target # wanted
    <3>1. PICK op \in McpTools[writesEnabled] : op.name = tool
      BY ListedIsDispatched DEF SurfaceInv
    <3>2. op.target # wanted
      BY <2>3 DEF SurfaceInv, Surfaces, Names, Offered
    <3>3. QED
      BY <3>1, <3>2
  <2>4. QED
    BY <2>1, <2>2, <2>3 DEF SurfacesAgree
<1>2. QED
  BY InitSurface, StepSurface, <1>1, PTL DEF Spec

(* Every change of a step is an effect of the step.                        *)
LEMMA ChangesAreEffects ==
  ASSUME IInv, NEW t \in waiting, Run(t), NEW i \in DOMAIN world, world'[i] # world[i]
  PROVE  /\ EffectOf(t, i)
         /\ world'[i] = Applied(i, world[i])
<1>1. \E items : Land(items) /\ (i \in items => EffectOf(t, i))
  <2>1. CASE CheckPolicy(t) \/ Withhold(t) \/ Read(t)
    BY <2>1 DEF CheckPolicy, Withhold, Read
  <2>2. CASE Write(t)
    <3>1. PICK items \in SUBSET {t} : Land(items)
      BY <2>2 DEF Write
    <3>2. EffectOf(t, t)
      BY <2>2 DEF Write, EffectOf, Effects
    <3>3. QED
      BY <3>1, <3>2
  <2>3. CASE RunWorkflow(t)
    <3>1. PICK items \in SUBSET {t} : Land(items)
      BY <2>3 DEF RunWorkflow
    <3>2. EffectOf(t, t)
      BY <2>3 DEF RunWorkflow, EffectOf, Effects
    <3>3. QED
      BY <3>1, <3>2
  <2>4. CASE PublishBatch(t)
    <3>1. PICK done \in SUBSET Parts : Land({<<"part", k>> : k \in done})
      BY <2>4 DEF PublishBatch
    <3>2. {<<"part", k>> : k \in done} \subseteq PartItems
      BY <3>1 DEF PartItems
    <3>3. \A x \in PartItems : EffectOf(t, x)
      BY <2>4 DEF PublishBatch, EffectOf, Effects
    <3>4. QED
      BY <3>1, <3>2, <3>3
  <2>5. QED
    BY <2>1, <2>2, <2>3, <2>4 DEF Run
<1>2. PICK items : Land(items) /\ (i \in items => EffectOf(t, i))
  BY <1>1
<1>3. world'[i] = IF i \in items THEN Applied(i, world[i]) ELSE world[i]
  BY <1>2 DEF Land
<1>4. QED
  BY <1>2, <1>3

(* A write happens only where writes are enabled, and over MCP only by a   *)
(* tool that was listed with hints that allow for it (tool_contracts.py,   *)
(* seo_mcp.py): after any number of requests, a repetition through a tool  *)
(* called idempotent changes nothing more, unless an upsert that was posted *)
(* before is still on its way.                                             *)
THEOREM EffectsAreDeclared == Spec => DeclaredEffects
<1>1. ASSUME IInv, SurfaceInv, NEW t \in waiting, Run(t), NEW i \in DOMAIN world,
             world'[i] # world[i]
      PROVE  /\ writesEnabled
             /\ surface = "mcp" =>
                    /\ operation \in ListedTools[writesEnabled]
                    /\ ~ReadOnlyHint(operation)
                    /\ world'[i] < world[i] => DestructiveHint(operation)
                    /\ IdempotentHint(operation) =>
                           world[i] = Untouched(i) \/ late[i] > 0
  <2>1. RequestInv /\ RunInv
    BY <1>1 DEF IInv
  <2>2. EffectOf(t, i) /\ world'[i] = Applied(i, world[i])
    BY <1>1, ChangesAreEffects
  <2>3. stage # 0 /\ Permitted(wanted, Kind(t)) /\ operation \in Names(surface)
    BY <1>1, <2>1, RunningStep DEF RunInv
  <2>4. wanted \in WriteMethods
    BY <2>2, <2>3 DEF EffectOf, Permitted
  <2>5. /\ writesEnabled
        /\ surface = "mcp" =>
               operation \in ListedTools[writesEnabled] /\ Told(operation, wanted)
    BY <1>1, <2>3, <2>4, OfferedWrites DEF SurfaceInv
  <2>6. world[i] \in Values(i)
    BY <1>1, <2>1 DEF RequestInv
  <2>7. Kind(i) = Kind(t) \/ Kind(i) = "post"
    BY <2>2, PartKind DEF EffectOf, PartItems
  <2>8. world'[i] < world[i] => Kind(t) = "delete"
    BY <2>2, <2>6, <2>7 DEF Applied, Values
  <2>9. Kind(t) \in {"put", "upsert"} => world[i] = Untouched(i)
    <3>1. Kind(t) \in {"put", "upsert"} => i = t
      BY <2>2 DEF EffectOf
    <3>2. QED
      BY <1>1, <2>2, <2>6, <3>1 DEF Applied, Values, Untouched
  <2>10. wanted \in RepeatableMethods => Kind(t) \in {"put", "upsert"}
    BY <2>2, <2>3 DEF EffectOf, Permitted
  <2>11. Kind(t) = "delete" => wanted \in RemovingMethods
    BY <2>3 DEF Permitted
  <2>12. QED
    BY <2>5, <2>8, <2>9, <2>10, <2>11 DEF Told, ReadOnlyHint
<1>2. ASSUME Next, NEW i \in DOMAIN world, world'[i] # world[i]
      PROVE  \/ \E t \in waiting : Run(t)
             \/ \E j \in DOMAIN late : ApplyLate(j)
  BY <1>2 DEF Next, AskInVain, TurnAway, Begin, Ask, GiveUp
<1>3. ASSUME IInv, SurfaceInv, LateInv, NEW j \in DOMAIN late, ApplyLate(j),
             NEW i \in DOMAIN world, world'[i] # world[i]
      PROVE  /\ writesEnabled
             /\ surface = "mcp" =>
                    /\ operation \in ListedTools[writesEnabled]
                    /\ ~ReadOnlyHint(operation)
                    /\ world'[i] < world[i] => DestructiveHint(operation)
                    /\ IdempotentHint(operation) =>
                           world[i] = Untouched(i) \/ late[i] > 0
  <2>1. i = j /\ late[i] > 0 /\ world'[i] = world[i] + 1
    BY <1>3 DEF ApplyLate
  <2>2. i \in Items(plan) /\ Kind(i) = "upsert" /\ world[i] \in Nat
    BY <1>3, <2>1 DEF LateInv, IInv, RequestInv, Values
  <2>3. wanted \in WriteMethods /\ operation \in Names(surface)
    BY <1>3, <2>1, <2>2 DEF LateInv
  <2>4. /\ writesEnabled
        /\ surface = "mcp" =>
               operation \in ListedTools[writesEnabled] /\ Told(operation, wanted)
    BY <1>3, <2>3, OfferedWrites DEF SurfaceInv
  <2>5. ~(world'[i] < world[i])
    BY <2>1, <2>2
  <2>6. QED
    BY <2>1, <2>4, <2>5 DEF Told, ReadOnlyHint
<1>4. IInv /\ SurfaceInv /\ LateInv /\ [Next]_vars =>
        [\A i \in DOMAIN world :
            world'[i] # world[i] =>
                /\ writesEnabled
                /\ surface = "mcp" =>
                       /\ operation \in ListedTools[writesEnabled]
                       /\ ~ReadOnlyHint(operation)
                       /\ world'[i] < world[i] => DestructiveHint(operation)
                       /\ IdempotentHint(operation) =>
                              world[i] = Untouched(i) \/ late[i] > 0]_vars
  BY <1>1, <1>2, <1>3
<1>5. QED
  BY InitInv, StepInv, InitSurface, StepSurface, InitLate, StepLate, <1>4, PTL
     DEF Spec, DeclaredEffects

===============================================================================
