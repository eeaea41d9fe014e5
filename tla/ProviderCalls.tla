---------------------------- MODULE ProviderCalls ----------------------------
(***************************************************************************)
(* The calls the services make: the methods of each client, and what the   *)
(* call does at its provider.  "read" changes nothing.  "put" brings one   *)
(* thing about, however often it is repeated; "delete" removes one thing.  *)
(* "post" counts each time it is applied.  "upsert" reads whether its      *)
(* thing is there and posts it if not.  "batch" is one call that carries   *)
(* several posts, which the provider applies one by one.                   *)
(* "workflow" is one of the longer operations that other modules take      *)
(* apart (SiteOnboarding, SiteOwnership).                                  *)
(***************************************************************************)
EXTENDS ProviderHttp

(* Large tables are merged from smaller ones: both, the first one where    *)
(* both have an entry.  This is the operator @@ of module TLC, written out *)
(* because the provers cannot open that one.                               *)
f ++ g == [x \in DOMAIN f \cup DOMAIN g |-> IF x \in DOMAIN f THEN f[x] ELSE g[x]]

Reads(methods) == [m \in methods |-> "read"]

BingSiteCalls == Reads({"readiness", "list_sites", "read_rank_and_traffic_stats",
                        "read_query_stats", "read_page_stats", "read_query_page_stats",
                        "read_page_query_stats"})
BingCrawlCalls == Reads({"read_url_submission_quota", "read_crawl_issues",
                         "read_crawl_stats", "read_feeds", "read_link_counts",
                         "read_url_links"})
BingUrlCalls == Reads({"read_url_information", "read_keyword_stats",
                       "read_related_keywords"})
BingWrites == [submit_url_batch |-> "post", submit_content |-> "post",
               add_site |-> "put", remove_site |-> "delete",
               submit_feed |-> "put", remove_feed |-> "delete"]
BingCalls == BingSiteCalls ++ BingCrawlCalls ++ BingUrlCalls ++ BingWrites

SearchConsoleSiteCalls == Reads({"readiness", "list_sites", "search_analytics", "get_site"})
                          ++ [add_site |-> "put", delete_site |-> "delete"]
SearchConsoleSitemapCalls == Reads({"list_sitemaps", "get_sitemap", "inspect_url"})
                             ++ [submit_sitemap |-> "put", delete_sitemap |-> "delete"]
SearchConsoleCalls == SearchConsoleSiteCalls ++ SearchConsoleSitemapCalls

(* The Indexing API, behind the Search Console client's HTTP.              *)
IndexingCalls == [publish |-> "post", metadata |-> "read", publish_batch |-> "batch"]

AnalyticsCalls == Reads({"run_report", "run_realtime_report", "run_funnel_report",
                         "list_account_summaries"})
AnalyticsAdminCalls == Reads({"list_data_streams"})
                       ++ [update_account_display_name |-> "put",
                           update_property_display_name |-> "put"]

TagManagerContainerCalls == Reads({"list_accounts", "list_containers"})
                            ++ [create_container |-> "post", delete_container |-> "delete"]
TagManagerWorkspaceCalls == Reads({"list_workspaces", "list_entities"})
                            ++ [create_workspace |-> "post", delete_workspace |-> "delete",
                                create_entity |-> "post", update_entity |-> "put",
                                delete_entity |-> "delete"]
TagManagerVersionCalls == [create_workspace_version |-> "post", publish_version |-> "put"]
TagManagerCalls == TagManagerContainerCalls ++ TagManagerWorkspaceCalls
                   ++ TagManagerVersionCalls

PageSpeedCalls == Reads({"analyze"})
CruxCalls == Reads({"query"})
ClarityCalls == Reads({"live_insights"})
LighthouseCalls == Reads({"audit"})

CloudflareAnalyticsCalls == Reads({"analytics"})
CloudflareCacheCalls == [purge_urls |-> "post", apply_cache_template |-> "upsert"]
CloudflareRedirectCalls == Reads({"list_edge_redirects"})
                           ++ [upsert_edge_redirect |-> "upsert",
                               delete_edge_redirect |-> "delete"]
CloudflareCalls == CloudflareAnalyticsCalls ++ CloudflareCacheCalls
                   ++ CloudflareRedirectCalls
DnsCalls == Reads({"readiness", "resolve_zone"})

IndexNowCalls == [submit |-> "post"]

(* Not providers: the pages of a site, a crawl, the monitor store.         *)
PageCalls == Reads({"fetch"})
CrawlCalls == Reads({"audit"})
StoreCalls == Reads({"list_monitors", "list_snapshots", "list_issues", "list_issue_events"})
              ++ [create_monitor |-> "post", update_monitor |-> "put",
                  delete_monitor |-> "delete", save_run |-> "post",
                  set_issue_status |-> "put"]
SetupCalls == [check |-> "read", verify |-> "workflow", onboard |-> "workflow"]

Calls ==
    [bing |-> BingCalls, search_console |-> SearchConsoleCalls,
     indexing |-> IndexingCalls, analytics |-> AnalyticsCalls,
     analytics_admin |-> AnalyticsAdminCalls, tag_manager |-> TagManagerCalls,
     pagespeed |-> PageSpeedCalls, crux |-> CruxCalls, clarity |-> ClarityCalls,
     lighthouse |-> LighthouseCalls, cloudflare |-> CloudflareCalls, dns |-> DnsCalls,
     indexnow |-> IndexNowCalls, pages |-> PageCalls, crawl |-> CrawlCalls,
     store |-> StoreCalls, setup |-> SetupCalls]

(* A crawl notes the pages it cannot have and still has a report.          *)
CrawlCode == [c \in Conducts |-> "OK"]

Code ==
    [bing |-> BingCode, search_console |-> SearchConsoleCode,
     indexing |-> SearchConsoleCode, analytics |-> AnalyticsCode,
     analytics_admin |-> AnalyticsAdminCode, tag_manager |-> TagManagerCode,
     pagespeed |-> PageSpeedCode, crux |-> CruxCode, clarity |-> ClarityCode,
     lighthouse |-> LighthouseCode, cloudflare |-> CloudflareCode,
     dns |-> CloudflareDnsCode, indexnow |-> IndexNowCode, pages |-> PageFetchCode,
     crawl |-> CrawlCode, store |-> StoreCode, setup |-> UsualCode]

(* The provider of the account a client resolves before it calls; "none"   *)
(* where no account is involved or the service has resolved it.            *)
Owner ==
    [c \in DOMAIN Calls |->
        CASE c \in {"search_console", "indexing", "analytics", "analytics_admin",
                    "tag_manager", "pagespeed", "crux"} -> "google"
          [] c \in {"cloudflare", "dns"} -> "cloudflare"
          [] c = "crawl" -> "site"
          [] c \in {"bing", "clarity", "indexnow"} -> c
          [] OTHER -> "none"]

(* How a call can end before it has sent anything that writes.  A Google   *)
(* client asks for an access token first, which is an exchange of its own; *)
(* the others read a key file.  A Cloudflare write inspects the rulesets   *)
(* and may find the rule not to be Rankrat's.                              *)
Unsent(client) ==
    CASE Owner[client] = "google" -> FailureCodes
      [] Owner[client] = "cloudflare" -> FailureCodes \cup {"rejected"}
      [] Owner[client] \in {"bing", "clarity"} -> {"AUTHENTICATION"}
      [] OTHER -> {"rejected"}
=============================================================================
