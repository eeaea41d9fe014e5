---------------------------- MODULE ServicePlans ----------------------------
(***************************************************************************)
(* What each service method does, as plans.  A plan is a sequence of       *)
(* stages, a stage the set of steps that run side by side (more than one   *)
(* only under asyncio.gather), a step a check of the boundary policy       *)
(* <<"policy", provider>> or a call <<client, method>>.  A method whose    *)
(* course depends on its request has several plans.                        *)
(***************************************************************************)
EXTENDS ProviderCalls, Sequences

Check(owner) == <<{<<"policy", owner>>}>>
Call(client, method) == <<{<<client, method>>}>>
Gather(client1, method1, client2, method2) ==
    <<{<<client1, method1>>, <<client2, method2>>}>>

(* A table of methods that make one call, without or after a check.        *)
Direct(client, methods) == [m \in DOMAIN methods |-> {Call(client, methods[m])}]
Checked(owner, client, methods) ==
    [m \in DOMAIN methods |-> {Check(owner) \o Call(client, methods[m])}]

(* A method that answers from the settings and the boundary file.          *)
Local == {<<>>}

-----------------------------------------------------------------------------
LocalPlans == [server_info |-> Local]
SitesPlans == [accounts_list |-> Local, sites_list |-> Local]
DiagnosticsPlans == [diagnostics |-> Local]
GuidePlans == [render |-> Local]
SchemaPlans == [validate_html |-> Local, validate_json_ld |-> Local,
                validate_url |-> {Call("pages", "fetch")}]

(* An account of a provider without a readiness client is answered here.   *)
ReadinessPlans ==
    [readiness |-> {Check("google") \o Call("search_console", "readiness"),
                    Check("bing") \o Call("bing", "readiness"),
                    Check("cloudflare") \o Call("dns", "readiness"),
                    Check("clarity")}]

SearchSitePlans ==
    Direct("search_console", [list_sites |-> "list_sites", get_site |-> "get_site",
                              list_sitemaps |-> "list_sitemaps"])
    ++ Checked("google", "search_console",
               [get_sitemap |-> "get_sitemap", inspect_url |-> "inspect_url"])
    ++ [inspect_urls |-> {Check("google") \o Call("search_console", "inspect_url")
                                          \o Call("search_console", "inspect_url")}]

SearchAnalytics == Check("google") \o Call("search_console", "search_analytics")
SearchReportPlans ==
    [m \in {"search_analytics", "search_analytics_summary",
            "search_analytics_dimension_report", "search_analytics_trend",
            "search_analytics_anomalies", "search_analytics_page_performance"}
        |-> {SearchAnalytics}]
    ++ [m \in {"search_analytics_comparison", "search_analytics_drop_attribution"}
        |-> {SearchAnalytics \o SearchAnalytics}]

AnalyticsReport == Check("google") \o Call("analytics", "run_report")
AnalyticsPlans ==
    Checked("google", "analytics",
            [list_account_summaries |-> "list_account_summaries",
             run_realtime_report |-> "run_realtime_report",
             conversion_funnel |-> "run_funnel_report"])
    ++ [m \in {"run_report", "content_performance", "landing_page_performance",
               "organic_search_landing_pages", "traffic_source_performance",
               "ecommerce_performance", "audience_segments", "user_behavior"}
        |-> {AnalyticsReport}]

AnalyticsAdminPlans ==
    Direct("analytics_admin", [list_data_streams |-> "list_data_streams",
                               rename_account |-> "update_account_display_name",
                               rename_property |-> "update_property_display_name"])

TagManagerPlans ==
    Direct("tag_manager",
           [list_accounts |-> "list_accounts", list_containers |-> "list_containers",
            create_container |-> "create_container",
            delete_container |-> "delete_container",
            list_workspaces |-> "list_workspaces",
            create_workspace |-> "create_workspace",
            delete_workspace |-> "delete_workspace",
            list_entities |-> "list_entities", create_entity |-> "create_entity",
            update_entity |-> "update_entity", delete_entity |-> "delete_entity",
            create_version |-> "create_workspace_version",
            publish_version |-> "publish_version"])

PageSpeedPlans == Checked("google", "pagespeed", [analyze |-> "analyze",
                                                  core_web_vitals |-> "analyze"])
CruxPlans == Direct("crux", [history |-> "query"])
ClarityPlans == Direct("clarity", [live_insights |-> "live_insights"])
LighthousePlans ==
    [m \in {"audit", "seo_findings", "accessibility_findings", "performance_findings",
            "best_practices_findings"} |-> {Check("google") \o Call("lighthouse", "audit")}]

BingTrafficPlans ==
    Direct("bing", [keyword_statistics |-> "read_keyword_stats",
                    related_keywords |-> "read_related_keywords",
                    traffic_trend |-> "read_rank_and_traffic_stats",
                    traffic_anomalies |-> "read_rank_and_traffic_stats"])
    ++ [traffic_comparison |-> {Call("bing", "read_rank_and_traffic_stats")
                                \o Call("bing", "read_rank_and_traffic_stats")}]
BingReportPlans ==
    Direct("bing", [query_performance |-> "read_query_stats",
                    page_performance |-> "read_page_stats",
                    query_opportunities |-> "read_query_stats",
                    brand_analysis |-> "read_query_stats",
                    ranking_buckets |-> "read_query_stats",
                    page_opportunities |-> "read_page_stats",
                    query_page_performance |-> "read_query_page_stats",
                    query_cannibalization |-> "read_query_page_stats"])
    ++ [opportunity_matrix |-> {Check("bing") \o Gather("bing", "read_query_stats",
                                                        "bing", "read_page_stats")}]
BingSitePlans ==
    Checked("bing", "bing", [page_query_performance |-> "read_page_query_stats",
                             url_submission_quota |-> "read_url_submission_quota",
                             crawl_issues |-> "read_crawl_issues",
                             crawl_stats |-> "read_crawl_stats", feeds |-> "read_feeds",
                             link_counts |-> "read_link_counts"])
BingUrlPlans ==
    Checked("bing", "bing", [url_information |-> "read_url_information"])
    ++ [backlink_intelligence |->
            {Check("bing") \o Check("bing") \o Call("bing", "read_url_links"),
             Check("bing") \o Check("bing") \o Call("bing", "read_url_links")
                                            \o Call("bing", "read_url_links")}]
BingSubmissionPlans ==
    [submit_url_batch |-> {Check("bing") \o Call("bing", "submit_url_batch")},
     submit_site |-> {Check("bing") \o Call("bing", m) : m \in {"add_site", "remove_site"}},
     submit_sitemap |-> {Check("bing") \o Call("bing", m)
                            : m \in {"submit_feed", "remove_feed"}}]

BingContentPlans ==
    [submit |-> {Check("bing") \o Call("pages", "fetch") \o Call("bing", "submit_content")}]

GoogleSitesPlans ==
    [submit |-> {Check("google") \o Call("search_console", m)
                    : m \in {"add_site", "delete_site"}}]
GoogleSitemapsPlans ==
    [submit |-> {Check("google") \o Call("search_console", m)
                    : m \in {"submit_sitemap", "delete_sitemap"}}]

(* Only a page that is announced as updated is fetched first.              *)
IndexingPlans ==
    [submit |-> {Check("google") \o Call("pages", "fetch") \o Call("indexing", "publish"),
                 Check("google") \o Call("indexing", "publish")},
     submit_batch |-> {Check("google") \o Call("pages", "fetch")
                                       \o Call("indexing", "publish_batch"),
                       Check("google") \o Call("indexing", "publish_batch")}]
IndexingMetadataPlans == Checked("google", "indexing", [metadata |-> "metadata"])

RemediationPlans ==
    [apply |-> {Check("google") \o Check("bing")
                \o Call("search_console", "submit_sitemap")
                \o Call("bing", "submit_feed") \o Call("bing", "submit_url_batch")}]

CloudflarePlans == Direct("cloudflare", [analytics |-> "analytics", purge |-> "purge_urls",
                                         apply_cache_template |-> "apply_cache_template"])
EdgeRedirectPlans ==
    LET InZone(method) == {Call("dns", "resolve_zone") \o Call("cloudflare", method)}
    IN  [list |-> InZone("list_edge_redirects"), upsert |-> InZone("upsert_edge_redirect"),
         delete |-> InZone("delete_edge_redirect")]

CrossProviderPlans ==
    [ga4_pagespeed_correlation |->
        {Check("google") \o Check("google")
         \o Gather("analytics", "run_report", "pagespeed", "analyze")},
     ga4_search_console_comparison |->
        {Check("google") \o Check("google")
         \o Gather("analytics", "run_report", "search_console", "search_analytics")},
     search_engine_comparison |->
        {Check("google") \o Check("bing")
         \o Gather("search_console", "search_analytics",
                   "bing", "read_rank_and_traffic_stats")},
     search_engine_traffic_health |->
        {Check("google") \o Check("bing")
         \o Gather("search_console", "search_analytics",
                   "bing", "read_rank_and_traffic_stats")}]

Crawl == Call("crawl", "audit")
ContentOpportunityPlans ==
    [report |-> {SearchAnalytics \o Call("bing", "read_query_stats")
                 \o AnalyticsReport \o Crawl}]
InternalLinkPlans == [graph |-> {Crawl}, opportunities |-> {Crawl},
                      orphans |-> {Crawl \o SearchAnalytics \o AnalyticsReport}]
SiteAuditPlans == [audit |-> {Crawl}]

(* Every request names the site of the monitor, which is checked first.  A *)
(* run also claims the monitor; Monitoring has the claims.                 *)
MonitoringPlans ==
    Checked("site", "store",
            [list_monitors |-> "list_monitors", list_snapshots |-> "list_snapshots",
             list_issues |-> "list_issues", list_issue_events |-> "list_issue_events",
             create_monitor |-> "create_monitor", update_monitor |-> "update_monitor",
             delete_monitor |-> "delete_monitor", set_issue_status |-> "set_issue_status"])
    ++ [run_monitor |-> {Check("site") \o Crawl \o Call("store", "save_run")}]

(* No call when every URL is in flight or was submitted a moment ago.      *)
IndexNowPlans == [submit |-> {Check("indexnow") \o Call("indexnow", "submit"),
                              Check("indexnow")}]
OwnershipPlans == [check |-> {Call("setup", "check")}, verify |-> {Call("setup", "verify")}]
OnboardingPlans == [submit |-> {Call("setup", "onboard")}]

Plans ==
    [capabilities |-> LocalPlans, sites |-> SitesPlans, diagnostics |-> DiagnosticsPlans,
     onboarding_guide |-> GuidePlans, local_schema |-> SchemaPlans,
     provider_readiness |-> ReadinessPlans,
     google_search_console |-> SearchSitePlans ++ SearchReportPlans,
     google_analytics |-> AnalyticsPlans, google_analytics_admin |-> AnalyticsAdminPlans,
     google_tag_manager |-> TagManagerPlans, pagespeed |-> PageSpeedPlans,
     crux |-> CruxPlans, clarity |-> ClarityPlans, lighthouse |-> LighthousePlans,
     bing_webmaster |-> BingTrafficPlans ++ BingReportPlans ++ BingSitePlans
                        ++ BingUrlPlans ++ BingSubmissionPlans,
     bing_content |-> BingContentPlans, google_sites |-> GoogleSitesPlans,
     google_sitemaps |-> GoogleSitemapsPlans, google_indexing |-> IndexingPlans,
     google_indexing_metadata |-> IndexingMetadataPlans,
     site_remediation |-> RemediationPlans, cloudflare_performance |-> CloudflarePlans,
     edge_redirects |-> EdgeRedirectPlans, cross_provider |-> CrossProviderPlans,
     content_opportunities |-> ContentOpportunityPlans,
     internal_links |-> InternalLinkPlans, site_audit |-> SiteAuditPlans,
     monitoring |-> MonitoringPlans, indexnow |-> IndexNowPlans,
     site_ownership |-> OwnershipPlans, site_onboarding |-> OnboardingPlans]

(* Everything a request can want.                                          *)
Methods == UNION {{<<s, m>> : m \in DOMAIN Plans[s]} : s \in DOMAIN Plans}
=============================================================================
