----------------------------- MODULE RestRoutes -----------------------------
(***************************************************************************)
(* The REST surface: which service method each operation of the router     *)
(* calls, and which operations are registered at all.  An operation is     *)
(* named by its operation id; what it wants is a pair of a service of      *)
(* ApplicationServices and one of its methods.  A Lighthouse finding is    *)
(* named by its category, which is a parameter of one method.              *)
(***************************************************************************)
Of(service, methods) ==
    {[name |-> op, target |-> <<service, methods[op]>>] : op \in DOMAIN methods}

(* Tables of operations are joined to larger ones: a union, by a name of   *)
(* its own that the provers keep as it stands.                             *)
left \sqcup right == left \cup right

(* The services that build_services leaves out while writes are disabled.  *)
WriteServices == {"indexnow", "google_indexing", "google_sites", "google_sitemaps",
                  "site_remediation", "bing_content", "site_onboarding"}

Built(service, writes) == service \in WriteServices => writes

(* The operations of a table whose service was built.                      *)
Served(table, writes) == {op \in table : Built(op.target[1], writes)}

-----------------------------------------------------------------------------
(* Registered always.                                                      *)
LocalRoutes ==
    Of("capabilities", [server_info |-> "server_info"])
    \sqcup Of("sites", [accounts_list |-> "accounts_list",
        sites_list |-> "sites_list"])
    \sqcup Of("provider_readiness", [provider_readiness |-> "readiness"])
    \sqcup Of("site_audit", [site_audit_create |-> "audit"])
    \sqcup Of("site_ownership", [site_ownership_check |-> "check"])
    \sqcup Of("bing_webmaster", [
        bing_backlink_intelligence |-> "backlink_intelligence"])

SearchQueryRoutes ==
    Of("google_search_console", [
        google_search_analytics_query |-> "search_analytics",
        google_search_analytics_summary |-> "search_analytics_summary",
        google_search_analytics_comparison |-> "search_analytics_comparison",
        google_search_analytics_dimension_report |-> "search_analytics_dimension_report"])

SearchTrendRoutes ==
    Of("google_search_console", [
        google_search_analytics_drop_attribution |-> "search_analytics_drop_attribution",
        google_search_analytics_trend |-> "search_analytics_trend",
        google_search_analytics_anomalies |-> "search_analytics_anomalies",
        google_search_analytics_page_performance |-> "search_analytics_page_performance"])

SearchSiteRoutes ==
    Of("google_search_console", [google_sites_list |-> "list_sites",
        google_site_get |-> "get_site",
        google_sitemaps_list |-> "list_sitemaps",
        google_sitemap_get |-> "get_sitemap",
        google_url_inspection |-> "inspect_url",
        google_url_inspection_batch |-> "inspect_urls"])

AnalyticsRoutes ==
    Of("onboarding_guide", [onboarding_guide |-> "render"])
    \sqcup Of("google_analytics_admin", [
        google_analytics_data_streams |-> "list_data_streams"])
    \sqcup Of("google_analytics", [
        google_analytics_account_inventory |-> "list_account_summaries",
        google_analytics_report |-> "run_report",
        google_analytics_content_performance |-> "content_performance",
        google_analytics_landing_page_performance |-> "landing_page_performance",
        google_analytics_organic_search_landing_pages |-> "organic_search_landing_pages"])

AnalyticsReportRoutes ==
    Of("google_analytics", [
        google_analytics_traffic_source_performance |-> "traffic_source_performance",
        google_analytics_ecommerce_performance |-> "ecommerce_performance",
        google_analytics_audience_segments |-> "audience_segments",
        google_analytics_user_behavior |-> "user_behavior",
        google_analytics_conversion_funnel |-> "conversion_funnel",
        google_analytics_realtime_report |-> "run_realtime_report"])

PageSpeedRoutes ==
    Of("pagespeed", [pagespeed_analyze |-> "analyze",
        pagespeed_core_web_vitals |-> "core_web_vitals"])
    \sqcup Of("lighthouse", [lighthouse_audit |-> "audit",
        lighthouse_seo_findings |-> "seo_findings",
        lighthouse_accessibility_findings |-> "accessibility_findings",
        lighthouse_performance_findings |-> "performance_findings",
        lighthouse_best_practices_findings |-> "best_practices_findings"])
    \sqcup Of("cross_provider", [
        ga4_pagespeed_correlation |-> "ga4_pagespeed_correlation"])

CrossProviderRoutes ==
    Of("cross_provider", [
        ga4_search_console_comparison |-> "ga4_search_console_comparison",
        search_engine_comparison |-> "search_engine_comparison",
        search_engine_traffic_health |-> "search_engine_traffic_health"])
    \sqcup Of("local_schema", [schema_validate_html |-> "validate_html",
        schema_validate_json_ld |-> "validate_json_ld",
        schema_validate_url |-> "validate_url"])
    \sqcup Of("bing_webmaster", [bing_keyword_statistics |-> "keyword_statistics",
        bing_related_keywords |-> "related_keywords"])

BingTrafficRoutes ==
    Of("bing_webmaster", [bing_traffic_trend |-> "traffic_trend",
        bing_traffic_anomalies |-> "traffic_anomalies",
        bing_traffic_comparison |-> "traffic_comparison",
        bing_query_performance |-> "query_performance",
        bing_page_performance |-> "page_performance",
        bing_brand_analysis |-> "brand_analysis",
        bing_ranking_buckets |-> "ranking_buckets",
        bing_query_opportunities |-> "query_opportunities"])

BingPageRoutes ==
    Of("bing_webmaster", [bing_page_opportunities |-> "page_opportunities",
        bing_opportunity_matrix |-> "opportunity_matrix",
        bing_query_page_performance |-> "query_page_performance",
        bing_query_cannibalization |-> "query_cannibalization",
        bing_page_query_performance |-> "page_query_performance",
        bing_url_submission_quota |-> "url_submission_quota",
        bing_crawl_issues |-> "crawl_issues",
        bing_crawl_stats |-> "crawl_stats"])

BingSiteRoutes ==
    Of("bing_webmaster", [bing_feeds |-> "feeds",
        bing_link_counts |-> "link_counts",
        bing_url_information |-> "url_information"])

IndexingReadRoutes ==
    Of("google_indexing_metadata", [
        google_indexing_metadata_get |-> "metadata"])

HealthRoutes ==
    Of("diagnostics", [ready |-> "diagnostics"])

InsightRoutes ==
    Of("internal_links", [internal_link_graph |-> "graph",
        orphan_page_report |-> "orphans",
        internal_link_opportunities |-> "opportunities"])
    \sqcup Of("crux", [crux_history |-> "history"])
    \sqcup Of("cloudflare_performance", [cloudflare_analytics |-> "analytics"])
    \sqcup Of("content_opportunities", [content_opportunities |-> "report"])
    \sqcup Of("clarity", [clarity_insights |-> "live_insights"])

TagManagerListRoutes ==
    Of("google_tag_manager", [
        google_tag_manager_accounts_list |-> "list_accounts",
        google_tag_manager_containers_list |-> "list_containers",
        google_tag_manager_workspaces_list |-> "list_workspaces",
        google_tag_manager_entities_list |-> "list_entities"])
    \sqcup Of("edge_redirects", [edge_redirects_list |-> "list"])

MonitorListRoutes ==
    Of("monitoring", [monitors_list |-> "list_monitors",
        monitor_snapshots_list |-> "list_snapshots",
        monitor_issues_list |-> "list_issues",
        issue_events_list |-> "list_issue_events"])

-----------------------------------------------------------------------------
(* Registered only if the process may write.                               *)
BingWriteRoutes ==
    Of("bing_webmaster", [bing_url_submission_create |-> "submit_url_batch",
        bing_sitemap_submission_create |-> "submit_sitemap",
        bing_site_submission_create |-> "submit_site"])

GoogleWriteRoutes ==
    Of("google_indexing", [google_indexing_submission_create |-> "submit",
        google_indexing_batch_submission_create |-> "submit_batch"])
    \sqcup Of("google_sitemaps", [google_sitemap_submission_create |-> "submit"])
    \sqcup Of("google_analytics_admin", [
        google_analytics_account_rename |-> "rename_account",
        google_analytics_property_rename |-> "rename_property"])

SiteWriteRoutes ==
    Of("google_sites", [google_site_submission_create |-> "submit"])
    \sqcup Of("site_onboarding", [site_onboarding_submission_create |-> "submit"])
    \sqcup Of("site_ownership", [site_ownership_verification_create |-> "verify"])
    \sqcup Of("site_remediation", [site_remediation_create |-> "apply"])
    \sqcup Of("indexnow", [indexnow_submit |-> "submit"])

MonitorWriteRoutes ==
    Of("monitoring", [monitor_create |-> "create_monitor",
        monitor_update |-> "update_monitor",
        monitor_delete |-> "delete_monitor", monitor_run |-> "run_monitor",
        issue_status_update |-> "set_issue_status"])
    \sqcup Of("cloudflare_performance", [cloudflare_cache_purge |-> "purge",
        cloudflare_cache_template_apply |-> "apply_cache_template"])

EdgeWriteRoutes ==
    Of("bing_content", [bing_content_submission_create |-> "submit"])
    \sqcup Of("edge_redirects", [edge_redirect_upsert |-> "upsert",
        edge_redirect_delete |-> "delete"])
    \sqcup Of("google_tag_manager", [
        google_tag_manager_container_create |-> "create_container",
        google_tag_manager_container_delete |-> "delete_container",
        google_tag_manager_workspace_create |-> "create_workspace"])

TagManagerWriteRoutes ==
    Of("google_tag_manager", [
        google_tag_manager_workspace_delete |-> "delete_workspace",
        google_tag_manager_entity_create |-> "create_entity",
        google_tag_manager_entity_update |-> "update_entity",
        google_tag_manager_entity_delete |-> "delete_entity",
        google_tag_manager_workspace_version_create |-> "create_version",
        google_tag_manager_version_publish |-> "publish_version"])

SeoRoutes(writes) ==
    InsightRoutes \sqcup TagManagerListRoutes \sqcup MonitorListRoutes
    \sqcup (IF writes
            THEN MonitorWriteRoutes \sqcup EdgeWriteRoutes \sqcup TagManagerWriteRoutes
            ELSE {})

RestRoutes ==
    [writes \in BOOLEAN |->
     Served(LocalRoutes \sqcup SearchQueryRoutes \sqcup SearchTrendRoutes
            \sqcup SearchSiteRoutes \sqcup AnalyticsRoutes \sqcup AnalyticsReportRoutes
            \sqcup PageSpeedRoutes \sqcup CrossProviderRoutes \sqcup BingTrafficRoutes
            \sqcup BingPageRoutes \sqcup BingSiteRoutes \sqcup IndexingReadRoutes
            \sqcup HealthRoutes
            \sqcup (IF writes
                    THEN BingWriteRoutes \sqcup GoogleWriteRoutes \sqcup SiteWriteRoutes
                    ELSE {})
            \sqcup SeoRoutes(writes), writes)]
=============================================================================
