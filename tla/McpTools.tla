------------------------------ MODULE McpTools ------------------------------
(***************************************************************************)
(* The MCP surface: which service method a call of each tool reaches, the  *)
(* tools the server lists, and the hints it lists them with.  Listing and  *)
(* dispatch are separate code, kept in step by hand.                       *)
(***************************************************************************)
EXTENDS RestRoutes

(* Tools dispatched through a table of report kinds.                       *)
KindTools ==
    Of("google_analytics", [
        google_analytics_content_performance |-> "content_performance",
        google_analytics_landing_page_performance |-> "landing_page_performance",
        google_analytics_organic_search_landing_pages |-> "organic_search_landing_pages",
        google_analytics_traffic_source_performance |-> "traffic_source_performance",
        google_analytics_ecommerce_performance |-> "ecommerce_performance",
        google_analytics_audience_segments |-> "audience_segments",
        google_analytics_user_behavior |-> "user_behavior"])
    \sqcup Of("lighthouse", [lighthouse_seo_findings |-> "seo_findings",
        lighthouse_accessibility_findings |-> "accessibility_findings",
        lighthouse_performance_findings |-> "performance_findings",
        lighthouse_best_practices_findings |-> "best_practices_findings"])

BingReportTools ==
    Of("bing_webmaster", [bing_query_performance |-> "query_performance",
        bing_page_performance |-> "page_performance",
        bing_brand_analysis |-> "brand_analysis",
        bing_ranking_buckets |-> "ranking_buckets",
        bing_query_page_performance |-> "query_page_performance",
        bing_query_cannibalization |-> "query_cannibalization"])

(* Dispatched always.                                                      *)
AnalyticsTools ==
    Of("lighthouse", [lighthouse_audit |-> "audit"])
    \sqcup Of("google_analytics", [
        google_analytics_account_inventory |-> "list_account_summaries",
        google_analytics_report |-> "run_report",
        google_analytics_realtime_report |-> "run_realtime_report",
        google_analytics_conversion_funnel |-> "conversion_funnel"])
    \sqcup Of("pagespeed", [pagespeed_analyze |-> "analyze",
        pagespeed_core_web_vitals |-> "core_web_vitals"])

CrossProviderTools ==
    Of("cross_provider", [
        ga4_pagespeed_correlation |-> "ga4_pagespeed_correlation",
        ga4_search_console_comparison |-> "ga4_search_console_comparison",
        search_engine_comparison |-> "search_engine_comparison",
        search_engine_traffic_health |-> "search_engine_traffic_health"])

LocalTools ==
    Of("google_analytics_admin", [
        google_analytics_data_streams |-> "list_data_streams"])
    \sqcup Of("onboarding_guide", [onboarding_guide |-> "render"])
    \sqcup Of("capabilities", [server_info |-> "server_info"])
    \sqcup Of("sites", [accounts_list |-> "accounts_list",
        sites_list |-> "sites_list"])
    \sqcup Of("diagnostics", [diagnostics |-> "diagnostics"])
    \sqcup Of("provider_readiness", [provider_readiness |-> "readiness"])
    \sqcup Of("site_audit", [site_audit |-> "audit"])
    \sqcup Of("site_ownership", [site_ownership_check |-> "check"])

SearchTools ==
    Of("google_search_console", [
        google_search_analytics_query |-> "search_analytics",
        google_search_analytics_summary |-> "search_analytics_summary",
        google_search_analytics_comparison |-> "search_analytics_comparison",
        google_search_analytics_dimension_report |-> "search_analytics_dimension_report",
        google_search_analytics_drop_attribution |-> "search_analytics_drop_attribution",
        google_search_analytics_trend |-> "search_analytics_trend",
        google_search_analytics_anomalies |-> "search_analytics_anomalies",
        google_search_analytics_page_performance |-> "search_analytics_page_performance"])

SearchSiteTools ==
    Of("google_search_console", [google_sites_list |-> "list_sites",
        google_site_get |-> "get_site",
        google_sitemaps_list |-> "list_sitemaps",
        google_sitemap_get |-> "get_sitemap",
        google_url_inspection |-> "inspect_url",
        google_url_inspection_batch |-> "inspect_urls"])
    \sqcup Of("local_schema", [schema_validate_html |-> "validate_html",
        schema_validate_json_ld |-> "validate_json_ld",
        schema_validate_url |-> "validate_url"])

BingTrafficTools ==
    Of("bing_webmaster", [bing_keyword_statistics |-> "keyword_statistics",
        bing_related_keywords |-> "related_keywords",
        bing_traffic_trend |-> "traffic_trend",
        bing_traffic_anomalies |-> "traffic_anomalies",
        bing_traffic_comparison |-> "traffic_comparison",
        bing_query_opportunities |-> "query_opportunities",
        bing_page_opportunities |-> "page_opportunities",
        bing_opportunity_matrix |-> "opportunity_matrix"])

BingSiteTools ==
    Of("bing_webmaster", [
        bing_page_query_performance |-> "page_query_performance",
        bing_url_submission_quota |-> "url_submission_quota",
        bing_crawl_issues |-> "crawl_issues",
        bing_crawl_stats |-> "crawl_stats", bing_feeds |-> "feeds",
        bing_link_counts |-> "link_counts",
        bing_backlink_intelligence |-> "backlink_intelligence",
        bing_url_information |-> "url_information"])

InsightTools ==
    Of("internal_links", [internal_link_graph |-> "graph",
        orphan_page_report |-> "orphans",
        internal_link_opportunities |-> "opportunities"])
    \sqcup Of("crux", [crux_history |-> "history"])
    \sqcup Of("cloudflare_performance", [cloudflare_analytics |-> "analytics"])
    \sqcup Of("content_opportunities", [content_opportunities |-> "report"])
    \sqcup Of("clarity", [clarity_insights |-> "live_insights"])
    \sqcup Of("edge_redirects", [edge_redirects_list |-> "list"])
    \sqcup Of("google_tag_manager", [
        google_tag_manager_accounts_list |-> "list_accounts",
        google_tag_manager_containers_list |-> "list_containers",
        google_tag_manager_workspaces_list |-> "list_workspaces",
        google_tag_manager_entities_list |-> "list_entities"])

MonitorListTools ==
    Of("monitoring", [monitors_list |-> "list_monitors",
        monitor_snapshots_list |-> "list_snapshots",
        monitor_issues_list |-> "list_issues",
        issue_events_list |-> "list_issue_events"])

(* Dispatched only if the process may write.                               *)
RenameTools ==
    Of("google_analytics_admin", [
        google_analytics_account_rename |-> "rename_account",
        google_analytics_property_rename |-> "rename_property"])

BingWriteTools ==
    Of("bing_webmaster", [bing_url_submit |-> "submit_url_batch",
        bing_sitemap_submit |-> "submit_sitemap",
        bing_site_submit |-> "submit_site"])

GoogleWriteTools ==
    Of("indexnow", [indexnow_submit |-> "submit"])
    \sqcup Of("google_indexing", [google_indexing_submit |-> "submit",
        google_indexing_batch_submit |-> "submit_batch"])
    \sqcup Of("google_sites", [google_site_submit |-> "submit"])
    \sqcup Of("google_sitemaps", [google_sitemap_submit |-> "submit"])

SiteWriteTools ==
    Of("site_onboarding", [site_onboarding_submit |-> "submit"])
    \sqcup Of("site_ownership", [site_ownership_verify |-> "verify"])
    \sqcup Of("site_remediation", [site_remediation_apply |-> "apply"])

EdgeTools ==
    Of("bing_content", [bing_content_submission_create |-> "submit"])
    \sqcup Of("edge_redirects", [edge_redirect_upsert |-> "upsert",
        edge_redirect_delete |-> "delete"])
    \sqcup Of("google_tag_manager", [
        google_tag_manager_container_create |-> "create_container",
        google_tag_manager_container_delete |-> "delete_container",
        google_tag_manager_workspace_create |-> "create_workspace",
        google_tag_manager_workspace_delete |-> "delete_workspace",
        google_tag_manager_entity_create |-> "create_entity"])

TagManagerTools ==
    Of("google_tag_manager", [
        google_tag_manager_entity_update |-> "update_entity",
        google_tag_manager_entity_delete |-> "delete_entity",
        google_tag_manager_workspace_version_create |-> "create_version",
        google_tag_manager_version_publish |-> "publish_version"])

MonitorTools ==
    Of("monitoring", [monitor_create |-> "create_monitor",
        monitor_update |-> "update_monitor",
        monitor_delete |-> "delete_monitor", monitor_run |-> "run_monitor",
        issue_status_update |-> "set_issue_status"])
    \sqcup Of("cloudflare_performance", [cloudflare_cache_purge |-> "purge",
        cloudflare_cache_template_apply |-> "apply_cache_template"])

IndexingMetadataTool ==
    Of("google_indexing_metadata", [google_indexing_metadata |-> "metadata"])

\* mutant: the dispatcher forgets to ask whether the process may write.
SeoToolsUngated(writes) ==
    InsightTools \sqcup MonitorListTools
    \sqcup EdgeTools \sqcup TagManagerTools \sqcup MonitorTools

SeoTools(writes) ==
    InsightTools \sqcup MonitorListTools
    \sqcup (IF writes THEN EdgeTools \sqcup TagManagerTools \sqcup MonitorTools ELSE {})

McpTools ==
    [writes \in BOOLEAN |->
     Served(SeoTools(writes) \sqcup KindTools \sqcup BingReportTools
            \sqcup AnalyticsTools \sqcup CrossProviderTools \sqcup LocalTools
            \sqcup SearchTools \sqcup SearchSiteTools \sqcup BingTrafficTools
            \sqcup BingSiteTools \sqcup IndexingMetadataTool
            \sqcup (IF writes THEN RenameTools \sqcup BingWriteTools
                                   \sqcup GoogleWriteTools \sqcup SiteWriteTools
                    ELSE {}), writes)]

-----------------------------------------------------------------------------
(* What the server lists.                                                  *)
ListedSearchTools ==
    {"site_audit", "site_ownership_check", "bing_backlink_intelligence",
     "onboarding_guide", "google_analytics_data_streams",
     "schema_validate_url", "schema_validate_html", "schema_validate_json_ld",
     "server_info", "google_search_analytics_summary",
     "google_indexing_metadata", "google_search_analytics_comparison",
     "google_search_analytics_dimension_report",
     "google_search_analytics_drop_attribution",
     "google_search_analytics_trend", "google_search_analytics_anomalies",
     "google_search_analytics_page_performance", "google_sitemap_get",
     "accounts_list", "sites_list", "diagnostics"}

ListedReportTools ==
    {"provider_readiness", "google_search_analytics_query",
     "google_sites_list", "google_site_get", "google_sitemaps_list",
     "google_url_inspection", "google_url_inspection_batch",
     "google_analytics_account_inventory", "google_analytics_report",
     "google_analytics_realtime_report",
     "google_analytics_content_performance",
     "google_analytics_landing_page_performance",
     "google_analytics_organic_search_landing_pages",
     "google_analytics_traffic_source_performance",
     "google_analytics_ecommerce_performance",
     "google_analytics_audience_segments", "google_analytics_user_behavior",
     "google_analytics_conversion_funnel", "pagespeed_analyze",
     "pagespeed_core_web_vitals", "lighthouse_audit"}

ListedBingTools ==
    {"lighthouse_seo_findings", "lighthouse_accessibility_findings",
     "lighthouse_performance_findings", "lighthouse_best_practices_findings",
     "ga4_pagespeed_correlation", "ga4_search_console_comparison",
     "search_engine_comparison", "search_engine_traffic_health",
     "bing_keyword_statistics", "bing_related_keywords", "bing_traffic_trend",
     "bing_traffic_anomalies", "bing_traffic_comparison",
     "bing_query_performance", "bing_page_performance", "bing_brand_analysis",
     "bing_ranking_buckets", "bing_query_opportunities",
     "bing_page_opportunities", "bing_opportunity_matrix"}

ListedBingSiteTools ==
    {"bing_query_page_performance", "bing_query_cannibalization",
     "bing_page_query_performance", "bing_url_submission_quota",
     "bing_crawl_issues", "bing_crawl_stats", "bing_feeds",
     "bing_link_counts", "bing_url_information"}

ListedWriteTools ==
    {"indexnow_submit", "bing_url_submit", "bing_sitemap_submit",
     "bing_site_submit", "google_indexing_submit",
     "google_indexing_batch_submit", "google_site_submit",
     "google_sitemap_submit", "google_analytics_account_rename",
     "google_analytics_property_rename", "site_onboarding_submit",
     "site_ownership_verify", "site_remediation_apply"}

SeoReadTools ==
    {"clarity_insights", "edge_redirects_list",
     "google_tag_manager_accounts_list", "google_tag_manager_containers_list",
     "google_tag_manager_workspaces_list", "google_tag_manager_entities_list",
     "internal_link_graph", "orphan_page_report",
     "internal_link_opportunities", "crux_history", "cloudflare_analytics",
     "content_opportunities", "monitors_list", "monitor_snapshots_list",
     "monitor_issues_list", "issue_events_list"}

SeoWriteTools ==
    {"bing_content_submission_create", "edge_redirect_upsert",
     "edge_redirect_delete", "google_tag_manager_container_create",
     "google_tag_manager_container_delete",
     "google_tag_manager_workspace_create",
     "google_tag_manager_workspace_delete",
     "google_tag_manager_entity_create", "google_tag_manager_entity_update",
     "google_tag_manager_entity_delete",
     "google_tag_manager_workspace_version_create",
     "google_tag_manager_version_publish", "monitor_create", "monitor_update",
     "monitor_delete", "monitor_run", "issue_status_update",
     "cloudflare_cache_purge", "cloudflare_cache_template_apply"}

DestructiveTools ==
    {"monitor_delete", "cloudflare_cache_purge",
     "cloudflare_cache_template_apply", "edge_redirect_delete",
     "google_tag_manager_container_delete",
     "google_tag_manager_workspace_delete",
     "google_tag_manager_entity_delete"}

\* mutant: the creation of an entity passes for idempotent.
IdempotentCreateTools ==
    {"monitor_update", "issue_status_update", "google_tag_manager_entity_create"}

IdempotentWriteTools ==
    {"monitor_update", "issue_status_update",
     "cloudflare_cache_template_apply", "edge_redirect_upsert",
     "google_tag_manager_entity_update"}

ReadTools == ListedSearchTools \cup ListedReportTools \cup ListedBingTools
             \cup ListedBingSiteTools \cup SeoReadTools

ListedTools ==
    [writes \in BOOLEAN |->
        ReadTools \cup (IF writes THEN ListedWriteTools \cup SeoWriteTools ELSE {})]

(* The hints of a listed tool.  The established write tools share one      *)
(* annotation: destructive, never idempotent.                              *)
ReadOnlyHint(tool) == tool \in ReadTools
DestructiveHint(tool) == tool \in ListedWriteTools \cup DestructiveTools
IdempotentHint(tool) == tool \in ReadTools \cup IdempotentWriteTools
=============================================================================
