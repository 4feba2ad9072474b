------------------------------ MODULE ToolTable ------------------------------
(***************************************************************************)
(* The tools of main.py as the gates they pass and the requests they make, *)
(* and the permission sets of auth/appd_auth.py.                           *)
(*                                                                         *)
(* gate: the name handed to require_permission, or "none".  app: whether   *)
(* _require_app_access is asked.  module: the licence required.  work: the *)
(* requests a call can make once it is past the gates; a call that is      *)
(* answered from a cache, or finds nothing to go on with, makes fewer.     *)
(* "get" fails the call when it fails, "try" is caught, "archive" changes  *)
(* the controller.  audit: in a finally, after success only, or never.     *)
(***************************************************************************)
EXTENDS Integers, Sequences

Tool(gate, app, module, work, audit) ==
    [gate |-> gate, app |-> app, module |-> module, work |-> work, audit |-> audit]

Request == {"get", "try", "archive"}

(* One request; one request unless the cache has the answer.               *)
One == {<<"get">>}
Cached == {<<>>, <<"get">>}

(* The common shapes: per application, per application with a licence, and *)
(* the EUM tools, which name an application but are not scoped to one.     *)
PerApp(gate, work) == Tool(gate, TRUE, "none", work, "always")
Licensed(gate, module, work) == Tool(gate, TRUE, module, work, "always")
Eum(gate) == Tool(gate, FALSE, "eum", One, "always")

(* A. Discovery, B. Business transactions                                  *)
list_controllers == Tool("none", FALSE, "none", {<<>>}, "always")
list_applications ==
    Tool("list_applications", FALSE, "none", {<<>>, <<"try">>, <<"get">>, <<"try", "get">>}, "always")
search_metric_tree == PerApp("search_metric_tree", Cached)
get_metrics == PerApp("get_metrics", Cached)
get_business_transactions == PerApp("get_business_transactions", Cached)
get_bt_baseline == PerApp("get_bt_baseline", {<<>>, <<"get">>, <<"get", "get">>})
get_bt_detection_rules ==
    PerApp("get_bt_detection_rules", {<<"get", "get">>, <<"get", "get", "try", "try">>})
load_api_spec == Tool("load_api_spec", FALSE, "none", {<<>>, <<"try">>}, "always")

(* C. Snapshots                                                            *)
list_snapshots == Licensed("list_snapshots", "snapshots", One)
analyze_snapshot == Licensed("analyze_snapshot", "snapshots", One)
compare_snapshots ==
    Licensed("compare_snapshots", "snapshots", {<<"get", "get">>, <<"get", "get", "get">>})
archive_snapshot == Tool("archive_snapshot", TRUE, "snapshots", {<<"archive">>}, "success")
set_golden_snapshot == PerApp("set_golden_snapshot", One)
get_exit_calls == Licensed("get_exit_calls", "snapshots", One)
stitch_async_trace ==
    Tool("stitch_async_trace", FALSE, "snapshots", {<<>>, <<"try">>, <<"try", "try">>}, "always")

(* D. Health, infrastructure, E. Errors, data bases, network, analytics    *)
get_health_violations == PerApp("get_health_violations", Cached)
get_policies == PerApp("get_policies", One)
get_infrastructure_stats == PerApp("get_infrastructure_stats", Cached)
get_jvm_details == PerApp("get_jvm_details", One)
get_tiers_and_nodes == PerApp("get_tiers_and_nodes", {<<>>, <<"get">>, <<"get", "get">>})
get_agent_status == PerApp("get_agent_status", One)
get_errors_and_exceptions == PerApp("get_errors_and_exceptions", One)
get_database_performance == Licensed("get_database_performance", "database_visibility", One)
get_network_kpis == PerApp("get_network_kpis", One)
query_analytics_logs == Tool("query_analytics_logs", FALSE, "analytics", One, "always")

(* F. EUM                                                                  *)
get_eum_overview == Eum("get_eum_overview")
get_eum_page_performance == Eum("get_eum_page_performance")
get_eum_js_errors == Eum("get_eum_js_errors")
get_eum_ajax_requests == Eum("get_eum_ajax_requests")
get_eum_geo_performance == Eum("get_eum_geo_performance")
correlate_eum_to_bt == Licensed("correlate_eum_to_bt", "eum", One)

(* Access, health, runbooks, teams.  Two tools borrow the gate of another. *)
refresh_user_access == Tool("set_golden_snapshot", FALSE, "none", {<<>>}, "never")
get_server_health == Tool("none", FALSE, "none", {<<"try">>}, "never")
save_runbook == Tool("none", FALSE, "none", {<<>>}, "never")
get_team_health_summary ==
    Tool("get_health_violations", FALSE, "none",
         {<<>>, <<"get">>, <<"try", "try">>, <<"get", "try", "try">>}, "always")

-----------------------------------------------------------------------------
ViewTools ==
    {"list_controllers", "list_applications", "search_metric_tree", "get_metrics",
     "get_business_transactions", "get_bt_baseline", "load_api_spec", "get_health_violations",
     "get_eum_overview", "get_eum_page_performance", "get_eum_js_errors", "get_eum_ajax_requests",
     "get_eum_geo_performance", "get_infrastructure_stats", "get_jvm_details", "get_network_kpis",
     "get_server_health", "get_tiers_and_nodes", "get_agent_status", "get_bt_detection_rules",
     "get_team_health_summary"}
TroubleshootTools ==
    ViewTools \cup
    {"list_snapshots", "analyze_snapshot", "compare_snapshots", "get_errors_and_exceptions",
     "get_database_performance", "stitch_async_trace", "correlate_eum_to_bt",
     "query_analytics_logs", "get_exit_calls", "save_runbook"}
ConfigureAlertingTools ==
    TroubleshootTools \cup
    {"get_policies", "archive_snapshot", "set_golden_snapshot", "refresh_user_access"}

Role == {"VIEW", "TROUBLESHOOT", "CONFIGURE_ALERTING", "DENIED"}
RoleTools ==
    [r \in Role |-> CASE r = "VIEW" -> ViewTools
                      [] r = "TROUBLESHOOT" -> TroubleshootTools
                      [] r = "CONFIGURE_ALERTING" -> ConfigureAlertingTools
                      [] r = "DENIED" -> {}]

(* require_permission does not raise.                                      *)
Permits(r, gate) == gate = "none" \/ gate \in RoleTools[r]

(* A tool without a gate needs no licence, and only archive_snapshot is    *)
(* audited after success only; every gate is open to some role.            *)
WellShaped(t) ==
    /\ t.work \subseteq Seq(Request)
    /\ t.gate = "none" => t.module = "none"
    /\ t.audit \in {"always", "success", "never"}
    /\ t.audit = "success" => t.work = {<<"archive">>}
AllTools ==
    {list_controllers, list_applications, search_metric_tree, get_metrics,
     get_business_transactions, get_bt_baseline, get_bt_detection_rules,
     load_api_spec, list_snapshots, analyze_snapshot, compare_snapshots,
     archive_snapshot, set_golden_snapshot, get_exit_calls,
     stitch_async_trace, get_health_violations, get_policies,
     get_infrastructure_stats, get_jvm_details, get_tiers_and_nodes,
     get_agent_status, get_errors_and_exceptions,
     get_database_performance, get_network_kpis, query_analytics_logs,
     get_eum_overview, get_eum_page_performance, get_eum_js_errors,
     get_eum_ajax_requests, get_eum_geo_performance, correlate_eum_to_bt,
     refresh_user_access, get_server_health, save_runbook,
     get_team_health_summary}
ASSUME TableAssumption ==
    \A t \in AllTools : WellShaped(t) /\ t.gate \in ConfigureAlertingTools \cup {"none"}

(* What a role's name at the controller contains: a word of administration, *)
(* one of operations, or neither.                                          *)
RoleName == {"alerting", "sre", "other"}
MapRole(names) ==
    CASE names = {} -> "DENIED"
      [] "alerting" \in names -> "CONFIGURE_ALERTING"
      [] "alerting" \notin names /\ "sre" \in names -> "TROUBLESHOOT"
      [] names = {"other"} -> "VIEW"
=============================================================================
