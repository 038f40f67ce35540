----------------------------- MODULE ToolRegistry -----------------------------
(***************************************************************************)
(* The tools of the server and the read-only gate in front of them         *)
(* (internal/server/readonly.go, internal/tools/tools.go).                 *)
(***************************************************************************)

WriteTools == {"acknowledge_alert_group", "resolve_alert_group",
               "silence_alert_group", "unresolve_alert_group"}

ReadTools == {"list_oncall_schedules", "get_oncall_shift",
              "get_current_oncall_users", "list_oncall_users",
              "list_oncall_teams", "list_alert_groups", "get_alert_group"}

(* AddOnCallTools offers all of them to RegisterTool.                      *)
OnCallTools == ReadTools \cup WriteTools

(* The names the gate knows, kept apart from the registrations.            *)
MutantWriteToolNames == WriteTools \ {"unresolve_alert_group"}
writeToolNames == {"acknowledge_alert_group", "resolve_alert_group",
                   "silence_alert_group", "unresolve_alert_group"}

IsWriteTool(tool) == tool \in writeToolNames

ShouldRegisterTool(enabled, tool) == enabled => ~IsWriteTool(tool)

==============================================================================
