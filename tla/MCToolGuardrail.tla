-------------------------- MODULE MCToolGuardrail --------------------------
(* Instances of ToolGuardrail for TLC.                                    *)
EXTENDS ToolGuardrail

CONSTANTS x1, x2, panel_site_list, mcp_tool, execute_command, a1, a2

TwoThreads == {x1, x2}
ThreeTools == {panel_site_list, mcp_tool, execute_command}
TwoArgs    == {a1, a2}
External   == {mcp_tool}
ReadOnly   == {panel_site_list}
Redirects  == {<<execute_command, a1>>, <<execute_command, a2>>}
Refused    == {<<execute_command, a2>>}
OneThread  == {x1}
OneTool    == {panel_site_list}
NoTools    == {}
=============================================================================
