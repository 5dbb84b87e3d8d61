------------------------------ MODULE ToolTable ------------------------------
(***************************************************************************)
(* What the configuration lets a client call: the table of tools           *)
(* (src/tools/registry.ts), the policy built from ALLOWED_TOOLS and        *)
(* ALLOW_DESTRUCTIVE_TOOLS (src/permissions.ts) and the instances by name  *)
(* (src/vento/registry.ts).  All of it is fixed when the process starts.   *)
(***************************************************************************)
EXTENDS Sequences

Info == {"vento_list_boards", "vento_get_board", "vento_get_card_value", "vento_list_devices"}

Tools == Info \cup {"vento_run_action", "vento_send_to_agent"}

DangerLevel(tool) ==
    CASE tool \in Info                -> "info"
      [] tool = "vento_send_to_agent" -> "warning"
      [] tool = "vento_run_action"    -> "danger"

\* The names between the commas of ALLOWED_TOOLS, trimmed; an unset variable
\* has none, a blank one has the empty name alone.
Unset(csv) == csv \in {<<>>, <<"">>}

\* Where the code's allowedTools is null, `restricted` is FALSE here.
BuildPolicy(csv, allowDestructive) ==
    [restricted |-> ~ Unset(csv),
     allowedTools |-> {csv[i] : i \in DOMAIN csv} \ {""},
     allowDestructive |-> allowDestructive]

\* As if a tool that is named in the list needed no other leave.
MutIsToolAllowed(policy, tool) ==
    IF policy.restricted
    THEN tool \in policy.allowedTools
    ELSE DangerLevel(tool) = "danger" => policy.allowDestructive
IsToolAllowed(policy, tool) ==
    /\ policy.restricted => tool \in policy.allowedTools
    /\ DangerLevel(tool) = "danger" => policy.allowDestructive

ListAllowedTools(policy) == {tool \in Tools : IsToolAllowed(policy, tool)}

Default == "default"

\* The names getClient knows, given the names in VENTO_INSTANCES.
InstanceNames(extra) == {Default} \cup extra

\* What executeTool makes of a call before it calls a handler; a tool whose
\* handler uses a cached read may then be answered from the cache.
Fate(policy, extra, tool, instance) ==
    CASE tool \notin Tools -> "unknown"
      [] tool \in Tools /\ ~ IsToolAllowed(policy, tool) -> "denied"
      [] OTHER ->
            IF instance \notin InstanceNames(extra) THEN "elsewhere"
            ELSE IF tool \in {"vento_list_boards", "vento_get_board"} THEN "read"
            ELSE "action"

=============================================================================
