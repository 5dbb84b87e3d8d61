----------------------------- MODULE MCConnector -----------------------------
(* The instance of Connector that TLC checks: one client key, one board,   *)
(* three admissions in all, and two configurations.                      *)
EXTENDS Connector, TLC

MCBoards == {"b1"}
MCStartsWith == [b \in MCBoards |-> {b}]

\* A list with the action, and one that names it although destructive tools
\* are not allowed; each leaves out one of the cached reads.
MCPolicies ==
    {BuildPolicy(<<"vento_list_boards", "", "vento_run_action">>, TRUE),
     BuildPolicy(<<"vento_get_board", "vento_run_action">>, FALSE)}

MCToolNames ==
    {"vento_get_board", "vento_list_boards", "vento_run_action"}
=============================================================================
