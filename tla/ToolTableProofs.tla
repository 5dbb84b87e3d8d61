--------------------------- MODULE ToolTableProofs ---------------------------
(***************************************************************************)
(* What the permission policy promises for every value of ALLOWED_TOOLS    *)
(* and ALLOW_DESTRUCTIVE_TOOLS, not only for the two that TLC follows      *)
(* through Connector.                                                      *)
(***************************************************************************)
EXTENDS ToolTable, TLAPS

Csv == Seq(STRING)

Names(csv) == {csv[i] : i \in DOMAIN csv}

\* An unset list names every tool.
Grants(csv) == IF Unset(csv) THEN Tools ELSE Names(csv)

\* The table knows the tools by names that are not empty.
LEMMA ToolsHaveNames == "" \notin Tools
BY DEF Tools, Info

\* Only one tool is of level danger.
LEMMA OneDanger ==
    \A tool \in Tools : DangerLevel(tool) = "danger" <=> tool = "vento_run_action"
BY DEF Tools, Info, DangerLevel

\* What a configuration lists: the tools its list grants, without
\* vento_run_action unless the flag allows it.  A name that is no tool, or an
\* empty one between two commas, grants nothing.
LEMMA WhatIsListed ==
    ASSUME NEW csv \in Csv, NEW flag \in BOOLEAN
    PROVE  ListAllowedTools(BuildPolicy(csv, flag))
             = {tool \in Tools \cap Grants(csv) : tool = "vento_run_action" => flag}
<1> DEFINE policy == BuildPolicy(csv, flag)
<1>1. policy.restricted = ~ Unset(csv) /\ policy.allowedTools = Names(csv) \ {""}
      /\ policy.allowDestructive = flag
  BY DEF BuildPolicy, Names
<1> HIDE DEF policy
<1>2. ASSUME NEW tool \in Tools
      PROVE  IsToolAllowed(policy, tool)
               <=> tool \in Grants(csv) /\ (tool = "vento_run_action" => flag)
  <2>1. (policy.restricted => tool \in policy.allowedTools) <=> tool \in Grants(csv)
    BY <1>1, ToolsHaveNames DEF Grants
  <2>2. QED
    BY <2>1, <1>1, OneDanger DEF IsToolAllowed
<1>3. ListAllowedTools(policy)
        = {tool \in Tools \cap Grants(csv) : tool = "vento_run_action" => flag}
  BY <1>2 DEF ListAllowedTools
<1>4. QED
  BY <1>3 DEF policy

\* Tightening the configuration never lets a client call more: fewer names, or
\* the flag taken away.  A list that is emptied altogether is not tighter: the
\* code takes a blank ALLOWED_TOOLS for an unset one, which grants every tool.
THEOREM TighterAllowsNoMore ==
    \A wide, narrow \in Csv, was, is \in BOOLEAN :
        Grants(narrow) \subseteq Grants(wide) /\ (is => was)
          => ListAllowedTools(BuildPolicy(narrow, is)) \subseteq ListAllowedTools(BuildPolicy(wide, was))
BY WhatIsListed

\* Without ALLOW_DESTRUCTIVE_TOOLS no list, whatever it names, lets an action
\* run.
THEOREM NamingIsNotEnough ==
    \A csv \in Csv : "vento_run_action" \notin ListAllowedTools(BuildPolicy(csv, FALSE))
BY WhatIsListed

\* A list of commas alone allows nothing, though a blank one allows all: the
\* code tells them apart before it drops the empty names.
THEOREM CommasAllowNothing ==
    \A csv \in Csv, flag \in BOOLEAN :
        Len(csv) \notin {0, 1} /\ Names(csv) = {""} => ListAllowedTools(BuildPolicy(csv, flag)) = {}
<1> SUFFICES ASSUME NEW csv \in Csv, NEW flag \in BOOLEAN, Len(csv) \notin {0, 1}, Names(csv) = {""}
             PROVE  ListAllowedTools(BuildPolicy(csv, flag)) = {}
  OBVIOUS
<1>1. ~ Unset(csv)
  <2>1. Len(<<>>) = 0 /\ Len(<<"">>) = 1
    OBVIOUS
  <2>2. QED
    BY <2>1, Zenon DEF Unset
<1>2. Grants(csv) = {""}
  BY <1>1 DEF Grants
<1>3. Tools \cap Grants(csv) = {}
  BY <1>2, ToolsHaveNames
<1>4. ListAllowedTools(BuildPolicy(csv, flag))
        = {tool \in Tools \cap Grants(csv) : tool = "vento_run_action" => flag}
  BY WhatIsListed
<1>5. QED
  BY <1>3, <1>4

=============================================================================
