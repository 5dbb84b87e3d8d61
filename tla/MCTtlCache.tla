----------------------------- MODULE MCTtlCache -----------------------------
(* An instance of TtlCache for TLC: four keys, two of which share a        *)
(* prefix, and room for three.                                             *)
EXTENDS TtlCache, TLC

CONSTANTS list, b1, b12, b2

MCKeys == {list, b1, b12, b2}
MCPrefixes == {{b1, b12}, {}}
=============================================================================
