--------------------------- MODULE MCOAuthSessions ---------------------------
(* The instances of OAuthSessions that TLC checks.                         *)
EXTENDS OAuthSessions, TLC

Symmetry ==
    Permutations(Logins) \cup Permutations(Sessions) \cup Permutations(Callers)
=============================================================================
