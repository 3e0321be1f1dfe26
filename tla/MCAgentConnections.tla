------------------------- MODULE MCAgentConnections -------------------------
(* Instances of AgentConnections for TLC.                                   *)
EXTENDS AgentConnections, TLC

CONSTANTS u1, w1, w2, f1, f2, k1, k2, s1, s2, c1

\* Two flows of one client that ask for the same scopes.
OneClient == f1 :> c1 @@ f2 :> c1
SameScopes == f1 :> "write" @@ f2 :> "write"
AtHome == u1 :> w1

Interchangeable == Permutations({f1, f2}) \cup Permutations({k1, k2}) \cup Permutations({s1, s2})
=============================================================================
