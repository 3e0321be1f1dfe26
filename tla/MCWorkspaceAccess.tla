-------------------------- MODULE MCWorkspaceAccess --------------------------
(* An instance of WorkspaceAccess for TLC: a small catalogue, one policy and  *)
(* one evidence document made earlier, and two requests at once.             *)
EXTENDS WorkspaceAccess, TLC

CONSTANTS p1, p2, p3, e1, e2, e3, c1, c2, c3, s1, s2, d1, d2, d3,
          l1, g1, t1, t2, v1, v2

RankDef == p1 :> 1 @@ p2 :> 2 @@ p3 :> 3 @@ e1 :> 4 @@ e2 :> 5 @@ e3 :> 6
           @@ c1 :> 7 @@ c2 :> 8 @@ c3 :> 9

Controls0 == c1 :> [code |-> "a"] @@ c2 :> [code |-> "b"] @@ c3 :> None
Evidence0 == e1 :> [mapped |-> {c1}] @@ e2 :> [mapped |-> {}] @@ e3 :> None
Policies0 == p1 :> [name |-> "a", mapped |-> {c1}, archived |-> FALSE]
             @@ p2 :> [name |-> "b", mapped |-> {}, archived |-> FALSE] @@ p3 :> None
Documents0 == d1 :> [owner |-> e1, window |-> "out", status |-> "uploaded", archived |-> FALSE]
              @@ d2 :> [owner |-> p2, window |-> None, status |-> "uploaded", archived |-> FALSE]
              @@ d3 :> None

\* What a behaviour may hold: changes against changes or against uploads, and
\* uploads or an auditor alone.
Mixes == {[edits |-> 2, uploads |-> 0, audits |-> 0], [edits |-> 1, uploads |-> 3, audits |-> 0],
          [edits |-> 0, uploads |-> 4, audits |-> 0], [edits |-> 0, uploads |-> 0, audits |-> 5]}

Interchangeable == Permutations({s1, s2})
=============================================================================
