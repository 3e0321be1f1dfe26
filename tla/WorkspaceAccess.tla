--------------------------- MODULE WorkspaceAccess ---------------------------
(***************************************************************************)
(* One workspace with everyone who reaches it at once: agents that change    *)
(* the catalogue, people with upload links, and outside auditors.            *)
(***************************************************************************)
EXTENDS AuditorAccess

vars == <<catalogueVars, sessionVars, auditorVars>>

Init == CatalogueInit /\ SessionInit /\ AuditorInit

Next == \/ CatalogueStep /\ UNCHANGED <<sessionVars, auditorVars>>
        \/ SessionStep /\ UNCHANGED auditorVars
        \/ AuditorStep /\ UNCHANGED sessionVars
        \/ Tick /\ UNCHANGED <<sessionVars, auditorVars>>

Spec == Init /\ [][Next]_vars

-----------------------------------------------------------------------------
(* Properties of the parts, taken together.                                 *)

\* Every row has its type and satisfies what loading it demands, and names in
\* use are unique.
TypeOK == CatalogueTypeOK /\ SessionsTypeOK /\ AuditorTypeOK

\* What may be used once is used once, however concurrently it is tried: an
\* upload link is exchanged for one session, a login at the identity provider
\* for one session of an auditor.
UsedOnce == LinkOpensOnce /\ OneSessionPerLogin

=============================================================================
