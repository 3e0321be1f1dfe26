SPECIFICATION Spec
CONSTANTS
    p1 = p1 p2 = p2 p3 = p3 e1 = e1 e2 = e2 e3 = e3 c1 = c1 c2 = c2 c3 = c3
    s1 = s1 s2 = s2 d1 = d1 d2 = d2 d3 = d3
    l1 = l1 g1 = g1 t1 = t1 t2 = t2 v1 = v1 v2 = v2
    Controls = {c1, c2, c3}
    Evidence = {e1, e2, e3}
    Policies = {p1, p2, p3}
    Names = {"a", "b", "c"}
    Rank <- RankDef
    Documents = {d1, d2, d3}
    Windows = {"in", "out"}
    Slots = {s1, s2}
    MaxBatchItems = 2
    Granted = {"write_controls", "write_evidence", "write_evidence_submissions", "manage_auditor_access"}
    InitialControls <- Controls0
    InitialEvidence <- Evidence0
    InitialPolicies <- Policies0
    InitialDocuments <- Documents0
    Budgets <- Mixes
    MaxTime = 1
    None = None
    Links = {l1}
    GrantTtl = 1
    DownloadTtl = 1
    Grants = {g1}
    Logins = {t1, t2}
    Sessions = {v1, v2}
    Covered = {"in"}
    GrantLifetimes = {0, 1}
    TransactionTtl = 1
    AuditorSessionTtl = 2
INVARIANTS TypeOK WaitCyclesAreSwaps UsedOnce ArchivedPolicyHasNoUpload
PROPERTIES ChangesAddUp SessionsStayInBounds NothingAfterRevocation 
SYMMETRY Interchangeable
CHECK_DEADLOCK FALSE
