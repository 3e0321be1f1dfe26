\* A policy grant and an evidence grant around their expiry.
SPECIFICATION Spec
CONSTANTS
    a1 = a1  a2 = a2  a3 = a3  a4 = a4  g1 = g1  g2 = g2  p1 = p1  s1 = s1
    Grants = {g1, g2}
    Policies = {p1}
    Submissions = {s1}
    TargetOf <- BothGrants
    Attempts = {a1, a2, a3, a4}
    GrantOf <- FourAttempts
    Faulty = {a3, a4}
    Ttl = 1
    MaxTime = 1
    LateCommits = FALSE
    NoAttempt = NoAttempt
INVARIANTS TypeOK 
CHECK_DEADLOCK FALSE
