\* A database error of an evidence upload whose commit took effect.
SPECIFICATION Spec
CONSTANTS
    a1 = a1  a2 = a2  a3 = a3  a4 = a4  g1 = g1  g2 = g2  p1 = p1  s1 = s1
    Grants = {g1}
    Policies = {}
    Submissions = {s1}
    TargetOf <- OneSubmission
    Attempts = {a1}
    GrantOf <- OneAttempt
    Faulty = {}
    Ttl = 1
    MaxTime = 1
    LateCommits = FALSE
    NoAttempt = NoAttempt
INVARIANT AcceptedKeepsObject
CHECK_DEADLOCK FALSE
