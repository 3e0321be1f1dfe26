\* Two racing attempts of one policy grant, a third of another, commits may be late.
SPECIFICATION FairSpec
CONSTANTS
    a1 = a1  a2 = a2  a3 = a3  a4 = a4  g1 = g1  g2 = g2  p1 = p1  s1 = s1
    Grants = {g1, g2}
    Policies = {p1}
    Submissions = {}
    TargetOf <- TwoGrants
    Attempts = {a1, a2, a3}
    GrantOf <- ThreeAttempts
    Faulty = {}
    Ttl = 1
    MaxTime = 0
    LateCommits = TRUE
    NoAttempt = NoAttempt
INVARIANTS AtMostOneCompletes AnswersAgree
PROPERTY AttemptsEnd
CHECK_DEADLOCK FALSE
