\* Two uploads, one malicious, race for one policy that is being archived.
SPECIFICATION Spec
CONSTANTS
    d1 = d1  d2 = d2  p1 = p1  s1 = s1
    Docs = {d1, d2}
    Policies = {p1}
    Submissions = {}
    OwnerOf <- PolicyOwner
    Malicious = {d2}
    Corruptible = {}
    Workers = {w1}
    Copies = {1}
    MaxDeliveryAttempts = 2
INVARIANTS  ArchivedPolicyIsQuiet EligibilityIsFresh
CHECK_DEADLOCK FALSE
