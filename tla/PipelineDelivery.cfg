\* One document whose quarantined object may be overwritten, two concurrent
\* handlers, three deliveries of each message.
SPECIFICATION FairSpec
CONSTANTS
    d1 = d1  d2 = d2  p1 = p1  s1 = s1
    Docs = {d1}
    Policies = {}
    Submissions = {s1}
    OwnerOf <- SingleSubmission
    Malicious = {}
    Corruptible = {d1}
    Workers = {w1, w2}
    Copies = {1}
    MaxDeliveryAttempts = 3
INVARIANTS WorkIsNeverLost SourceIsKept EvidenceWasScanned
PROPERTIES ImplementsLifecycle DocumentsSettle
CHECK_DEADLOCK FALSE
