\* Two uploads race for one submission; each request may be published twice.
SPECIFICATION Spec
CONSTANTS
    d1 = d1  d2 = d2  p1 = p1  s1 = s1
    Docs = {d1, d2}
    Policies = {}
    Submissions = {s1}
    OwnerOf <- SubmissionOwner
    Malicious = {}
    Corruptible = {}
    Workers = {w1, w2}
    Copies = {1, 2}
    MaxDeliveryAttempts = 1
SYMMETRY WorkerSymmetry
INVARIANTS UploadedIsStored OneDocumentPerSubmission
CHECK_DEADLOCK FALSE
