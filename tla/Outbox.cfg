\* Two overlapping dequeuers, one place in a batch, and a row that never gets out.
SPECIFICATION FairSpec
CONSTANTS
    d1 = d1  d2 = d2
    Rows = {1, 2}
    Failing = {1}
    Dequeuers = {d1, d2}
    BatchSize = 1
    MaxAttempts = 2
    InitialDelay = 1
    MaxDelay = 2
    Period = 2
    MaxExits = 1
    MaxLag = 14
INVARIANTS DeletedWasPublished  WaitIsBounded
PROPERTY MessagesGetOut
