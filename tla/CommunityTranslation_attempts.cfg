\* A post whose edit commits while a run holds a claim on the old text.
CONSTANTS
    p1 = p1
    Posts = {p1}
    Comments = {}
    PostOf <- MCPostOf
    Runs = {w1, w2}
    Blank = blank
    Sources = {blank, s1, s2}
    NoText = NoText
    NoJob = NoJob
    MaxAttempts = 2
    EditWindow = 1
    Lease = 2
    RetryDelay <- MCRetryDelay
    BatchSize = 2
    MaxTime = 4
    LastCreate = 0
    MaxEdits = 1
    MaxCrashes = 0
    Latency = 4
SYMMETRY RunSymmetry
SPECIFICATION Spec
INVARIANT
    CallsBounded
CHECK_DEADLOCK FALSE
