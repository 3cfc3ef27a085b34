\* A post with one late edit and its comment, two overlapping cron runs, one restart.
CONSTANTS
    p1 = p1
    Posts = {p1}
    Comments = {c1}
    PostOf <- MCPostOf
    Runs = {w1, w2}
    Blank = blank
    Sources = {blank, s1, s2}
    NoText = NoText
    NoJob = NoJob
    MaxAttempts = 2
    EditWindow = 1
    Lease = 2
    RetryDelay <- MCRetryDelay
    BatchSize = 2
    MaxTime = 3
    LastCreate = 0
    MaxEdits = 1
    MaxCrashes = 1
    Latency = 3
SYMMETRY RunSymmetry
SPECIFICATION Spec
INVARIANTS RowsAgree CachedIsCurrent CommentCallsBounded
PROPERTIES PublishedSpec LateAnswersChangeNothing
CHECK_DEADLOCK FALSE
