\* One report: three voters of very different levels and punctual cron jobs; or
\* two users, one of whom earns experience, and an arcade that changes.
CONSTANTS
    official = official
    expert = expert
    novice = novice
    owner = owner
    Users = {official, expert, novice, owner}
    Named = {owner}
    Flags = {f1}
    Owner = owner
    Staff = {}
    Officials = {official}
    InitialExp <- MCInitialExp
    Delay <- MCDelay
    StaleAge = 2
    StaleWindow = 3
    DeleteWindow = 1
    Cooldown = 2
    Lag = 1
    MaxTime = 11
    LastRequest = 2
    MaxReactions = 3
    Latency = 1
    Changes = {"publish", "unpublish", "redirect"}
SPECIFICATION MCFairSpec
INVARIANTS OneVoteEach ResolutionIsSupported DeadlineMeetsScore LedgerAddsUp
PROPERTIES OutcomeSpec EventuallyResolved ReversalIsExact
CHECK_DEADLOCK FALSE
