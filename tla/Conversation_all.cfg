SPECIFICATION MCSpec
CONSTANTS
    r = r
    s = s
    g = g
    Users = {r, s}
    Guests = {g}
    Staff = {s}
    None = None
    Conversations = {c1, c2}
    Keys = {k1, k2}
    Bodies = {body}
    body = body
    hello = hello
    more = more
    done = done
    pick = pick
    Nodes = {hello, more, done}
    Choices = {pick}
    Restart = Restart
    Bots <- MCBots
    VerifyBot <- Alone
    FirstBot <- Long
    CreateLimit = 2
    SendLimit = 3
    ThreadLimit = 2
    BlockLimit = 100
    Minute = 0
    MaxTime = 1
    MaxMessages = 5
    Payloads <- MCPayloads
SYMMETRY Symmetry
CHECK_DEADLOCK FALSE
INVARIANTS HistoryAddsUp OneOfEach UnreadIsHonest BotAnswers WithinLimits
PROPERTIES HistoryKept
