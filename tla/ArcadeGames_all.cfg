CONSTANTS
    ann = ann
    bob = bob
    cat = cat
    dan = dan
    v1 = v1
    v2 = v2
    w1 = w1
    cab = cab
    none = none
    Users = {ann, bob, cat, dan}
    Named = {cat, dan}
    Week = 2
    GameCap = 4
    Creator = cat
    Moderators = {ann, bob}
    Wanted <- MCWanted
    Details = {1}
    SeriesOf <- MCSeriesOf
    Cabinets = {cab}
    NoCabinet = none
    Supports <- MCSupports
    MaxBatches = 3
    MaxMoves = 4
    MaxItems = 2
    MaxTime = 3
    Uses = {"delta", "bulk", "rollback", "status"}
SYMMETRY MCSymmetry
SPECIFICATION MCSpec
INVARIANTS StatesAreSound NothingLost IdentityKept WindowCapped
PROPERTIES HistorySpec
CHECK_DEADLOCK FALSE
