SPECIFICATION MCSpec
CONSTANTS
 s = s
 i1 = i1
 i2 = i2
 e1 = e1
 e2 = e2
 n1 = n1
 n2 = n2
 ann = ann
 c1 = c1
 c2 = c2
 r1 = r1
 r2 = r2
 Ids = {s, i1, i2}
 Emails = {e1, e2}
 Names = {n1, n2}
 Staff = {s}
 NoName = NoName
 NoEmail = NoEmail
 Forever = 9
 Cooldown = 1
 Calls = {c1, c2}
 EndTime = 3
 Users = {ann}
 Named = {ann}
 Visitors = {ann}
 Arcades = {1, 2, 3}
 HomeCountry <- MCHome
 Shift <- MCShift
 Where <- MCWhere
 Nowhere = Nowhere
 NoLand = NoLand
 Arrivals = {r1, r2}
 YearDays = 1
 MaxVisits = 3
 EndOfTime = 3
 People = {1, 2, 3}
 Moderators = {1}
 Managers = {2}
 Threshold = 1
 Grants <- MCGrants
 MaxRows = 3
 MaxRequests = 3
 Asks = {c1, c2}
 NoAsk = NoAsk
 Notices = {1, 2, 3}
 Priorities = {1, 2}
 Nobody = 0
 Creator = 3
 PinnedLimit = 2
 Editors = {c1, c2}
 Viewers = {0}
 Idle = Idle
 Never = 8
 Dates = {2, 3}
 LastTick = 2
SYMMETRY MCSymmetry
CHECK_DEADLOCK FALSE
INVARIANTS AccountsAreSound VisitsAddUp
PROPERTIES BoardsHold OnlyTheirsChanges
