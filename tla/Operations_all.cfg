SPECIFICATION MCSpec
CONSTANTS
  u1 = u1  u2 = u2
  g1 = g1  g2 = g2  g3 = g3
  early = early  both = both  late = late
  Users = {u1, u2}
  Named = {u1, u2}
  Games = {g1, g2, g3}
  ArcadeOf <- MCArcadeOf
  Country <- MCCountry
  Supports <- MCSupports
  NoCabinet = ""
  FirstRows <- MCFirstRows
  Bodies <- MCBodies
  Window = 2
  MaxReports = 4
  MaxMoves = 3
  EndOfTime = 4
  m1 = m1  m2 = m2  s1 = s1  v1 = v1  v2 = v2  c1 = c1  c2 = c2
  o1 = o1  o2 = o2  o3 = o3  q1 = q1  q2 = q2
  Makers = {m1, m2}
  Series = {s1}
  Versions = {v1, v2}
  Boxes = {c1, c2}
  SeriesOf <- MCSeriesOf
  NoMaker = NoMaker  NoBox = NoBox  Absent = Absent
  Names = {"old", "new"}
  FirstCatalog <- MCFirstCatalog
  Ops = {o1, o2, o3}
  Requests = {q1, q2}
  MaxChanges = 3
SYMMETRY MCSymmetry
CHECK_DEADLOCK FALSE
INVARIANTS CampaignsAddUp ChangesAreTold
PROPERTIES CatalogStands StepsAreMeant
