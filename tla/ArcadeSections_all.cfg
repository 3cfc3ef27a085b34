CONSTANTS
    ann = ann
    bob = bob
    n1 = n1
    n2 = n2
    seoul = seoul
    r1 = r1
    Users = {ann, bob}
    Named = {ann, bob}
    Week = 2
    GameCap = 4
    PhotoCap = 2
    Creator = ann
    Moderators = {}
    Parts = {"hour", "sns", "gtk", "memo", "game", "photo"}
    Names = {n1, n2}
    Places = {0, 1}
    CountryOf <- MCCountryOf
    Cities = {seoul}
    CityCountry <- MCCityCountry
    NearestCity <- MCNearestCity
    NoCity = NoCity
    NoCountry = NoCountry
    System = System
    Keep = Keep
    Atoms = {1, 2}
    Requests = {r1}
    Bodies <- MCEdits
    StartExp = 24
    MaxMoves = 4
    MaxReports = 1
    MaxTime = 2
SPECIFICATION MCSpec
CHECK_DEADLOCK FALSE
INVARIANTS PartsAreSound RewardsAreExact
PROPERTIES EditsAreExact PublicationIsSupported
