SPECIFICATION FairSpec
CONSTANTS
    Peers = {"ann", "bob", "eve"}
    Services = {"eth", "wlan"}
    Uris = {"u1", "u2"}
    Records <- MCRecords
    Avatars = {q1, q2}
    Statuses = {"available", "away"}
    CapSets = {"u1", "u2"}
    Aliases = {"Ann"}
    Pictures = {"cat", "dog"}
    Interfaces = {i1, i2}
    Ensures = {r1, r2}
    MaxOwn = 2
    Lines <- MCLines
    Messages = {m1, m2}
    Rooms = {"tea"}
    Announcers = {"here", "there"}
    Local = {"here"}
    Links = {"eth", "wlan"}
    Lists = {l1, l2}
    NewLists = {l2}
    MaxMoves = 4
    Scenarios <- MCScenarios
INVARIANTS NothingForged ListedAreThere OneAnswerEach  HeardAsSaid
PROPERTIES ListConverges EverythingEnds
CHECK_DEADLOCK FALSE
