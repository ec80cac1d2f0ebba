\* The first instance without symmetry, which liveness does not allow, and with
\* one room, which is enough for a room to stay and players to wait for one.
\* The players may leave for good, so deadlock is not an error.
SPECIFICATION FairSpec
CONSTANTS
    ua = ua
    ub = ub
    uc = uc
    a1 = a1
    a2 = a2
    b1 = b1
    c1 = c1
    r1 = r1
    r2 = r2
    m1 = m1
    Users = {ua, ub}
    Guests = {}
    Conns = {a1, a2, b1}
    UserOf <- MCUserOf
    Rating <- MCRating
    MaxRatingDifference = 200
    Fallback = 1
    Window = 1
    RoomIds = {r1}
    TMatches = {}
    TPlayers <- MCTPlayers
    Inputs = {"queue", "ai"}
    CreateRoomMayFail = FALSE
    MaxStaleLookups = 1
    MaxJoins = 0
    NoConn = NoConn
    NoRoom = NoRoom
    NoMatch = NoMatch
CHECK_DEADLOCK FALSE
PROPERTIES
    QueueAnswered
    InterruptionEnds
