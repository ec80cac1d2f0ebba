\* A registered user and two guests, one room, games against the AI, rooms that
\* cannot be created, the drain with its time limit, and the process around it.
\* The process ends, so deadlock is not an error.
SPECIFICATION ProcessSpec
CONSTANTS
    ua = ua
    ub = ub
    uc = uc
    a1 = a1
    b1 = b1
    c1 = c1
    r1 = r1
    Users = {ua, ub, uc}
    Guests = {ub, uc}
    Conns = {a1, b1, c1}
    UserOf <- MCUserOf
    Rating <- MCRating
    MaxRatingDifference = 200
    Fallback = 1
    Window = 1
    RoomIds = {r1}
    TMatches = {}
    TPlayers <- MCTPlayers
    Inputs = {"queue", "ai", "drain"}
    CreateRoomMayFail = TRUE
    MaxStaleLookups = 1
    MaxJoins = 0
    NoConn = NoConn
    NoRoom = NoRoom
    NoMatch = NoMatch
CHECK_DEADLOCK FALSE
INVARIANTS
    GuestsApart
    ResultsBeforePool
PROPERTIES
    NoNewMatchesInDrain
    ReadyTruthful
    ShutdownEnds
