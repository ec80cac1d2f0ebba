\* A player who waits for a tournament opponent and starts a game against the AI.
\* The players may leave for good, so deadlock is not an error.
SPECIFICATION Spec
CONSTANTS
    ua = ua
    ub = ub
    uc = uc
    a1 = a1
    a2 = a2
    b1 = b1
    c1 = c1
    r1 = r1
    r2 = r2
    m1 = m1
    Users = {ua, ub}
    Guests = {}
    Conns = {a1, b1}
    UserOf <- MCUserOf
    Rating <- MCRating
    MaxRatingDifference = 200
    Fallback = 1
    Window = 1
    RoomIds = {r1, r2}
    TMatches = {m1}
    TPlayers <- MCTPlayers
    Inputs = {"ai", "tournament"}
    CreateRoomMayFail = FALSE
    MaxStaleLookups = 0
    MaxJoins = 1
    NoConn = NoConn
    NoRoom = NoRoom
    NoMatch = NoMatch
CHECK_DEADLOCK FALSE
SYMMETRY MCSymmetry
INVARIANTS
    OneRoomPerConnection
