\* Two registered players in reach of each other, one of them with a second
\* connection to replace or recover the first, and two rooms, so that a player
\* can open the next room while the last one still waits for the database. A
\* guest may be in the hub while nobody else is.
\* The players may leave for good, so deadlock is not an error.
SPECIFICATION Spec
CONSTANTS
    ua = ua
    ub = ub
    uc = uc
    a1 = a1
    a2 = a2
    b1 = b1
    c1 = c1
    r1 = r1
    r2 = r2
    m1 = m1
    Users = {ua, ub, uc}
    Guests = {uc}
    Conns = {a1, a2, b1, c1}
    UserOf <- MCUserOf
    Rating <- MCRating
    MaxRatingDifference = 200
    Fallback = 1
    Window = 1
    RoomIds = {r1, r2}
    TMatches = {}
    TPlayers <- MCTPlayers
    Inputs = {"queue", "leave", "pause"}
    CreateRoomMayFail = TRUE
    MaxStaleLookups = 1
    MaxJoins = 0
    NoConn = NoConn
    NoRoom = NoRoom
    NoMatch = NoMatch
CHECK_DEADLOCK FALSE
SYMMETRY MCSymmetry
CONSTRAINT MCGuestApart
INVARIANTS
    SeatsAgree
    OneRoomPerConnection
    RoomMirrorsSession
    FinalizedOnce
    MatchmakerBacked
