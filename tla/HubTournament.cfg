\* One tournament match whose left player has two connections, two joins in
\* flight, database answers that come late or fail, and a drain. The queue is off:
\* the two ways into a room do not exclude each other (HubTwoRooms.cfg).
\* The players may leave for good, so deadlock is not an error.
SPECIFICATION Spec
CONSTANTS
    ua = ua
    ub = ub
    uc = uc
    a1 = a1
    a2 = a2
    b1 = b1
    c1 = c1
    r1 = r1
    r2 = r2
    m1 = m1
    Users = {ua, ub}
    Guests = {}
    Conns = {a1, a2, b1}
    UserOf <- MCUserOf
    Rating <- MCRating
    MaxRatingDifference = 200
    Fallback = 1
    Window = 1
    RoomIds = {r1}
    TMatches = {m1}
    TPlayers <- MCTPlayers
    Inputs = {"tournament", "drain"}
    CreateRoomMayFail = TRUE
    MaxStaleLookups = 0
    MaxJoins = 2
    NoConn = NoConn
    NoRoom = NoRoom
    NoMatch = NoMatch
CHECK_DEADLOCK FALSE
SYMMETRY MCSymmetry
INVARIANTS
    TournamentPairs
