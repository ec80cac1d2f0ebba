\* One tab that starts to play twice and is left, one room, one broken socket.
SPECIFICATION FairSpec
CONSTANTS
    Sockets = {a, b}
    NoSocket = NoSocket
    MaxWait = 1
    Window = 2
    MaxDelay = 2
    MaxGeneration <- MCTwoConnections
    MaxRooms = 1
    MaxSequence = 2
    MaxLosses = 1
INVARIANTS
    OneAttempt
    CaughtUp
PROPERTIES
    SnapshotsGetOut
    ReturnsToRoom
CHECK_DEADLOCK FALSE
