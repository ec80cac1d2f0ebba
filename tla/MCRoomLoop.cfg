\* Two rooms, a player with two connections and two inputs on each.
SPECIFICATION FairSpec
CONSTANTS
    Rooms = {r1, r2}
    PlayersRoom = r1
    Timestep <- MCTimestep
    MaxTicks <- MCMaxTicks
    MaxLag <- MCMaxLag
    MaxMatchTicks = 3
    InputCost = 1
    Refill = 1
    Burst = 1
    MaxGap = 5
    MaxConns = 2
    MaxInputs = 2
INVARIANTS
    OnlyPlayingRoomsStep
    Paced
    LatestInput
CHECK_DEADLOCK FALSE
PROPERTIES
    GamesEnd
