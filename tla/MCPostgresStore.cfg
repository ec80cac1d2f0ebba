\* A tournament with one place left for two players, two rooms that played one
\* semifinal, and a match of two of its players outside, on two connections.
SPECIFICATION FairSpec
CONSTANTS
    Users = {1, 2, 3, 4, 5}
    k1 = k1
    k2 = k2
    k3 = k3
    k4 = k4
    k5 = k5
    s1 = s1
    s2 = s2
    Keys = {k1, k2, k3, k4, k5}
    Sessions = {s1, s2}
    Commands <- MCCommands
    StartRating <- MCStartRating
    Early <- MCEarly
    NoUser = NoUser
    NoKey = NoKey
    NoSlot = NoSlot
INVARIANTS
    LedgerBalanced
    BracketFollows
PROPERTIES
    ImplementsMemory
    DecisionsStand
    TransactionsEnd
