\* Users in reach of each other, out of reach and of both kinds; a clock of
\* four instants and a fallback of two, so that players queue at different
\* times and some have waited long enough.
SPECIFICATION QueueSpec
CONSTANTS
    u1 = u1
    u2 = u2
    u3 = u3
    g1 = g1
    g2 = g2
    Users = {u1, u2, u3, g1, g2}
    Guests = {g1, g2}
    Rating <- MCRating
    MaxRatingDifference = 200
    Fallback = 2
    MaxNow = 4
INVARIANTS
    NoCompatiblePairWaits
PROPERTIES
    MatchIsJustified
