\* An admin and a player, two requests in hand at once.
SPECIFICATION Spec
CONSTANTS
    admin = admin
    ann = ann
    t1 = t1
    t2 = t2
    k1 = k1
    h1 = h1
    h2 = h2
    Users = {admin, ann}
    Tokens = {t1, t2}
    Early <- MCEarly
    Handlers = {h1, h2}
    Tickets = {k1}
    MaxActions = 2
    NoRequest = NoRequest
SYMMETRY MCSymmetry
CONSTRAINT MCTicketsApart
INVARIANTS
    FriendsBothAsked
PROPERTIES
    AdmittedActive
    ImplementsMemory
