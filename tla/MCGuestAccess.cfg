\* One unit of time is half a minute: a ticket lives one, a window two.  An
\* address has room for one connection and one ticket, so that it is full when
\* another guest comes or moves to it.  The limits of
\* the process are above the sum of those of the addresses.
SPECIFICATION Spec
CONSTANTS
    u1 = u1
    u2 = u2
    i1 = i1
    i2 = i2
    Users = {u1, u2, u3}
    Ips = {i1, i2}
    SessionIp <- MCSessionIp
    Sockets = {s1, s2, s3}
    Tickets = {t1, t2}
    TicketTtl = 1
    RateWindow = 2
    CreationLimit = 1
    TicketIssueLimit = 2
    TrackedIpLimit = 1
    TicketsPerIp = 1
    TicketLimit = 2
    ConnectionsPerIp = 1
    ConnectionLimit = 2
    NoUser = NoUser
    NoIp = NoIp
    NoSocket = NoSocket
    NoTicket = NoTicket
SYMMETRY MCSymmetry
INVARIANTS
    LeasesMatchSockets
    WithinLimits
    TicketAdmitsOnce
    RateHeld
PROPERTIES
    TicketsLast
    ClosedStaysOut
