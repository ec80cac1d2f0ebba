----------------------------- MODULE GuestAccess -----------------------------
(***************************************************************************)
(* How a player gets a WebSocket: tickets, the handshake of /ws and, in    *)
(* the demo mode, the limits for guests (apps/api/src/guestAccess.ts, the  *)
(* routes of apps/api/src/app.ts that use it, consumeWsTicket of the       *)
(* repository).                                                            *)
(*                                                                         *)
(* A guest's handshake runs from the ticket to hub.connect without giving  *)
(* up the thread and is one action.  A registered player's waits for the   *)
(* database, and the socket may close meanwhile.                           *)
(*                                                                         *)
(* Time is relative: a ticket has `left' instants to live and a window     *)
(* counts the events of the instants 0, 1, ... before the present one.     *)
(***************************************************************************)
EXTENDS Integers, FiniteSets

CONSTANTS
    Users,              \* guests in the demo mode, registered players otherwise
    Ips,                \* request.ip
    SessionIp,          \* the address a guest's session was created at
    Sockets,            \* sockets; one is reused when its handshake is over
    Tickets,            \* ticket hashes; one is reused when nothing holds it
    TicketTtl,          \* WS_TICKET_TTL_SECONDS
    RateWindow,         \* CREATION_WINDOW_MS
    CreationLimit,      \* creationLimitPerMinute
    TicketIssueLimit,   \* ticketIssueLimitPerMinute
    TrackedIpLimit, TicketsPerIp, TicketLimit, ConnectionsPerIp, ConnectionLimit,
    NoUser, NoIp, NoSocket, NoTicket

ASSUME GuestAccessAssumption ==
    /\ IsFiniteSet(Users) /\ IsFiniteSet(Tickets)
    /\ SessionIp \in [Users -> Ips]
    /\ TicketTtl \in Nat \ {0} /\ RateWindow \in Nat \ {0}
    /\ CreationLimit \in Nat /\ TicketIssueLimit \in Nat /\ TrackedIpLimit \in Nat
    /\ TicketsPerIp \in Nat /\ TicketLimit \in Nat
    /\ ConnectionsPerIp \in Nat /\ ConnectionLimit \in Nat
    /\ NoUser \notin Users /\ NoIp \notin Ips
    /\ NoSocket \notin Sockets /\ NoTicket \notin Tickets

VARIABLES
    demo,       \* appMode = "demo", for the life of the process
    windows,    \* creationsByIp and ticketIssuesByIp
    tickets,    \* the tickets of the process, or the rows of ws_tickets
    index,      \* ticketHashByGuest
    leases,     \* connections: the lease a guest holds
    sock,       \* the sockets of /ws
    accepted    \* history: the events a window store has admitted

guestVars == <<windows, tickets, index, leases, accepted>>
vars      == <<demo, guestVars, sock>>

-----------------------------------------------------------------------------
(* Rolling windows *)

Stores == {"creation", "ticket"}
Limit(store) == IF store = "creation" THEN CreationLimit ELSE TicketIssueLimit

Ages == 0..(RateWindow - 1)
NoEvents == [age \in Ages |-> 0]

\* events: timestamps still inside the window, by age; left: until expiresAtMs.
RollingWindow == [tracked : BOOLEAN, events : [Ages -> Nat], left : 0..RateWindow]
Untracked == [tracked |-> FALSE, events |-> NoEvents, left |-> 0]

\* The events of a window one by one, and how many they are.
EventsIn(events) == UNION {{<<age, n>> : n \in 1..events[age]} : age \in Ages}
EventCount(events) == Cardinality(EventsIn(events))

Aged(events) == [age \in Ages |-> IF age = 0 THEN 0 ELSE events[age - 1]]
WithEvent(events) == [events EXCEPT ![0] = @ + 1]

\* pruneWindows
PrunedWindows(store) ==
    [ip \in Ips |-> IF windows[store][ip].left = 0 THEN Untracked ELSE windows[store][ip]]

TrackedIps(w) == {ip \in Ips : w[ip].tracked}

\* recordWindowEvent: whether it throws, and what it writes.
MayRecord(store, ip) ==
    LET w == PrunedWindows(store)
    IN  /\ w[ip].tracked \/ Cardinality(TrackedIps(w)) < TrackedIpLimit
        /\ EventCount(w[ip].events) < Limit(store)

\* Mutant: the first event of a window decides when it is forgotten.
RecordKeepsExpiry(store, ip) ==
    LET w == PrunedWindows(store)
    IN  /\ windows' = [windows EXCEPT ![store] = [w EXCEPT ![ip] =
              [tracked |-> TRUE, events |-> WithEvent(w[ip].events),
               left |-> IF w[ip].tracked THEN w[ip].left ELSE RateWindow]]]
        /\ accepted' = [accepted EXCEPT ![store][ip] = WithEvent(@)]

Record(store, ip) ==
    LET w == PrunedWindows(store)
    IN  /\ windows' = [windows EXCEPT ![store] = [w EXCEPT ![ip] =
              [tracked |-> TRUE, events |-> WithEvent(w[ip].events), left |-> RateWindow]]]
        /\ accepted' = [accepted EXCEPT ![store][ip] = WithEvent(@)]

\* A call that throws has pruned.
RecordRefused(store) ==
    /\ windows' = [windows EXCEPT ![store] = PrunedWindows(store)]
    /\ UNCHANGED accepted

-----------------------------------------------------------------------------
(* Tickets *)

\* "replaced": no longer in the map, its cleanup timer still running.
Ticket == [state : {"free", "stored", "replaced"},
           user  : Users \cup {NoUser},
           ip    : Ips \cup {NoIp},
           left  : 0..TicketTtl]

FreeTicket == [state |-> "free", user |-> NoUser, ip |-> NoIp, left |-> 0]

Stored(ts) == {t \in Tickets : ts[t].state = "stored"}
StoredAt(ts, ip) == {t \in Stored(ts) : ts[t].ip = ip}

\* The ticketHashByGuest part of every deletion.
IndexWithout(gone) ==
    [u \in Users |-> IF index[u] \in gone THEN NoTicket ELSE index[u]]

\* Mutant: the row of a good ticket is read and not deleted.
ConsumedRead(t) == [tickets EXCEPT ![t] = IF @.state = "stored" /\ @.left = 0 THEN FreeTicket ELSE @]

\* consumeWsTicket, of GuestAccess and of the repository: the ticket is gone,
\* whether or not it was still good.
Consumed(t) == [tickets EXCEPT ![t] = IF @.state = "stored" THEN FreeTicket ELSE @]

Good(t) == tickets[t].state = "stored" /\ tickets[t].left > 0

\* A hash nothing refers to, as a new random one.
Fresh(t) == tickets[t].state = "free" /\ \A s \in Sockets : sock[s].ticket # t

\* pruneExpiredTickets
Expired == {t \in Stored(tickets) : tickets[t].left = 0}

\* issueWsTicket once the rate allows it: what is left of the tickets after
\* pruneExpiredTickets and the deletion of the guest's previous ticket, whose
\* timer nobody stops.
TicketsFor(u) ==
    [t \in Tickets |->
        IF t \in Expired THEN FreeTicket
        ELSE IF t = index[u] THEN [tickets[t] EXCEPT !.state = "replaced"]
        ELSE tickets[t]]

\* Mutants: the limits are off by one.
RoomForTicketOffByOne(ts, ip) ==
    /\ Cardinality(StoredAt(ts, ip)) <= TicketsPerIp
    /\ Cardinality(Stored(ts)) < TicketLimit

RoomForTicket(ts, ip) ==
    /\ Cardinality(StoredAt(ts, ip)) < TicketsPerIp
    /\ Cardinality(Stored(ts)) < TicketLimit

-----------------------------------------------------------------------------
(* Connection leases *)

\* A lease is known by the socket it was taken for (leaseId).
Lease == [ip : Ips \cup {NoIp}, socket : Sockets \cup {NoSocket}]
NoLease == [ip |-> NoIp, socket |-> NoSocket]

Leased == {u \in Users : leases[u].socket # NoSocket}
LeasedAt(ip) == {u \in Leased : leases[u].ip = ip}

\* acquireConnection
\* Mutant: a guest who moves to another address is not counted there.
MayAcquireMoving(u, ip) ==
    u \in Leased \/ /\ Cardinality(LeasedAt(ip)) < ConnectionsPerIp
                    /\ Cardinality(Leased) < ConnectionLimit

MayAcquire(u, ip) ==
    IF u \in Leased
    THEN leases[u].ip = ip \/ Cardinality(LeasedAt(ip)) < ConnectionsPerIp
    ELSE /\ Cardinality(LeasedAt(ip)) < ConnectionsPerIp
         /\ Cardinality(Leased) < ConnectionLimit

\* release() of the lease taken for the socket s.
\* Mutant: whatever lease the guest has now.
ReleasedAnyLease(s) ==
    [u \in Users |-> IF sock[s].user = u THEN NoLease ELSE leases[u]]

ReleasedLease(s) ==
    [u \in Users |-> IF leases[u].socket = s THEN NoLease ELSE leases[u]]

-----------------------------------------------------------------------------
(* Sockets *)

\* phase: "handshake", "open" (handed to the hub), "closing" or "leaving" (not
\* open any more, the close event to come, of a socket the hub never had or
\* had), "gone" (closed while the database still works on its ticket).
\* answer: of consumeWsTicket, for registered players; ticket: theirs.
Socket == [phase  : {"free", "handshake", "open", "closing", "leaving", "gone"},
           answer : {"none", "asked", "found", "missing"},
           ticket : Tickets \cup {NoTicket},
           user   : Users \cup {NoUser}]

FreeSocket == [phase |-> "free", answer |-> "none", ticket |-> NoTicket, user |-> NoUser]
Handshake(t) == [phase |-> "handshake", answer |-> "asked", ticket |-> t, user |-> NoUser]
Refused == [phase |-> "closing", answer |-> "none", ticket |-> NoTicket, user |-> NoUser]
Admitted(t, u) == [phase |-> "open", answer |-> "none", ticket |-> t, user |-> u]

\* hub.connect, which closes the socket the user had before.
HandToHub(s, t, u) ==
    sock' = [x \in Sockets |->
                IF x = s THEN Admitted(t, u)
                ELSE IF sock[x].phase = "open" /\ sock[x].user = u
                THEN [sock[x] EXCEPT !.phase = "leaving"]
                ELSE sock[x]]

Init ==
    /\ demo \in BOOLEAN
    /\ windows = [store \in Stores |-> [ip \in Ips |-> Untracked]]
    /\ tickets = [t \in Tickets |-> FreeTicket]
    /\ index = [u \in Users |-> NoTicket]
    /\ leases = [u \in Users |-> NoLease]
    /\ sock = [s \in Sockets |-> FreeSocket]
    /\ accepted = [store \in Stores |-> [ip \in Ips |-> NoEvents]]

-----------------------------------------------------------------------------
(* Guests *)

\* POST /auth/guest
CreateSession(ip) ==
    /\ demo
    /\ MayRecord("creation", ip) /\ Record("creation", ip)
    /\ UNCHANGED <<demo, tickets, index, leases, sock>>

CreateSessionRefused(ip) ==
    /\ demo
    /\ ~MayRecord("creation", ip) /\ RecordRefused("creation")
    /\ UNCHANGED <<demo, tickets, index, leases, sock>>

\* POST /auth/ws-ticket of a guest, whose cookie counts only at the address it
\* was made for.
GuestTicket(u, t) ==
    LET ip == SessionIp[u] IN
    /\ demo /\ Fresh(t)
    /\ MayRecord("ticket", ip) /\ Record("ticket", ip)
    /\ RoomForTicket(TicketsFor(u), ip)
    /\ tickets' = [TicketsFor(u) EXCEPT ![t] =
                      [state |-> "stored", user |-> u, ip |-> ip, left |-> TicketTtl]]
    /\ index' = [IndexWithout(Expired) EXCEPT ![u] = t]
    /\ UNCHANGED <<demo, leases, sock>>

\* Too many tickets are out: the guest's previous one is gone all the same.
GuestTicketNoRoom(u) ==
    LET ip == SessionIp[u] IN
    /\ demo
    /\ MayRecord("ticket", ip) /\ Record("ticket", ip)
    /\ ~RoomForTicket(TicketsFor(u), ip)
    /\ tickets' = TicketsFor(u)
    /\ index' = [IndexWithout(Expired) EXCEPT ![u] = NoTicket]
    /\ UNCHANGED <<demo, leases, sock>>

GuestTicketTooOften(u) ==
    /\ demo
    /\ ~MayRecord("ticket", SessionIp[u]) /\ RecordRefused("ticket")
    /\ tickets' = [t \in Tickets |-> IF t \in Expired THEN FreeTicket ELSE tickets[t]]
    /\ index' = IndexWithout(Expired)
    /\ UNCHANGED <<demo, leases, sock>>

\* /ws with a ticket, from any address.
ConsumeGuestTicket(t) ==
    /\ tickets' = Consumed(t)
    /\ index' = IndexWithout({t})

GuestAdmitted(s, t, ip) ==
    LET u == tickets[t].user IN
    /\ demo /\ sock[s].phase = "free" /\ Good(t)
    /\ ConsumeGuestTicket(t)
    /\ MayAcquire(u, ip)
    /\ leases' = [leases EXCEPT ![u] = [ip |-> ip, socket |-> s]]
    /\ HandToHub(s, NoTicket, u)
    /\ UNCHANGED <<demo, windows, accepted>>

GuestOverLimit(s, t, ip) ==
    /\ demo /\ sock[s].phase = "free" /\ Good(t)
    /\ ConsumeGuestTicket(t)
    /\ ~MayAcquire(tickets[t].user, ip)
    /\ sock' = [sock EXCEPT ![s] = Refused]
    /\ UNCHANGED <<demo, windows, leases, accepted>>

GuestTicketBad(s, t) ==
    /\ demo /\ sock[s].phase = "free" /\ ~Good(t)
    /\ ConsumeGuestTicket(t)
    /\ sock' = [sock EXCEPT ![s] = Refused]
    /\ UNCHANGED <<demo, windows, leases, accepted>>

\* Mutant: the timer of an old ticket takes the guest's present one.
TicketsAfterTimerOfUser(t) ==
    [x \in Tickets |-> IF x = t \/ tickets[x].user = tickets[t].user THEN FreeTicket ELSE tickets[x]]

\* deleteTicket by the cleanup timer, which finds nothing when the ticket has
\* been replaced.
TicketsAfterTimer(t) == [tickets EXCEPT ![t] = FreeTicket]

TicketTimer(t) ==
    /\ demo /\ tickets[t].state # "free" /\ tickets[t].left = 0
    /\ tickets' = TicketsAfterTimer(t)
    /\ index' = IndexWithout({t})
    /\ UNCHANGED <<demo, windows, leases, sock, accepted>>

\* The cleanup timer of a window.
WindowTimer(store, ip) ==
    /\ windows[store][ip].tracked /\ windows[store][ip].left = 0
    /\ windows' = [windows EXCEPT ![store][ip] = Untracked]
    /\ UNCHANGED <<demo, tickets, index, leases, sock, accepted>>

-----------------------------------------------------------------------------
(* Registered players *)

\* POST /auth/ws-ticket: createWsTicket.
MemberTicket(u, t) ==
    /\ ~demo /\ Fresh(t)
    /\ tickets' = [tickets EXCEPT ![t] =
                      [state |-> "stored", user |-> u, ip |-> NoIp, left |-> TicketTtl]]
    /\ UNCHANGED <<demo, windows, index, leases, sock, accepted>>

\* /ws with a ticket: the call of consumeWsTicket.
MemberPresents(s, t) ==
    /\ ~demo /\ sock[s].phase = "free"
    /\ sock' = [sock EXCEPT ![s] = Handshake(t)]
    /\ UNCHANGED <<demo, guestVars>>

\* The statement of consumeWsTicket in the database.
MemberTicketGood(s) ==
    LET t == sock[s].ticket IN
    /\ sock[s].answer = "asked" /\ Good(t)
    /\ tickets' = Consumed(t)
    /\ sock' = [sock EXCEPT ![s].answer = "found", ![s].user = tickets[t].user]
    /\ UNCHANGED <<demo, windows, index, leases, accepted>>

\* Unknown, used or expired, its user suspended, or the query fails.
MemberTicketBad(s) ==
    /\ sock[s].answer = "asked"
    /\ tickets' \in {tickets, Consumed(sock[s].ticket)}
    /\ sock' = [sock EXCEPT ![s].answer = "missing"]
    /\ UNCHANGED <<demo, windows, index, leases, accepted>>

\* Mutant: nobody looks whether the socket is still open.
StillOpenUnchecked(s) == sock[s].phase # "free"

\* authenticationClosed is unset and readyState is OPEN.
StillOpen(s) == sock[s].phase = "handshake"

MemberAdmitted(s) ==
    /\ sock[s].answer = "found" /\ StillOpen(s)
    /\ HandToHub(s, sock[s].ticket, sock[s].user)
    /\ UNCHANGED <<demo, guestVars>>

MemberRefused(s) ==
    /\ sock[s].answer = "missing" /\ StillOpen(s)
    /\ sock' = [sock EXCEPT ![s] = Refused]
    /\ UNCHANGED <<demo, guestVars>>

AnswerTooLate(s) ==
    /\ sock[s].answer \in {"found", "missing"} /\ ~StillOpen(s)
    /\ sock' = [sock EXCEPT ![s] = IF @.phase = "gone" THEN FreeSocket ELSE Refused]
    /\ UNCHANGED <<demo, guestVars>>

-----------------------------------------------------------------------------
(* Sockets and time *)

\* closeAuthentication before the ticket is looked at: another protocol
\* version, or no ticket.
BadQuery(s) ==
    /\ sock[s].phase = "free"
    /\ sock' = [sock EXCEPT ![s] = Refused]
    /\ UNCHANGED <<demo, guestVars>>

\* The player or the network closes it, the hub terminates it, or the payloads
\* sent during the handshake exceed a limit of bufferPayload.
SocketCloses(s) ==
    /\ sock[s].phase \in {"handshake", "open"}
    /\ sock' = [sock EXCEPT ![s].phase = IF @ = "open" THEN "leaving" ELSE "closing"]
    /\ UNCHANGED <<demo, guestVars>>

\* The close event.
SocketClosed(s) ==
    /\ sock[s].phase \in {"closing", "leaving"}
    /\ sock' = [sock EXCEPT ![s] =
                   IF @.answer = "none" THEN FreeSocket ELSE [@ EXCEPT !.phase = "gone"]]
    /\ leases' = ReleasedLease(s)
    /\ UNCHANGED <<demo, windows, tickets, index, accepted>>

OlderTicket(ticket) == IF ticket.left = 0 THEN ticket ELSE [ticket EXCEPT !.left = @ - 1]

OlderWindow(w) ==
    IF w.left = 0 THEN w ELSE [w EXCEPT !.events = Aged(@), !.left = @ - 1]

Tick ==
    /\ \/ \E t \in Tickets : tickets[t].left > 0
       \/ \E store \in Stores, ip \in Ips : windows[store][ip].left > 0
    /\ tickets' = [t \in Tickets |-> OlderTicket(tickets[t])]
    /\ windows' = [store \in Stores |-> [ip \in Ips |-> OlderWindow(windows[store][ip])]]
    /\ accepted' = [store \in Stores |-> [ip \in Ips |-> Aged(accepted[store][ip])]]
    /\ UNCHANGED <<demo, index, leases, sock>>

GuestStep ==
    \/ \E ip \in Ips : CreateSession(ip) \/ CreateSessionRefused(ip)
    \/ \E u \in Users : \/ \E t \in Tickets : GuestTicket(u, t)
                        \/ GuestTicketNoRoom(u) \/ GuestTicketTooOften(u)
    \/ \E s \in Sockets, t \in Tickets :
          \/ \E ip \in Ips : GuestAdmitted(s, t, ip) \/ GuestOverLimit(s, t, ip)
          \/ GuestTicketBad(s, t)
    \/ \E t \in Tickets : TicketTimer(t)
    \/ \E store \in Stores, ip \in Ips : WindowTimer(store, ip)

MemberStep ==
    \/ \E u \in Users, t \in Tickets : MemberTicket(u, t)
    \/ \E s \in Sockets :
          \/ \E t \in Tickets : MemberPresents(s, t)
          \/ MemberTicketGood(s) \/ MemberTicketBad(s)
          \/ MemberAdmitted(s) \/ MemberRefused(s) \/ AnswerTooLate(s)

SocketStep == \E s \in Sockets : BadQuery(s) \/ SocketCloses(s) \/ SocketClosed(s)

Next == GuestStep \/ MemberStep \/ SocketStep \/ Tick

Spec == Init /\ [][Next]_vars

-----------------------------------------------------------------------------
(* Properties *)

TypeOK ==
    /\ demo \in BOOLEAN
    /\ windows \in [Stores -> [Ips -> RollingWindow]]
    /\ tickets \in [Tickets -> Ticket]
    /\ index \in [Users -> Tickets \cup {NoTicket}]
    /\ leases \in [Users -> Lease]
    /\ sock \in [Sockets -> Socket]
    /\ accepted \in [Stores -> [Ips -> [Ages -> Nat]]]

\* Every guest in the hub holds the lease of exactly this socket, and a lease
\* belongs to a socket of its guest whose close event is still to come: none
\* leaks and none is given back too early, in whatever order the close events
\* of replaced sockets arrive.
LeasesMatchSockets ==
    /\ \A s \in Sockets : demo /\ sock[s].phase = "open" => leases[sock[s].user].socket = s
    /\ \A u \in Leased : LET s == sock[leases[u].socket] IN
          s.user = u /\ s.phase \in {"open", "leaving"}

\* No address and not the process has more leases or outstanding tickets than
\* its limit, also when a guest moves from one address to another.
WithinLimits ==
    demo => /\ \A ip \in Ips : /\ Cardinality(LeasedAt(ip)) <= ConnectionsPerIp
                               /\ Cardinality(StoredAt(tickets, ip)) <= TicketsPerIp
            /\ Cardinality(Leased) <= ConnectionLimit
            /\ Cardinality(Stored(tickets)) <= TicketLimit

\* ticketHashByGuest and tickets tell the same: a guest has at most the one
\* ticket the index names.
IndexAgrees ==
    demo => \A u \in Users, t \in Tickets :
                index[u] = t <=> t \in Stored(tickets) /\ tickets[t].user = u

\* A ticket brings one socket of a registered player to the hub, however many
\* present it at once.
TicketAdmitsOnce ==
    ~demo => \A s \in Sockets : sock[s].phase \in {"open", "leaving"} =>
        /\ sock[s].ticket \notin Stored(tickets)
        /\ \A x \in Sockets \ {s} : sock[x].ticket = sock[s].ticket =>
              sock[x].phase \notin {"open", "leaving"} /\ sock[x].answer # "found"

\* An unexpired ticket goes only when a socket presents it, alone, or when its
\* own guest asks for another: no timer or clean-up of an older ticket takes it.
TicketsLast ==
    [][\A t \in Tickets : Good(t) /\ tickets'[t].state # "stored" =>
          \/ sock' # sock /\ \A x \in Tickets \ {t} : tickets'[x] = tickets[x]
          \/ /\ accepted' # accepted
             /\ \A u \in Users \ {tickets[t].user} : index'[u] \in {index[u], NoTicket}]_vars

\* In every rolling window no address creates more sessions, or is given more
\* tickets, than the limit.
RateHeld ==
    \A store \in Stores, ip \in Ips : EventCount(accepted[store][ip]) <= Limit(store)

\* A socket that closed, for whatever reason, is never handed to the hub.
ClosedStaysOut ==
    [][\A s \in Sockets : sock[s].phase \in {"closing", "leaving", "gone"} =>
          sock'[s].phase # "open"]_vars
=============================================================================
