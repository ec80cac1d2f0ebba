------------------------------ MODULE Accounts ------------------------------
(***************************************************************************)
(* Registered accounts over the HTTP routes and the Postgres repository.   *)
(* A route reads the user of its cookie, checks role and standing in what  *)
(* it read, and then writes; other routes run between the two.  A ban is a *)
(* transaction of two statements that holds the row of its target from the *)
(* first.  A ticket of the WebSocket is stored by a route and taken later, *)
(* by a single statement, when the socket comes.  Guests, profiles and the *)
(* routes that only read are left out.                                     *)
(***************************************************************************)
EXTENDS AccountOps, FiniteSets, TLC

CONSTANTS
    Early,          \* the seeded users
    Handlers,       \* requests the server may have in hand at once
    Tickets,        \* hashes of WebSocket tickets
    MaxActions,     \* bound on the admin actions
    NoRequest

Routes == {"friend", "accept", "ban", "ticket"}
Guarded == Routes \ {"accept"}            \* the route that does not check isActive

Request ==
    [kind : Routes \cup {"login"}, stage : {"open", "act", "log"},
     me : Users, about : Users, banned : BOOLEAN]

\* A ticket that waits in its row, and one that has let its socket in.
Ticket == [user : Users, state : {"stored", "admitted"}]

ASSUME Values ==
    /\ Early \in UNION {[D -> [role : Roles, status : {"active"}]] : D \in SUBSET Users}
    /\ NoRequest \notin Request
    /\ MaxActions \in Nat

VARIABLES
    users,          \* committed rows: role and status
    sessions,       \* rows of the sessions table that have not expired
    friendships,    \* rows by unordered pair
    log,            \* admin actions in the order of their commits
    tickets,        \* rows of the tickets that have not expired, and those that let in
    requests,       \* what each handler is doing
    asked           \* history: <<u, v>> when u asked v or accepted v

rows == <<users, sessions, friendships, log>>
vars == <<rows, tickets, requests, asked>>

Row(p) ==
    {r \in [requester : p, addressee : p, status : {"pending", "accepted"}] :
        r.requester # r.addressee}

TypeOK ==
    /\ DOMAIN users \subseteq Users
    /\ \A u \in DOMAIN users : users[u] \in [role : Roles, status : Statuses]
    /\ DOMAIN sessions \subseteq Tokens
    /\ \A t \in DOMAIN sessions : sessions[t] \in DOMAIN users
    /\ DOMAIN friendships \subseteq Pairs
    /\ \A p \in DOMAIN friendships : friendships[p] \in Row(p)
    /\ log \in Seq([target : Users, banned : BOOLEAN])
    /\ DOMAIN tickets \subseteq Tickets
    /\ \A k \in DOMAIN tickets : tickets[k] \in Ticket /\ tickets[k].user \in DOMAIN users
    /\ requests \in [Handlers -> Request \cup {NoRequest}]
    /\ asked \subseteq Users \X Users

Init ==
    /\ users = Early
    /\ sessions = <<>>
    /\ friendships = <<>>
    /\ log = <<>>
    /\ tickets = <<>>
    /\ requests = [h \in Handlers |-> NoRequest]
    /\ asked = {}

----------------------------------------------------------------------------
At(h, k, s) == requests[h] # NoRequest /\ requests[h].kind = k /\ requests[h].stage = s

Answer(h) == requests' = [requests EXCEPT ![h] = NoRequest]
Stage(h, s) == requests' = [requests EXCEPT ![h].stage = s]

Login(u) == [kind |-> "login", stage |-> "open", me |-> u, about |-> u, banned |-> FALSE]
Without(f, t) == [x \in DOMAIN f \ {t} |-> f[x]]

\* The ban's update locks the row it changed until the transaction ends.
Locked(u) == \E h \in Handlers : At(h, "ban", "log") /\ requests[h].about = u

\* The standing of u after the admin actions so far.
Standing(u) ==
    LET about == {i \in 1..Len(log) : log[i].target = u}
    IN  IF about = {} THEN "active"
        ELSE BanStatus(log[CHOOSE i \in about : \A j \in about : j <= i].banned)

----------------------------------------------------------------------------
\* Mutant: only the role is checked.
MayActByRole(k, u) == k = "ban" => users[u].role = "admin"

\* isActive and requireAdmin, on the user that getSessionUser read.
MayAct(k, u) ==
    /\ k \in Guarded => users[u].status = "active"
    /\ k = "ban" => users[u].role = "admin"

\* Whom a request of me names: nobody else, a handle, or an id it was given.
Named(k, me) ==
    CASE k = "ticket" -> {me}
      [] k = "friend" -> Users
      [] OTHER -> DOMAIN users

\* A request comes in and the user of its cookie is read; one without a session
\* or that may not act is refused and changes nothing.  Of a ban only the target is
\* kept: who did it is left out of the log.
Authenticate(h, k, t, u, x) ==
    /\ requests[h] = NoRequest
    /\ t \in DOMAIN sessions
    /\ MayAct(k, sessions[t])
    /\ u \in Named(k, sessions[t])
    /\ k # "ban" => x
    /\ k = "ban" => Len(log) + Cardinality({g \in Handlers : At(g, "ban", "act") \/ At(g, "ban", "log")})
                      < MaxActions
    /\ requests' = [requests EXCEPT ![h] =
         [kind |-> k, stage |-> "act", me |-> IF k = "ban" THEN u ELSE sessions[t], about |-> u, banned |-> x]]
    /\ UNCHANGED <<rows, tickets, asked>>

\* A development login, up to its first await.
UpsertDevUser(h, u) ==
    /\ requests[h] = NoRequest
    /\ ~Locked(u)
    /\ users' = Put(users, u, DevUser(users, u))
    /\ requests' = [requests EXCEPT ![h] = Login(u)]
    /\ UNCHANGED <<sessions, friendships, log, tickets, asked>>

\* The token is random; the browser may hold others that still work.
CreateSession(h, t) ==
    /\ At(h, "login", "open")
    /\ t \notin DOMAIN sessions
    /\ sessions' = Put(sessions, t, requests[h].about)
    /\ Answer(h)
    /\ UNCHANGED <<users, friendships, log, tickets, asked>>

\* A logout, whoever the token is of, or the end of its fourteen days.
DeleteSession(t) ==
    /\ t \in DOMAIN sessions
    /\ sessions' = Without(sessions, t)
    /\ UNCHANGED <<users, friendships, log, requests, tickets, asked>>

Askable(r) == r.about \in DOMAIN users /\ r.me # r.about

\* One upsert on the unordered pair.
RequestFriend(h) ==
    LET r == requests[h]
    IN  /\ At(h, "friend", "act")
        /\ Askable(r)
        /\ friendships' = Put(friendships, {r.me, r.about}, Requested(friendships, r.me, r.about))
        /\ asked' = asked \cup {<<r.me, r.about>>}
        /\ Answer(h)
        /\ UNCHANGED <<users, sessions, log, tickets>>

\* The id is that of the row of the two, pending or accepted.
Acceptable(r) ==
    /\ {r.me, r.about} \in DOMAIN friendships
    /\ friendships[{r.me, r.about}].addressee = r.me

AcceptFriend(h) ==
    LET r == requests[h]
    IN  /\ At(h, "accept", "act")
        /\ Acceptable(r)
        /\ friendships' = [friendships EXCEPT ![{r.me, r.about}].status = "accepted"]
        /\ asked' = asked \cup {<<r.me, r.about>>}
        /\ Answer(h)
        /\ UNCHANGED <<users, sessions, log, tickets>>

FriendFails(h) ==
    /\ \/ At(h, "friend", "act") /\ ~Askable(requests[h])
       \/ At(h, "accept", "act") /\ ~Acceptable(requests[h])
    /\ Answer(h)
    /\ UNCHANGED <<rows, tickets, asked>>

\* The update of the target; nobody sees it before the commit.
BanUpdate(h) ==
    /\ At(h, "ban", "act")
    /\ ~Locked(requests[h].about)
    /\ Stage(h, "log")
    /\ UNCHANGED <<rows, tickets, asked>>

BanCommit(h) ==
    LET r == requests[h]
    IN  /\ At(h, "ban", "log")
        /\ users' = [users EXCEPT ![r.about].status = BanStatus(r.banned)]
        /\ log' = Append(log, [target |-> r.about, banned |-> r.banned])
        /\ Answer(h)
        /\ UNCHANGED <<sessions, friendships, tickets, asked>>

\* Mutant: the update is not in the transaction of the entry.
BanHalfDone(h) ==
    /\ At(h, "ban", "log")
    /\ users' = [users EXCEPT ![requests[h].about].status = BanStatus(requests[h].banned)]
    /\ Answer(h)
    /\ UNCHANGED <<sessions, friendships, log, tickets, asked>>

\* The id names nobody, a statement fails, or the connection is lost.
BanRollsBack(h) ==
    /\ At(h, "ban", "act") \/ At(h, "ban", "log")
    /\ Answer(h)
    /\ UNCHANGED <<rows, tickets, asked>>

\* The insert of the ticket's row, whatever has happened to the user since the
\* route read them.
CreateWsTicket(h, k) ==
    /\ At(h, "ticket", "act")
    /\ k \notin DOMAIN tickets
    /\ tickets' = Put(tickets, k, [user |-> requests[h].me, state |-> "stored"])
    /\ Answer(h)
    /\ UNCHANGED <<rows, asked>>

Stored(k) == k \in DOMAIN tickets /\ tickets[k].state = "stored"

\* Mutant: the standing is that of the route that gave the ticket out.
ConsumeUnchecked(k) ==
    /\ Stored(k)
    /\ tickets' = [tickets EXCEPT ![k].state = "admitted"]
    /\ UNCHANGED <<rows, requests, asked>>

\* A socket brings the ticket: one statement deletes the row and returns its
\* user if the row of the user, as committed, is active.
ConsumeWsTicket(k) ==
    /\ Stored(k)
    /\ tickets' = IF users[tickets[k].user].status = "active"
                  THEN [tickets EXCEPT ![k].state = "admitted"]
                  ELSE Without(tickets, k)
    /\ UNCHANGED <<rows, requests, asked>>

\* The thirty seconds of a ticket are over, or the socket it let in is closed.
WsTicketEnds(k) ==
    /\ k \in DOMAIN tickets
    /\ tickets' = Without(tickets, k)
    /\ UNCHANGED <<rows, requests, asked>>

\* user:set-role of the database command.
SetUserRole(u, r) ==
    /\ u \in DOMAIN users
    /\ ~Locked(u)
    /\ users' = [users EXCEPT ![u].role = r]
    /\ UNCHANGED <<sessions, friendships, log, requests, tickets, asked>>

Next ==
    \/ \E h \in Handlers :
         \/ \E k \in Routes, t \in Tokens, u \in Users, x \in BOOLEAN : Authenticate(h, k, t, u, x)
         \/ \E u \in Users : UpsertDevUser(h, u)
         \/ \E t \in Tokens : CreateSession(h, t)
         \/ RequestFriend(h)
         \/ AcceptFriend(h)
         \/ FriendFails(h)
         \/ BanUpdate(h)
         \/ BanCommit(h)
         \/ BanRollsBack(h)
         \/ \E k \in Tickets : CreateWsTicket(h, k)
    \/ \E k \in Tickets : ConsumeWsTicket(k) \/ WsTicketEnds(k)
    \/ \E t \in Tokens : DeleteSession(t)
    \/ \E u \in Users, r \in Roles : SetUserRole(u, r)

Spec == Init /\ [][Next]_vars

----------------------------------------------------------------------------
\* Two users are friends when each asked or accepted the other, whichever of
\* their requests and answers overtook which, and a single row says so.
FriendsBothAsked ==
    \A u, v \in Users :
        u # v => /\ {u, v} \in DOMAIN friendships <=> {<<u, v>>, <<v, u>>} \cap asked # {}
                 /\ {u, v} \in DOMAIN friendships =>
                      (friendships[{u, v}].status = "accepted" <=> {<<u, v>>, <<v, u>>} \subseteq asked)

\* The standing of a user is what the newest admin action about them says,
\* whichever bans overlap and whichever of them fail half way.
StatusAsLogged == \A u \in DOMAIN users : users[u].status = Standing(u)

\* Whoever a ticket lets in is in good standing by the admin actions committed
\* by then.  The route that gave the ticket out had read the user earlier: bans
\* commit between its check and its insert, and before the socket comes.
AdmittedActive ==
    [][\A k \in Tickets :
         Stored(k) /\ k \in DOMAIN tickets' /\ tickets'[k].state = "admitted" =>
           Standing(tickets[k].user) = "active"]_vars

\* The statements and transactions add up to the methods of the memory
\* repository, run one at a time.
Memory == INSTANCE MemoryAccounts
              WITH users <- users, sessions <- sessions, friendships <- friendships, log <- log
ImplementsMemory == Memory!Spec

=============================================================================
