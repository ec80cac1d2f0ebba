------------------------------- MODULE GameHub -------------------------------
(***************************************************************************)
(* The class GameHub (apps/api/src/gameHub.ts): connections, matchmaking   *)
(* queue, rooms, reconnection, tournament seats, result finalization and   *)
(* drain.  Every handler that runs without an await is one action; every   *)
(* await splits its handler into one action before and one after it, with  *)
(* the pending call kept in a variable.                                    *)
(*                                                                         *)
(* Time is relative: the deadline of a session and the queuedAt of a       *)
(* player are counted from the present instant, and Tick moves them        *)
(* towards the past.  A deadline of -1 stands for every instant after it.  *)
(***************************************************************************)
EXTENDS RoomSessionOps, MatchmakerOps, FiniteSets

CONSTANTS
    Conns,              \* connections (Client objects); one is reused only
                        \* when nothing in the hub refers to it any more
    UserOf,             \* client.user
    RoomIds,            \* rooms, reused in the same way
    TMatches,           \* tournament matches the database knows
    TPlayers,           \* leftUserId and rightUserId of each of them
    Inputs,             \* the optional inputs an instance is given
    CreateRoomMayFail,  \* whether the roomCreated observer may throw
    MaxStaleLookups,    \* bound: unanswered NPC queries of former queue entries
    MaxJoins,           \* bound: tournament joins in flight
    NoConn, NoRoom, NoMatch

ASSUME GameHubAssumption ==
    /\ UserOf \in [Conns -> Users]
    /\ TPlayers \in [TMatches -> [Sides -> Users]]
    /\ Inputs \subseteq {"queue", "ai", "leave", "pause", "tournament", "drain"}
    /\ CreateRoomMayFail \in BOOLEAN
    /\ MaxStaleLookups \in Nat /\ MaxJoins \in Nat
    /\ NoConn \notin Conns /\ NoRoom \notin RoomIds /\ NoMatch \notin TMatches

VARIABLES
    socket,         \* readyState of a connection: "open", "closing" (closed,
                    \* the close event still to come) or "gone", which is no
                    \* longer in this.clients
    roomOf,         \* client.roomId
    byUser,         \* clientsByUser
    entries,        \* queueEntries: the connection of the user's entry
    fallback,       \* the entry's npcFallbackTimer: "armed", "lookup" while its
                    \* NPC query is unanswered, "off"
    staleLookups,   \* unanswered NPC queries of entries that were removed since
    mm,             \* matchmaker
    live,           \* the keys of this.rooms
    rooms,          \* the Room objects
    scheduled,      \* the rooms registered with the scheduler
    waiters,        \* tournamentWaiters
    joins,          \* joinTournamentMatch calls in their getTournamentMatch
    starts,         \* joinTournamentMatch calls in their startTournamentMatch
    tstatus,        \* tournament_matches.status in the database
    accepting,      \* acceptingMatches
    drain           \* "serving", "waiting" (drainWaiter), the DrainResult
                    \* "drained" or "timedOut", or "closed"

connVars  == <<socket, roomOf, byUser>>
queueVars == <<entries, fallback, staleLookups, mm>>
roomVars  == <<live, rooms, scheduled>>
tourVars  == <<waiters, joins, starts, tstatus>>
hubVars   == <<accepting, drain>>
vars      == <<connVars, queueVars, roomVars, tourVars, hubVars>>

-----------------------------------------------------------------------------
(* Rooms *)

\* seats: room.clients; away: the keys of disconnectedUsers (the user recorded
\* there is always the user of the seat); calls counts finalizeMatch calls.
Room == [seats      : [Sides -> Conns \cup {NoConn}],
         ai         : BOOLEAN,
         guest      : BOOLEAN,
         tournament : TMatches \cup {NoMatch},
         ready      : SUBSET Sides,
         phase      : {"waiting", "playing", "paused", "finished"},
         session    : Session,
         away       : SUBSET Sides,
         timer      : BOOLEAN,
         finishing  : BOOLEAN,
         calls      : Nat]

\* createRoom with right = null is a room against the AI or an NPC.
NewRoom(left, right, match) ==
    [seats      |-> [side \in Sides |-> IF side = "left" THEN left ELSE right],
     ai         |-> right = NoConn,
     guest      |-> UserOf[left] \in Guests,
     tournament |-> match,
     ready      |-> {},
     phase      |-> "waiting",
     session    |-> IF right = NoConn THEN SessionMarkReady(NewSession, "right")
                                      ELSE NewSession,
     away       |-> {},
     timer      |-> FALSE,
     finishing  |-> FALSE,
     calls      |-> 0]

\* The value of a room id nothing uses.
UnusedRoom ==
    [seats |-> [side \in Sides |-> NoConn], ai |-> FALSE, guest |-> FALSE,
     tournament |-> NoMatch, ready |-> {}, phase |-> "finished",
     session |-> SessionFinish(NewSession), away |-> {}, timer |-> FALSE,
     finishing |-> FALSE, calls |-> 0]

Seated(rm) == {rm.seats[side] : side \in Sides} \ {NoConn}
SeatedUsers(rm) == {UserOf[c] : c \in Seated(rm)}

\* sideFor(room, client), as the set of the sides it can answer.
SidesOf(rm, c) == {side \in Sides : rm.seats[side] = c}

Playing(rm) == rm.session.state = "playing"

\* markReady
ReadyRoom(rm, side) ==
    LET ready   == rm.ready \cup {side} \cup (IF rm.ai THEN {"right"} ELSE {})
        session == SessionMarkReady(rm.session, side)
        starting == ready = Sides /\ session.state = "playing"
    IN  [rm EXCEPT !.ready = ready, !.session = session,
                   !.phase = IF starting THEN "playing" ELSE @]

\* reserveRoomSide, with armReconnectTimer
ReservedRoom(rm, side) ==
    IF rm.finishing \/ rm.session.state = "finished" THEN rm
    ELSE [rm EXCEPT !.session = SessionDisconnect(@, side, 0),
                    !.away    = @ \cup {side},
                    !.phase   = "paused",
                    !.timer   = TRUE]

\* Mutants: the recovered connection does not take the seat; the first recovery
\* of two stops the timer of the other side.
RecoveredRoomNoSeat(rm, side, c) ==
    LET session == SessionReconnect(rm.session, side)
        whole   == session.state # "reconnecting"
    IN  [rm EXCEPT !.away = @ \ {side}, !.session = session,
                   !.timer = IF whole THEN FALSE ELSE @,
                   !.phase = IF whole THEN session.state ELSE @]
RecoveredRoomNoTimer(rm, side, c) ==
    LET session == SessionReconnect(rm.session, side)
        whole   == session.state # "reconnecting"
    IN  [rm EXCEPT !.seats[side] = c, !.away = @ \ {side}, !.session = session,
                   !.timer = FALSE,
                   !.phase = IF whole THEN session.state ELSE @]

\* The room part of recoverConnection.
RecoveredRoom(rm, side, c) ==
    LET session == SessionReconnect(rm.session, side)
        whole   == session.state # "reconnecting"
    IN  [rm EXCEPT !.seats[side] = c,
                   !.away    = @ \ {side},
                   !.session = session,
                   !.timer   = IF whole THEN FALSE ELSE @,
                   !.phase   = IF whole THEN session.state ELSE @]

\* Mutant: the session is not finished with the room.
FinishedRoomOpenSession(rm) ==
    [rm EXCEPT !.timer = FALSE, !.away = {}, !.phase = "finished",
               !.finishing = TRUE, !.calls = @ + 1]

\* finalizeRoom up to its await.
FinishedRoom(rm) ==
    [rm EXCEPT !.timer = FALSE, !.away = {}, !.session = SessionFinish(@),
               !.phase = "finished", !.finishing = TRUE, !.calls = @ + 1]

\* Mutant: a timer that fired early is not armed again.
TimerSpentRoom(rm) == [rm EXCEPT !.timer = FALSE]

\* armReconnectTimer, in expireReconnect
RearmedRoom(rm) == [rm EXCEPT !.timer = rm.session.deadline # {}]

\* One instant passes for a room.
AgedRoom(rm) ==
    [rm EXCEPT !.session.deadline = {IF d < 0 THEN d ELSE d - 1 : d \in @}]

-----------------------------------------------------------------------------
(* Effects shared by several handlers *)

Registered == {c \in Conns : socket[c] # "gone"}

\* Connection c holds this side of the room its roomId names.
Holds(c, r, side) == r \in live /\ roomOf[c] = r /\ rooms[r].seats[side] = c
HasSeat(c) == \E r \in RoomIds, side \in Sides : Holds(c, r, side)

DeadEntries == {u \in Users : entries[u] # NoConn /\ socket[entries[u]] # "open"}
Entered == {u \in Users : entries[u] # NoConn}

\* Mutant: a claimed player is not released.
MmAfterLeavingKeepsClaim(U) == Left(mm, U)

\* leaveQueue() for the connections of the users U.
MmAfterLeaving(U) ==
    LET gone == {u \in U : mm.status[u] = "queued"}
        held == {u \in U : mm.status[u] = "matched" /\ entries[u] # NoConn}
    IN  Released(Left(mm, gone), held)

EntriesAfterLeaving(U) == [u \in Users |-> IF u \in U THEN NoConn ELSE entries[u]]

FallbackAfterLeaving(U) == [u \in Users |-> IF u \in U THEN "off" ELSE fallback[u]]

\* An NPC query in flight outlives the entry it was made for.
StaleAfterLeaving(U) ==
    [u \in Users |-> IF u \in U /\ fallback[u] = "lookup"
                     THEN staleLookups[u] + 1 ELSE staleLookups[u]]

DropEntries(U) ==
    /\ entries' = EntriesAfterLeaving(U)
    /\ fallback' = FallbackAfterLeaving(U)
    /\ staleLookups' = StaleAfterLeaving(U)

LeaveQueues(U) == mm' = MmAfterLeaving(U) /\ DropEntries(U)

\* The entry of u is deleted by its own NPC query or timer.
ConsumeEntry(u) ==
    /\ entries' = [entries EXCEPT ![u] = NoConn]
    /\ fallback' = [fallback EXCEPT ![u] = "off"]
    /\ UNCHANGED staleLookups

LeaveWaiters(c) == waiters' = [m \in TMatches |-> waiters[m] \ {c}]

\* notifyDrainProgress, when `remaining` rooms are left.
DrainAfter(remaining) ==
    IF drain = "waiting" /\ remaining = {} THEN "drained" ELSE drain

\* An id nothing refers to any more, which randomUUID() may stand for.
FreeRoom(r) ==
    /\ r \notin live /\ ~rooms[r].finishing
    /\ \A c \in Conns : roomOf[c] # r
    /\ \A s \in starts : s.room # r

FreeConn(c) ==
    /\ socket[c] = "gone"
    /\ \A r \in RoomIds : c \notin Seated(rooms[r])
    /\ \A m \in TMatches : c \notin waiters[m]
    /\ \A j \in joins : j.conn # c

\* createRoom
CreateRoom(r, left, right, match) ==
    /\ FreeRoom(r)
    /\ live' = live \cup {r}
    /\ rooms' = [rooms EXCEPT ![r] = NewRoom(left, right, match)]
    /\ roomOf' = [c \in Conns |-> IF c \in {left, right} THEN r ELSE roomOf[c]]
    /\ UNCHANGED <<scheduled, socket, byUser, accepting, drain>>

\* createRoom when the observer throws: the room is taken back before any
\* connection was told of it.
CreateRoomFails ==
    /\ CreateRoomMayFail
    /\ drain' = DrainAfter(live)
    /\ UNCHANGED <<connVars, roomVars, accepting>>

\* removeFinishedRoom and abandonRoom.  The record of a room whose
\* finalizeMatch is still unanswered stays until the answer.
RemoveRoom(r, rm) ==
    /\ mm' = Released(mm, SeatedUsers(rm))
    /\ roomOf' = [c \in Conns |-> IF c \in Seated(rm) THEN NoRoom ELSE roomOf[c]]
    /\ live' = live \ {r}
    /\ rooms' = [rooms EXCEPT ![r] = IF rm.finishing THEN rm ELSE UnusedRoom]
    /\ scheduled' = scheduled \ {r}
    /\ drain' = DrainAfter(live \ {r})

\* finishRoom: a guest room is removed at once, any other calls finalizeMatch.
FinishRoom(r, rm) ==
    IF rm.guest THEN RemoveRoom(r, [FinishedRoom(rm) EXCEPT !.finishing = FALSE])
    ELSE /\ rooms' = [rooms EXCEPT ![r] = FinishedRoom(rm)]
         /\ scheduled' = scheduled \ {r}
         /\ UNCHANGED <<mm, roomOf, live, drain>>

-----------------------------------------------------------------------------
(* Connections *)

Init ==
    /\ socket = [c \in Conns |-> "gone"]
    /\ roomOf = [c \in Conns |-> NoRoom]
    /\ byUser = [u \in Users |-> NoConn]
    /\ entries = [u \in Users |-> NoConn]
    /\ fallback = [u \in Users |-> "off"]
    /\ staleLookups = [u \in Users |-> 0]
    /\ mm = NewMatchmaker
    /\ live = {}
    /\ rooms = [r \in RoomIds |-> UnusedRoom]
    /\ scheduled = {}
    /\ waiters = [m \in TMatches |-> {}]
    /\ joins = {}
    /\ starts = {}
    /\ tstatus = [m \in TMatches |-> "ready"]
    /\ accepting = TRUE
    /\ drain = "serving"

\* The replaced connection leaves this.clients before its close event comes,
\* which finds it gone.
SocketsReplaced(previous, c) == [socket EXCEPT ![c] = "open", ![previous] = "gone"]

\* connect() when the user already has a connection: replaceConnection.
ConnectReplacing(c) ==
    LET u == UserOf[c]
        previous == byUser[u]
    IN  /\ drain # "closed" /\ FreeConn(c) /\ previous # NoConn
        /\ socket' = SocketsReplaced(previous, c)
        /\ byUser' = [byUser EXCEPT ![u] = c]
        /\ LeaveQueues({u})
        /\ LeaveWaiters(previous)
        /\ \/ \E r \in RoomIds, side \in Sides :
                 /\ Holds(previous, r, side)
                 /\ rooms' = [rooms EXCEPT ![r].seats[side] = c]
                 /\ roomOf' = [roomOf EXCEPT ![c] = r, ![previous] = NoRoom]
           \/ /\ ~HasSeat(previous)
              /\ roomOf' = [roomOf EXCEPT ![c] = NoRoom]
              /\ UNCHANGED rooms
        /\ UNCHANGED <<live, scheduled, joins, starts, tstatus, hubVars>>

\* recoverConnection may give this seat back to user u.
Recoverable(u, r, side) ==
    /\ r \in live /\ side \in rooms[r].away
    /\ UserOf[rooms[r].seats[side]] = u
    /\ SessionReconnects(rooms[r].session, side, 0)

\* connect() when a reserved seat is recovered.  The code takes the oldest room
\* where the model takes any; only a user with two open seats can tell.
ConnectRecovering(c) ==
    LET u == UserOf[c] IN
    /\ drain # "closed" /\ FreeConn(c) /\ byUser[u] = NoConn
    /\ \E r \in RoomIds, side \in Sides :
          LET lost == rooms[r].seats[side]
              rm   == RecoveredRoom(rooms[r], side, c)
          IN  /\ Recoverable(u, r, side)
              /\ rooms' = [rooms EXCEPT ![r] = rm]
              /\ roomOf' = [roomOf EXCEPT ![lost] = NoRoom, ![c] = r]
              /\ scheduled' = IF Playing(rm) THEN scheduled \cup {r} ELSE scheduled
    /\ socket' = [socket EXCEPT ![c] = "open"]
    /\ byUser' = [byUser EXCEPT ![u] = c]
    /\ UNCHANGED <<queueVars, live, tourVars, hubVars>>

\* connect() of a user who has neither a connection nor a reserved seat.
ConnectFresh(c) ==
    LET u == UserOf[c] IN
    /\ drain # "closed" /\ FreeConn(c) /\ byUser[u] = NoConn
    /\ \A r \in RoomIds, side \in Sides : ~Recoverable(u, r, side)
    /\ socket' = [socket EXCEPT ![c] = "open"]
    /\ roomOf' = [roomOf EXCEPT ![c] = NoRoom]
    /\ byUser' = [byUser EXCEPT ![u] = c]
    /\ UNCHANGED <<queueVars, roomVars, tourVars, hubVars>>

\* The socket leaves the OPEN state: the peer goes away, the heartbeat or the
\* congestion limit terminates it.  The hub learns of it in Disconnect.
SocketCloses(c) ==
    /\ socket[c] = "open"
    /\ socket' = [socket EXCEPT ![c] = "closing"]
    /\ UNCHANGED <<roomOf, byUser, queueVars, roomVars, tourVars, hubVars>>

\* disconnect(), with reserveRoomSide for a seat in a room.
Disconnect(c) ==
    LET u == UserOf[c] IN
    /\ socket[c] = "closing"
    /\ socket' = [socket EXCEPT ![c] = "gone"]
    /\ byUser' = IF byUser[u] = c THEN [byUser EXCEPT ![u] = NoConn] ELSE byUser
    /\ LeaveQueues({u})
    /\ LeaveWaiters(c)
    /\ \/ \E r \in RoomIds, side \in Sides :
             LET rm == ReservedRoom(rooms[r], side)
             IN  /\ Holds(c, r, side)
                 /\ rooms' = [rooms EXCEPT ![r] = rm]
                 /\ scheduled' = IF rm = rooms[r] THEN scheduled ELSE scheduled \ {r}
       \/ ~HasSeat(c) /\ UNCHANGED <<rooms, scheduled>>
    /\ UNCHANGED <<roomOf, live, joins, starts, tstatus, hubVars>>

-----------------------------------------------------------------------------
(* The queue *)

\* Mutants: the room of the connection, or the drain, is not asked.
MayJoinFromRoom(c) == c \in Registered /\ accepting
MayJoinInDrain(c) == c \in Registered /\ roomOf[c] = NoRoom

MayJoin(c) == c \in Registered /\ accepting /\ roomOf[c] = NoRoom

\* joinQueue(client, "queue") when the matchmaker queues the player, or answers
\* "duplicate" and only the pruning of dead entries is left.
QueueJoinWaits(c) ==
    LET u == UserOf[c]
        m == MmAfterLeaving(DeadEntries)
    IN  /\ "queue" \in Inputs /\ MayJoin(c)
        /\ \/ /\ m.status[u] # "none"
              /\ LeaveQueues(DeadEntries)
           \/ /\ m.status[u] = "none" /\ Opponents(m, u) = {}
              /\ mm' = Enqueued(m, u, 0)
              /\ entries' = [EntriesAfterLeaving(DeadEntries) EXCEPT ![u] = c]
              /\ fallback' = [FallbackAfterLeaving(DeadEntries) EXCEPT ![u] = "armed"]
              /\ staleLookups' = StaleAfterLeaving(DeadEntries \cup {u})
        /\ UNCHANGED <<connVars, roomVars, tourVars, hubVars>>

\* joinQueue(client, "queue") when the matchmaker pairs the player with a
\* waiting one, whose entry is consumed for the new room.
QueueJoinMatches(c) ==
    LET u == UserOf[c]
        m == MmAfterLeaving(DeadEntries)
    IN  /\ "queue" \in Inputs /\ MayJoin(c)
        /\ m.status[u] = "none"
        /\ \E v \in m.queue :
              LET opponent == EntriesAfterLeaving(DeadEntries)[v] IN
              /\ IsClosest(m, u, v)
              /\ DropEntries(DeadEntries \cup {v})
              /\ \/ /\ opponent # NoConn
                    /\ mm' = Paired(m, u, v)
                    /\ \E r \in RoomIds : CreateRoom(r, opponent, c, NoMatch)
                 \/ /\ opponent # NoConn => CreateRoomMayFail
                    /\ mm' = Released(m, {u, v})
                    /\ UNCHANGED <<connVars, roomVars, accepting>>
                    /\ drain' = IF opponent = NoConn THEN drain ELSE DrainAfter(live)
        /\ UNCHANGED tourVars

\* joinQueue(client, "ai")
QueueJoinAi(c) ==
    /\ "ai" \in Inputs /\ MayJoin(c)
    /\ LeaveQueues(DeadEntries \cup {UserOf[c]})
    /\ \/ \E r \in RoomIds : CreateRoom(r, c, NoConn, NoMatch)
       \/ CreateRoomFails
    /\ UNCHANGED tourVars

\* queue.leave
QueueLeave(c) ==
    /\ "leave" \in Inputs /\ c \in Registered
    /\ LeaveQueues({UserOf[c]})
    /\ UNCHANGED <<connVars, roomVars, tourVars, hubVars>>

\* Mutant: a timer that fires too early drops the entry as an unknown one.
FallbackDropsEarly(u) ==
    LET c == entries[u]
        busy == socket[c] # "open" \/ roomOf[c] # NoRoom
    IN  /\ fallback[u] = "armed"
        /\ \/ busy /\ LeaveQueues({u})
           \/ /\ ~busy /\ ClaimAnswer(mm, u, 0) # "ready"
              /\ ConsumeEntry(u)
              /\ UNCHANGED mm
        /\ UNCHANGED <<connVars, roomVars, tourVars, hubVars>>

\* matchQueuedClientWithNpc when the timer finds an entry it cannot serve: the
\* connection is not open or already in a room (leaveQueue), or the matchmaker
\* knows no such queued player (the entry is dropped).
FallbackDrops(u) ==
    LET c == entries[u]
        busy == socket[c] # "open" \/ roomOf[c] # NoRoom
    IN  /\ fallback[u] = "armed"
        /\ \/ busy /\ LeaveQueues({u})
           \/ /\ ~busy /\ ClaimAnswer(mm, u, 0) = "unavailable"
              /\ ConsumeEntry(u)
              /\ UNCHANGED mm
        /\ UNCHANGED <<connVars, roomVars, tourVars, hubVars>>

FallbackReady(u) ==
    /\ fallback[u] = "armed"
    /\ socket[entries[u]] = "open" /\ roomOf[entries[u]] = NoRoom
    /\ ClaimAnswer(mm, u, 0) = "ready"

\* The timer of a registered user claims the player and asks for the NPCs.
FallbackAsksNpc(u) ==
    /\ FallbackReady(u) /\ u \notin Guests
    /\ staleLookups[u] < MaxStaleLookups
    /\ mm' = Claimed(mm, u)
    /\ fallback' = [fallback EXCEPT ![u] = "lookup"]
    /\ UNCHANGED <<connVars, entries, staleLookups, roomVars, tourVars, hubVars>>

\* The timer of a guest makes the room against the AI in the same turn.
FallbackGuestRoom(u) ==
    /\ FallbackReady(u) /\ u \in Guests /\ accepting
    /\ ConsumeEntry(u)
    /\ \/ /\ mm' = Claimed(mm, u)
          /\ \E r \in RoomIds : CreateRoom(r, entries[u], NoConn, NoMatch)
       \/ /\ mm' = Released(mm, {u})
          /\ CreateRoomFails
    /\ UNCHANGED tourVars

\* The NPC query of the current entry is answered with an NPC.
NpcFound(u) ==
    LET c == entries[u] IN
    /\ fallback[u] = "lookup"
    /\ IF ~accepting \/ socket[c] # "open" \/ roomOf[c] # NoRoom
       THEN /\ mm' = Released(mm, {u})
            /\ fallback' = [fallback EXCEPT ![u] = "off"]
            /\ UNCHANGED <<connVars, entries, staleLookups, roomVars, hubVars>>
       ELSE /\ ConsumeEntry(u)
            /\ \/ /\ UNCHANGED mm
                  /\ \E r \in RoomIds : CreateRoom(r, c, NoConn, NoMatch)
               \/ /\ mm' = Released(mm, {u})
                  /\ CreateRoomFails
    /\ UNCHANGED tourVars

\* The NPC query of the current entry fails, or finds no NPC for a connection
\* that could still play.
NpcMissing(u) ==
    /\ fallback[u] = "lookup"
    /\ ConsumeEntry(u)
    /\ mm' = Released(mm, {u})
    /\ UNCHANGED <<connVars, roomVars, tourVars, hubVars>>

\* An NPC query is answered after its entry was removed: the reservation of the
\* user is released, whatever the user did since.
StaleLookupReturns(u) ==
    /\ staleLookups[u] > 0
    /\ staleLookups' = [staleLookups EXCEPT ![u] = @ - 1]
    /\ mm' = Released(mm, {u})
    /\ UNCHANGED <<connVars, entries, fallback, roomVars, tourVars, hubVars>>

-----------------------------------------------------------------------------
(* Tournament seats *)

\* joinTournamentMatch up to getTournamentMatch.
TournamentJoin(c, m) ==
    /\ "tournament" \in Inputs
    /\ c \in Registered /\ accepting /\ UserOf[c] \notin Guests
    /\ Cardinality(joins) < MaxJoins
    /\ LeaveQueues({UserOf[c]})
    /\ LeaveWaiters(c)
    /\ joins' = joins \cup {[conn |-> c, match |-> m, row |-> "unread"]}
    /\ UNCHANGED <<connVars, roomVars, starts, tstatus, hubVars>>

\* The database reads the row of the match.
TournamentRead(j) ==
    /\ j.row = "unread"
    /\ joins' = (joins \ {j}) \cup {[j EXCEPT !.row = tstatus[j.match]]}
    /\ UNCHANGED <<connVars, queueVars, roomVars, waiters, starts, tstatus, hubVars>>

\* The connection of the bracket's left player, whoever of the two came first.
LeftOf(m, c, w) == IF UserOf[c] = TPlayers[m]["left"] THEN c ELSE w

\* The user waits already, perhaps with another connection.
AlreadyWaits(c, m) == \E w \in waiters[m] : UserOf[w] = UserOf[c]

\* Mutant: a waiter whose socket is closing is passed over, and stays.
WaitingOpponentsOpen(m) ==
    {w \in waiters[m] : socket[w] = "open" /\ \E side \in Sides : UserOf[w] = TPlayers[m][side]}

\* The waiting players of the match.
WaitingOpponents(m) ==
    {w \in waiters[m] : \E side \in Sides : UserOf[w] = TPlayers[m][side]}

\* joinTournamentMatch after getTournamentMatch: refused, registered as the
\* first of the match, or seated with the waiting opponent.
TournamentSeats(j) ==
    LET c == j.conn
        m == j.match
        u == UserOf[c]
        players == {TPlayers[m][side] : side \in Sides}
        welcome == /\ j.row = "ready" /\ u \in players /\ roomOf[c] = NoRoom
                   /\ ~AlreadyWaits(c, m)
        opponents == WaitingOpponents(m)
    IN  /\ j.row # "unread"
        /\ joins' = joins \ {j}
        /\ \/ /\ ~welcome
              /\ UNCHANGED <<connVars, roomVars, waiters, starts, hubVars>>
           \/ /\ welcome /\ opponents = {}
              /\ waiters' = [waiters EXCEPT ![m] = @ \cup {c}]
              /\ UNCHANGED <<connVars, roomVars, starts, hubVars>>
           \/ /\ welcome
              /\ waiters' = [waiters EXCEPT ![m] = {}]
              /\ \E w \in opponents, r \in RoomIds :
                    /\ LET left == LeftOf(m, c, w)
                       IN  CreateRoom(r, left, IF left = c THEN w ELSE c, m)
                    /\ starts' = starts \cup {[match |-> m, room |-> r]}
           \/ /\ welcome /\ opponents # {}
              /\ waiters' = [waiters EXCEPT ![m] = {}]
              /\ CreateRoomFails
              /\ UNCHANGED starts
        /\ UNCHANGED <<queueVars, tstatus>>

\* The update of startTournamentMatch.
MarkRunning(m) ==
    /\ tstatus[m] \in {"ready", "running"}
    /\ tstatus' = [tstatus EXCEPT ![m] = "running"]

\* startTournamentMatch marks the row.
StartSucceeds(s) ==
    /\ MarkRunning(s.match)
    /\ starts' = starts \ {s}
    /\ UNCHANGED <<connVars, queueVars, roomVars, waiters, joins, hubVars>>

\* startTournamentMatch fails, by its condition or by a database error, which
\* may hide that the update was made: the room is abandoned if it is still
\* there.
StartFails(s) ==
    /\ starts' = starts \ {s}
    /\ UNCHANGED tstatus \/ MarkRunning(s.match)
    /\ IF s.room \in live
       THEN RemoveRoom(s.room, [rooms[s.room] EXCEPT !.timer = FALSE])
       ELSE UNCHANGED <<mm, roomOf, roomVars, drain>>
    /\ UNCHANGED <<socket, byUser, entries, fallback, staleLookups,
                   waiters, joins, accepting>>

-----------------------------------------------------------------------------
(* Play *)

\* game.ready
Ready(c, r) ==
    /\ c \in Registered /\ r \in live
    /\ \E side \in SidesOf(rooms[r], c) :
          LET rm == ReadyRoom(rooms[r], side)
          IN  /\ rooms' = [rooms EXCEPT ![r] = rm]
              /\ scheduled' = IF rm.ready = Sides /\ Playing(rm)
                              THEN scheduled \cup {r} ELSE scheduled
    /\ UNCHANGED <<connVars, queueVars, live, tourVars, hubVars>>

\* game.pause
Pause(c, r) ==
    /\ "pause" \in Inputs /\ c \in Registered /\ r \in live
    /\ rooms[r].phase = "playing" /\ c \in Seated(rooms[r])
    /\ LET session == SessionPause(rooms[r].session)
       IN  rooms' = [rooms EXCEPT ![r].session = session,
                                  ![r].phase = IF session.state = "paused"
                                               THEN "paused" ELSE @]
    /\ scheduled' = scheduled \ {r}
    /\ UNCHANGED <<connVars, queueVars, live, tourVars, hubVars>>

\* game.resume: a room that is reconnecting shows "paused" too, and stays.
Resume(c, r) ==
    /\ "pause" \in Inputs /\ c \in Registered /\ r \in live
    /\ rooms[r].phase = "paused" /\ c \in Seated(rooms[r])
    /\ LET session == SessionResume(rooms[r].session)
       IN  /\ session.state = "playing"
           /\ rooms' = [rooms EXCEPT ![r].session = session, ![r].phase = "playing"]
    /\ scheduled' = scheduled \cup {r}
    /\ UNCHANGED <<connVars, queueVars, live, tourVars, hubVars>>

\* A tick of the simulation in which a side reaches the winning score.
GameEnds(r) ==
    /\ r \in scheduled /\ rooms[r].phase = "playing"
    /\ ~rooms[r].finishing
    /\ FinishRoom(r, rooms[r])
    /\ UNCHANGED <<socket, byUser, entries, fallback, staleLookups, tourVars, accepting>>

\* expireReconnect: nobody returned (abandonRoom), one side stayed (finishRoom)
\* or the timer, whose clock is not that of the deadline, fired early and is
\* armed anew.
ReconnectTimer(r) ==
    LET rm == rooms[r]
        over == [rm EXCEPT !.timer = FALSE, !.away = {}, !.session = SessionFinish(@)]
    IN  /\ r \in live /\ rm.timer /\ ~rm.finishing
        /\ IF SessionExpires(rm.session, 0)
           THEN IF ExpiryWinner(rm.session) = {} THEN RemoveRoom(r, over)
                                                 ELSE FinishRoom(r, over)
           ELSE /\ rooms' = [rooms EXCEPT ![r] = RearmedRoom(rm)]
                /\ UNCHANGED <<mm, roomOf, live, scheduled, drain>>
    /\ UNCHANGED <<socket, byUser, entries, fallback, staleLookups, tourVars, accepting>>

\* The transaction of finalizeMatch, for a tournament match only while that has
\* no result.
Decide(m) ==
    /\ m # NoMatch => tstatus[m] # "finished"
    /\ tstatus' = [t \in TMatches |-> IF t = m THEN "finished" ELSE tstatus[t]]

\* finalizeMatch commits: finalizeRoom goes on to removeFinishedRoom.
FinalizeSucceeds(r) ==
    /\ rooms[r].finishing
    /\ Decide(rooms[r].tournament)
    /\ RemoveRoom(r, [rooms[r] EXCEPT !.finishing = FALSE])
    /\ UNCHANGED <<socket, byUser, entries, fallback, staleLookups,
                   waiters, joins, starts, accepting>>

\* finalizeMatch rejects, as it must when the tournament match has a result,
\* and may although it committed: the reservations go, the room stays.
FinalizeFails(r) ==
    /\ rooms[r].finishing
    /\ UNCHANGED tstatus \/ Decide(rooms[r].tournament)
    /\ rooms' = [rooms EXCEPT ![r].finishing = FALSE]
    /\ mm' = Released(mm, SeatedUsers(rooms[r]))
    /\ UNCHANGED <<connVars, entries, fallback, staleLookups, live, scheduled,
                   waiters, joins, starts, hubVars>>

-----------------------------------------------------------------------------
(* Drain, close and time *)

\* beginDrain
BeginDrain ==
    /\ "drain" \in Inputs /\ drain = "serving"
    /\ accepting' = FALSE
    /\ LeaveQueues(Entered)
    /\ waiters' = [m \in TMatches |-> {}]
    /\ drain' = IF live = {} THEN "drained" ELSE "waiting"
    /\ UNCHANGED <<connVars, roomVars, joins, starts, tstatus>>

\* The drain timer.
DrainTimesOut ==
    /\ drain = "waiting"
    /\ drain' = "timedOut"
    /\ UNCHANGED <<connVars, queueVars, roomVars, tourVars, accepting>>

\* close(), which the shutdown calls once the drain has a result.
Close ==
    /\ drain \in {"drained", "timedOut"}
    /\ drain' = "closed"
    /\ accepting' = FALSE
    /\ DropEntries(Entered)
    /\ mm' = Released(MmAfterLeaving(Entered), UNION {SeatedUsers(rooms[r]) : r \in live})
    /\ waiters' = [m \in TMatches |-> {}]
    /\ scheduled' = {}
    /\ live' = {}
    /\ rooms' = [r \in RoomIds |-> IF rooms[r].finishing
                                   THEN [rooms[r] EXCEPT !.timer = FALSE] ELSE UnusedRoom]
    /\ socket' = [c \in Conns |-> "gone"]
    /\ byUser' = [u \in Users |-> NoConn]
    /\ UNCHANGED <<roomOf, joins, starts, tstatus>>

\* An instant passes for every reconnect window and every waiting player.
Tick ==
    /\ \/ \E r \in live : \E d \in rooms[r].session.deadline : d >= 0
       \/ \E u \in mm.queue : mm.queuedAt[u] > -Fallback
    /\ rooms' = [r \in RoomIds |-> AgedRoom(rooms[r])]
    /\ mm' = [mm EXCEPT !.queuedAt = [u \in Users |->
                  IF u \in mm.queue /\ @[u] > -Fallback THEN @[u] - 1 ELSE @[u]]]
    /\ UNCHANGED <<connVars, entries, fallback, staleLookups, live, scheduled,
                   tourVars, hubVars>>

Connecting(c) == ConnectReplacing(c) \/ ConnectRecovering(c) \/ ConnectFresh(c)

ClientStep(c) ==
    \/ Connecting(c) \/ SocketCloses(c) \/ Disconnect(c)
    \/ QueueJoinWaits(c) \/ QueueJoinMatches(c) \/ QueueJoinAi(c) \/ QueueLeave(c)
    \/ \E m \in TMatches : TournamentJoin(c, m)
    \/ \E r \in RoomIds : Ready(c, r) \/ Pause(c, r) \/ Resume(c, r)

QueueStep(u) ==
    \/ FallbackDrops(u) \/ FallbackAsksNpc(u) \/ FallbackGuestRoom(u)
    \/ NpcFound(u) \/ NpcMissing(u) \/ StaleLookupReturns(u)

RoomStep(r) ==
    GameEnds(r) \/ ReconnectTimer(r) \/ FinalizeSucceeds(r) \/ FinalizeFails(r)

TournamentStep ==
    \/ \E j \in joins : TournamentRead(j) \/ TournamentSeats(j)
    \/ \E s \in starts : StartSucceeds(s) \/ StartFails(s)

Next ==
    \/ \E c \in Conns : ClientStep(c)
    \/ \E u \in Users : QueueStep(u)
    \/ \E r \in RoomIds : RoomStep(r)
    \/ TournamentStep
    \/ BeginDrain
    \/ DrainTimesOut
    \/ Close
    \/ Tick

Spec == Init /\ [][Next]_vars

\* What the runtime, not a player, brings about: close events, timers, the
\* passing of time and the answers of the database.  Nothing is assumed of
\* players, of games coming to an end, or of which answer the database gives.
Fairness ==
    /\ \A c \in Conns : WF_vars(Disconnect(c))
    /\ \A u \in Users :
          /\ WF_vars(FallbackDrops(u) \/ FallbackAsksNpc(u) \/ FallbackGuestRoom(u))
          /\ WF_vars(NpcFound(u) \/ NpcMissing(u))
          /\ WF_vars(StaleLookupReturns(u))
    /\ \A r \in RoomIds :
          /\ WF_vars(ReconnectTimer(r))
          /\ WF_vars(FinalizeSucceeds(r) \/ FinalizeFails(r))
    /\ WF_vars(Tick)

FairSpec == Spec /\ Fairness

-----------------------------------------------------------------------------
(* Properties *)

TypeOK ==
    /\ socket \in [Conns -> {"open", "closing", "gone"}]
    /\ roomOf \in [Conns -> RoomIds \cup {NoRoom}]
    /\ byUser \in [Users -> Conns \cup {NoConn}]
    /\ entries \in [Users -> Conns \cup {NoConn}]
    /\ fallback \in [Users -> {"off", "armed", "lookup"}]
    /\ staleLookups \in [Users -> Nat]
    /\ mm \in MatchmakerState
    /\ live \in SUBSET RoomIds
    /\ rooms \in [RoomIds -> Room]
    /\ scheduled \in SUBSET RoomIds
    /\ waiters \in [TMatches -> SUBSET Conns]
    /\ joins \in SUBSET [conn : Conns, match : TMatches,
                         row : {"unread", "ready", "running", "finished"}]
    /\ starts \in SUBSET [match : TMatches, room : RoomIds]
    /\ tstatus \in [TMatches -> {"ready", "running", "finished"}]
    /\ accepting \in BOOLEAN
    /\ drain \in {"serving", "waiting", "drained", "timedOut", "closed"}

\* clients and clientsByUser are the same connections seen by id and by user:
\* a user never has two connections in the hub, whatever replacements and late
\* close events there were.
OneConnectionPerUser ==
    /\ \A c \in Registered : byUser[UserOf[c]] = c
    /\ \A u \in Users : byUser[u] # NoConn =>
          byUser[u] \in Registered /\ UserOf[byUser[u]] = u

\* A running room: in this.rooms, its result not asked for yet.
Unfinished(r) == r \in live /\ rooms[r].session.state # "finished"

\* Seats and connections agree: a connection of the hub that names a room
\* sits in it, and a seat of an unfinished room is held either by a connection
\* of the hub that names this room or by the lost connection of a side for
\* which the reconnect window is open.
SeatsAgree ==
    /\ \A c \in Registered : roomOf[c] # NoRoom =>
          roomOf[c] \in live /\ c \in Seated(rooms[roomOf[c]])
    /\ \A r \in RoomIds, side \in Sides :
          LET c == rooms[r].seats[side]
          IN  Unfinished(r) /\ c # NoConn =>
                IF side \in rooms[r].session.disconnected
                THEN c \notin Registered
                ELSE c \in Registered /\ roomOf[c] = r

\* One connection never plays in two unfinished rooms.
OneRoomPerConnection ==
    \A r, s \in RoomIds :
        Unfinished(r) /\ Unfinished(s) /\ r # s =>
            Seated(rooms[r]) \cap Seated(rooms[s]) = {}

\* The copies of the room state that GameHub keeps next to the session follow
\* it: disconnectedUsers the disconnected sides, reconnectTimer the deadline
\* (without it a broken room would never end), the scheduler the rooms being
\* played, and the phase shown to the players the state.
RoomMirrorsSession ==
    /\ scheduled \subseteq live
    /\ \A r \in live :
          LET rm == rooms[r] IN
          /\ WellFormedSession(rm.session)
          /\ rm.away = rm.session.disconnected
          /\ rm.timer <=> rm.session.deadline # {}
          /\ r \in scheduled <=> Playing(rm)
          /\ rm.phase = (IF Interrupted(rm.session) THEN "paused" ELSE rm.session.state)
          /\ rm.finishing => rm.session.state = "finished"

\* finalizeMatch is called at most once for a room, on whichever path the room
\* ends: winning score, forfeit, a failed call, a loss while it is pending.
FinalizedOnce == \A r \in RoomIds : rooms[r].calls <= 1

\* What the matchmaker keeps of a user is backed by the hub.  A reservation is
\* held for a room the user sits in or an unanswered NPC query: a leaked one
\* locks the user out of the queue ("이미 경기가 배정되었습니다").  A player it may
\* still pair has a queue entry, with a running timer and the user's present
\* connection, which is in no room.
MatchmakerBacked ==
    /\ \A u \in Users : mm.status[u] = "matched" =>
         \/ \E r \in live : u \in SeatedUsers(rooms[r])
         \/ fallback[u] = "lookup"
    /\ \A u \in mm.queue :
         /\ fallback[u] = "armed"
         /\ entries[u] # NoConn /\ entries[u] = byUser[u]
         /\ roomOf[entries[u]] = NoRoom

\* Guests and registered users never meet in a room.  A process has players of
\* one kind only, as guests exist in the demo mode alone; the hub and the
\* matchmaker do not rely on it, and the instances have both kinds so that
\* both fallbacks of the queue occur.
GuestsApart ==
    \A r \in live : SeatedUsers(rooms[r]) \subseteq Guests \/ SeatedUsers(rooms[r]) \cap Guests = {}

\* The seats of a tournament room are those of the bracket, whoever came first.
TournamentSeating ==
    \A r \in live, side \in Sides : rooms[r].tournament # NoMatch =>
        UserOf[rooms[r].seats[side]] = TPlayers[rooms[r].tournament][side]

\* Nobody waits for an opponent who waits too: at most one connection waits
\* for a match, whatever joins overtook each other at the database.
OneWaiterPerMatch == \A m \in TMatches : \A c, d \in waiters[m] : c = d

\* The two players of a match find each other and nobody else: neither waits
\* next to the other, and they sit as in the bracket.
TournamentPairs == OneWaiterPerMatch /\ TournamentSeating

\* A match that is over is never marked as running again, however late the
\* answer to startTournamentMatch comes.
TournamentStatusForward ==
    [][\A m \in TMatches : <<tstatus[m], tstatus'[m]>> \in
          {<<t, t>> : t \in {"ready", "running", "finished"}}
             \cup {<<"ready", "running">>, <<"ready", "finished">>, <<"running", "finished">>}]_vars

\* Once matches are refused no room is opened and nobody is queued.
NoNewMatchesInDrain ==
    [][~accepting => live' \subseteq live /\ mm'.queue = {} /\ ~accepting']_vars

\* What is still to come of an earlier stay of the user: the answer of an NPC
\* query, or the end of a room that one of their old connections sits in.
PastPending(u) ==
    \/ staleLookups[u] > 0
    \/ \E r \in RoomIds : u \in SeatedUsers(rooms[r]) /\ (Unfinished(r) \/ rooms[r].finishing)

WaitsAfresh(c) ==
    LET u == UserOf[c]
    IN  entries[u] = c /\ u \in mm.queue /\ ~PastPending(u)

NpcAsked(c) == entries[UserOf[c]] = c /\ fallback[UserOf[c]] = "lookup"

\* A connection that waits comes to a room, is told that matches are refused,
\* or closes, or the query for its NPC goes out; and that query ends, with a
\* room or an error.  It is not said of a player who leaves or whose room
\* fails, nor while an earlier stay is pending: its end releases the new entry
\* of the player, who is then dropped without a word.
QueueAnswered ==
    /\ \A c \in Conns :
         WaitsAfresh(c) ~> roomOf[c] # NoRoom \/ ~accepting \/ socket[c] # "open" \/ NpcAsked(c)
    /\ \A u \in Users : fallback[u] = "lookup" ~> fallback[u] # "lookup"

\* When connections come and go no longer, no room stays in its reconnect
\* window: the side that is away has lost or the room is abandoned.
InterruptionEnds ==
    <>[][FALSE]_socket =>
        \A r \in RoomIds :
            r \in live /\ Interrupted(rooms[r].session)
                ~> ~(r \in live /\ Interrupted(rooms[r].session))
=============================================================================
