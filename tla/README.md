# Verification of pong-pong-fix

TLA+ models of the server (`apps/api`), of the transactions of its repository
(`packages/db`) and of the browser's connection (`apps/web/src/game`), the TLC
runs that check them on small instances, and TLAPS proofs of what matters most
for every instance. Paths below are relative to `src/`; `gameHub.ts` without a
directory is `apps/api/src/gameHub.ts`.

    tlc -workers 2 -config HubMatches.cfg MCGameHub     # one run
    tlapm GameHubProofs.tla                             # one proof module

`PROJECT.json` lists the runs, the lines every definition models, the hazards,
the findings, and for every property a mutation of the code that breaks it.

## 1. The system

A browser opens a WebSocket to the API process, which authenticates it with a
one-time ticket and hands it to the one `GameHub`. The hub keeps all running
games in memory, pairs players, steps the games every 50 ms, sends
snapshots, and writes the result of a finished game to Postgres in one
transaction. A single Node process serves everybody, so handlers do not run in
parallel; they interleave at every `await`, timer and socket event.

| Component | State it keeps | Operations | Correct when |
|---|---|---|---|
| Room session `game/roomSession.ts` | state, ready sides, disconnected sides, deadline, state to resume | markReady, pause, resume, disconnect, reconnect, expireReconnect, finish | only the transitions of `docs/architecture.md` happen; an interruption gives back the state it interrupted; who is back within the window does not forfeit |
| Matchmaker `game/matchmaker.ts` | waiting players in order, status per user | enqueue, leaveQueue, claimAiFallback, release | queue and status agree; nobody waits next to an opponent in reach; pairs are the closest, of one kind, within the rating limit |
| Game hub `gameHub.ts` | connections by id and by user, queue entries with their timers, rooms, tournament waiters, drain | connect, receive (ten client commands), disconnect, timers, database answers, beginDrain, close | one connection per user, one seat per connection, one result per room, who waits is answered, a broken room ends, a drain answers truthfully |
| Room scheduler `game/sharedRoomScheduler.ts`, `fixedStepScheduler.ts` | registered rooms, accumulated lag, interval | register, unregister, loop | exactly the rooms being played are stepped; lag is bounded |
| Snapshot delivery `game/latestSnapshotBuffer.ts` | pending snapshot, congestion start, retry timer | push, retry, close | the newest snapshot gets out or the socket is ended; no old one after the result |
| Heartbeat `game/heartbeat.ts` | last pong, timers | ping, pong, stop | a silent peer is terminated, a live one never |
| Input gate `game/inputGate.ts` | last sequence per user and room, token bucket per user | check, releaseUser | no input is applied twice or after a newer one |
| Simulation and AI `game/pongSimulation.ts`, `pongAi.ts` | ball, paddles, score, phase | step, setInput | the game ends exactly at the winning score |
| Accounts: routes of `app.ts` over the repository | users, sessions, friendships, admin actions | login, logout, friend request and answer, WebSocket ticket, ban, role | friendship needs both sides; a ticket lets in only who is in good standing when it is used; a ban and its log entry come together |
| Guest access `guestAccess.ts` | rate windows per address, tickets, connection leases | create, issue, consume, acquire, release | a ticket works once; a guest has one lease, an address no more than its limit |
| WebSocket handshake `app.ts` | payloads received before authentication, lease | open, message, close, ticket answers | limits hold, a socket that closed meanwhile leaves nothing behind |
| Database repository `packages/db/src/index.ts` | users, matches, tournaments, tickets, friendships | transactions under row locks | a result counts once; places and bracket agree |
| Process lifecycle `index.ts`, `gracefulShutdown.ts` | signal seen, pools | drain, close hub, server, pool | one orderly shutdown whatever signals come |
| Browser game client `apps/web/src/game/*` | socket generation, ticket request, reconnect timer, view state | connect, retry, reduce events | an event of an old socket changes nothing; retries end |
| Observability, migrations, pages and queries, build and load tests | | | not about the game protocol |

How they interact. The hub calls `RoomSession` and `Matchmaker` synchronously
and copies part of the session's state next to it (`room.phase`,
`disconnectedUsers`, `reconnectTimer`, the scheduler's set): the copies are a
large part of what can go wrong. Sockets call back `receive` and `disconnect`
in the order the runtime delivers them, so the close event of a replaced
connection comes after the replacement. The repository answers
`findClosestNpc`, `getTournamentMatch`, `startTournamentMatch` and
`finalizeMatch` later, and everything may have changed by then.

What is hard: (1) state read before an `await` and used after it: the NPC
query, the tournament join, the result; (2) late close events of replaced
connections; (3) two players who drop and come back in any order inside one
reconnect window; (4) reservations of the matchmaker on each of the many
paths that end a room or an entry; (5) a database that fails, or commits and
loses the answer; (6) a drain that begins in the middle of any of these. Each
is a hazard in `PROJECT.json`, at its line. Around the hub there is more:
(7) transactions that wait for each other's rows, are rolled back, or are
repeated because their answer was lost; (8) snapshots held back by congestion
while other events are sent at once; (9) a tab that retries while the hub has
not yet noticed that its socket is gone, and events of sockets it has left;
(10) users who are banned between the check of a route and what it writes, or
before the ticket it gave them is used; (11) a
shutdown whose parts end in an order nobody wrote down.

## 2. The modules

| Module | Models | Kind |
|---|---|---|
| `RoomSessionOps` | the methods of `RoomSession` as operators on a session record | pure |
| `Clock` | the instants that the callers of both hand over | shared |
| `RoomSession` | one session, a clock, the methods in any order | specification |
| `OpsLemmas` | what the operators of `RoomSessionOps` and `MatchmakerOps` return and keep | lemmas |
| `MatchmakerOps` | the methods of `Matchmaker` as operators on its state | pure |
| `Matchmaker`, `MCMatchmaker` | one matchmaker and a clock | specification |
| `SessionMatchmakerProofs` | the theorems of both | proofs |
| `GameHub`, `MCGameHub` | the hub, composed with both | specification |
| `GameHubProofs` | the theorems of `GameHub` and of `ApiProcess`, which it extends | proofs |
| `GuestAccess`, `MCGuestAccess` | tickets, guest limits and the handshake of `/ws`, up to `hub.connect` | specification |
| `GuestAccessProofs` | | proofs |
| `ApiProcess`, `MCApiProcess` | the process around the hub: startup, signals, readiness, order of the shutdown | extends `GameHub` |
| `RoomLoop`, `MCRoomLoop` | the interval that steps the rooms, the end of a game by score or time, a player's inputs through gate and replacement | specification |
| `RoomLoopProofs` | | proofs |
| `LinkOps`, `BrowserLink`, `MCBrowserLink` | one tab: socket client, reducer and hook, with the sockets, the snapshot buffer and the hub's side of it | pure, specification |
| `BrowserLinkProofs` | | proofs |
| `StoreOps` | rows of results and of one tournament, and what a result does to them | pure |
| `MemoryStore` | the memory repository: every method is one step | abstract specification |
| `PostgresStore`, `MCPostgresStore` | the transactions, statement by statement under row locks | implements `MemoryStore` |
| `PostgresStoreProofs` | | proofs |
| `AccountOps`, `MemoryAccounts` | rows of accounts; the memory repository's methods on them | pure, abstract specification |
| `Accounts`, `MCAccounts` | the routes and statements on accounts | implements `MemoryAccounts` |
| `AccountsProofs` | | proofs |

`RoomSessionOps` and `MatchmakerOps` are used twice: alone, where every order
of calls is possible, and in the hub, where only the hub's orders are. So what
is shown of a session or a matchmaker alone holds whatever a caller does, and
what is shown of the hub uses the very same definitions, and the same lemmas
about them.

### RoomSession and Matchmaker

A session is a record with the fields of the class; `deadline` is `{}` or a
singleton instead of `null` or a number. `MarkReady`, `Pause`, `Resume`,
`Disconnect`, `Reconnect`, `ExpireReconnect` and `Finish` are its methods;
a call that the code refuses leaves the record as it is. `now` is the
`nowMs` the caller passes; `verdict` and `awaySince` are history variables the
code does not have, for the property about forfeits.

The matchmaker's array is the set `queue` with the instant each player was
queued: the array is searched for the closest rating, and the order only
decides ties, where the model takes any of the equally close players
(`IsClosest`). `status` is the map of the class; a user the map lacks has
status `none`. The specification of a matchmaker alone is `QueueSpec`, so that
one module of proofs can extend both.

### GameHub

One action per handler that runs without an `await`; a handler with one is an
action up to the `await`, a pending call in a variable, and an action for each
answer.

| Variable | Code |
|---|---|
| `socket`, `roomOf`, `byUser` | `clients` with the socket's ready state, `client.roomId`, `clientsByUser` |
| `entries`, `fallback`, `staleLookups` | `queueEntries`, the entry's `npcFallbackTimer` (`armed`, `lookup` during the NPC query, `off`), queries whose entry has been removed since |
| `mm` | `matchmaker` |
| `live`, `rooms`, `scheduled` | keys of `rooms`, the `Room` objects, rooms at the scheduler |
| `waiters`, `joins`, `starts` | `tournamentWaiters`, calls waiting for `getTournamentMatch`, for `startTournamentMatch` |
| `tstatus` | `tournament_matches.status` in the database |
| `accepting`, `drain` | `acceptingMatches`; the drain waiter and its answer |

| Actions | Code |
|---|---|
| `ConnectFresh`, `ConnectReplacing`, `ConnectRecovering` | `connect` 156 with `replaceConnection` 273 and `recoverConnection` 298 |
| `SocketCloses`, `Disconnect` | a socket starts to close (client, network, heartbeat, replacement); its close event, `disconnect` 254 with `reserveRoomSide`, `armReconnectTimer` |
| `QueueJoinWaits`, `QueueJoinMatches`, `QueueJoinAi`, `QueueLeave` | `joinQueue` 401 with `pruneQueue` and `createRoom` 675, `leaveQueue` 569 |
| `FallbackDrops`, `FallbackAsksNpc`, `FallbackGuestRoom`, `NpcFound`, `NpcMissing`, `StaleLookupReturns` | `armAiFallback` 456, `matchQueuedClientWithNpc` 469, before and after `findClosestNpc` 514 |
| `TournamentJoin`, `TournamentRead`, `TournamentSeats`, `StartSucceeds`, `StartFails` | `joinTournamentMatch` 528 before, between and after its two queries |
| `Ready`, `Pause`, `Resume` | `markReady` 759, `pauseRoom` 800, `resumeRoom` 810 |
| `GameEnds` | the `tick` 824 that reaches the winning score, with `finishRoom` and the start of `finalizeRoom` 855 |
| `ReconnectTimer` | `expireReconnect` 350: forfeit, abandoned room, or the timer armed again |
| `FinalizeSucceeds`, `FinalizeFails` | the two answers of `finalizeMatch`; it may have committed when it fails |
| `BeginDrain`, `DrainTimesOut`, `Close`, `Tick` | `beginDrain` 606, its timer, `close` 635, time |

What is abstracted. Time is relative to the present, so that the state space
is finite without a bound on the run: `Tick` moves deadlines and queueing
instants towards the past, and an instant passed by one or more is `-1`, which
no guard tells from older ones. A connection or room identity is used again
only when nothing refers to it, as fresh ids are in the code. Ball, paddles
and snapshots are absent: only the step that ends a game is there (`RoomLoop`
and `BrowserLink` have the steps and the snapshots). `joins` is a
set, so two identical pending joins of one connection for one match count as
one. `recoverConnection` takes the first room in which the user's side is
lost; the model takes any of them, which differs only where a user has lost two
rooms. The result kept for a player who returns is in `BrowserLink`, paddle
input in `RoomLoop`; chat and presence are in neither.

### GuestAccess

What stands before the hub: who gets a socket. `demo` chooses the mode of the
process once. In the demo mode the players are guests, whose tickets, rates
and leases the process keeps (`guestAccess.ts`); otherwise they are registered,
and only their tickets exist, as rows of `ws_tickets`. Both go through the
same handshake in `app.ts`.

| Variable | Code |
|---|---|
| `windows` | `creationsByIp`, `ticketIssuesByIp`: the events of a window by their age, and the time until its cleanup timer |
| `tickets`, `index` | `tickets` or the rows of `ws_tickets`; `ticketHashByGuest`. A `replaced` ticket has left the map and its timer still runs |
| `leases` | `connections`; a lease is named by the socket it was taken for |
| `sock` | a socket of `/ws`: its phase, the answer of the database, ticket and player |
| `accepted` | history: what a window store has admitted, whatever it remembers; `EventCount` counts a window's events one by one |

| Actions | Code |
|---|---|
| `CreateSession`, `CreateSessionRefused` | `POST /auth/guest`, `recordCreation` |
| `GuestTicket`, `GuestTicketNoRoom`, `GuestTicketTooOften` | `POST /auth/ws-ticket` of a guest, `issueWsTicket` and its two refusals, each with the pruning and the deletions that come before it |
| `GuestAdmitted`, `GuestOverLimit`, `GuestTicketBad` | `/ws` of a guest: `consumeWsTicket`, `acquireConnection`, `hub.connect` |
| `TicketTimer`, `WindowTimer` | the cleanup timers |
| `MemberTicket`, `MemberPresents`, `MemberTicketGood`, `MemberTicketBad` | `POST /auth/ws-ticket` and `/ws` of a registered player up to the answer of the database |
| `MemberAdmitted`, `MemberRefused`, `AnswerTooLate` | the same after the answer, by `authenticationClosed` and `readyState` |
| `BadQuery`, `SocketCloses`, `SocketClosed`, `Tick` | a socket refused at once, one that starts to close, its close event, time |

A guest's handshake is one action because only promises that are already
resolved are awaited between the ticket and `hub.connect`: no event comes
between. The payloads that arrive before authentication matter through the
limits that close the socket (`SocketCloses`). The signature of the cookie and
the expiry of the session are left out; a guest may ask for tickets at any
time. Sockets and ticket hashes are used again only when nothing refers to
them.

### ApiProcess

`GameHub` with the process that owns it. `life` is how far `index.ts` is;
`pool` the database pool, `inFlight` the results that had one of its clients
when it was ended, `probe` the readiness check between its question, the
database's answer and its own.

| Actions | Code |
|---|---|
| `Listen`, `ListenFails`, `Shutdown`, `SignalAgain` | `index.ts` 36-65, `gracefulShutdown.ts`; a second signal after the handlers were taken away kills the process |
| `AppCloses`, `ListenerClosed` | `app.close`: routes refuse, WebSockets are closed, the listener ends |
| `PoolEnds`, `HubCloses`, `Exits` | the `onClose` hooks, of which Fastify runs the latest first: the pool is ended before `hub.close` |
| `Probe`, `DatabaseReads`, `AnswerProbe` | `/health/ready` in `app.ts` |
| `HubStep` | every step of the hub, where sockets come in only while there is a listener and results need a pool |

The instance is without tournaments (`NoTournaments`, which `MCApiProcess`
assumes and the theorems about the process have as a hypothesis): with them the
code breaks `NoNewMatchesInDrain`, see section 4.

### RoomLoop

`steps` and `loop` are `SharedRoomScheduler` and `FixedStepScheduler`, in
fractions of a step; `Clock` lets time pass with the event loop free or held
up, `RunLoop` is the interval's callback with its two caps and the drop of what
is over. `Start`, `Pause`, `Forfeit`, `Replace`, `Disconnect` and `Recover` are
the hub's calls that register and unregister a room or change a player's
connection. `SendDirection` and `ApplyInput` are an input on its way and at the
gate (`inputGate.ts`: number, then token bucket). `pace` and `heard` are history
variables. Where the ball is, is left out: a step may or may not end the game,
and the time limit ends it.

### BrowserLink

`view` is the reducer's state and `shown` what the last render left in
`stateRef`, which the socket handlers read; `tab` is `GameSocketClient`
(generation, socket, timer, window, attempts); `requests` are the ticket
requests that are out, aborted ones too. `ends` is the hub's end of every
socket with its congestion, pending snapshot and queue of events. The hub is
reduced to what one user's tab sees: `byUser`, queue, seat, a kept result, one
room.

| Actions | Code |
|---|---|
| `Connect`, `Close`, `ReconnectTimer`, `TicketAnswered`, `TicketFails`, `SocketOpens`, `ClosedByHub`, `Lost`, `Receive` | `GameSocketClient.ts` |
| `Render`, and in `LinkOps` `Reduced`, `Closed`, `Seen` | `useGameConnection.ts`, `gameConnection.ts` |
| `Accept`, `Refuse`, `JoinQueue`, `Disconnect`, `CreateRoom`, `BroadcastSnapshot`, `FinishRoom`, `AbandonRoom`, `ForgetResult` | the same handlers as in `GameHub`, with what they send |
| `Congest`, `Retry`, and in `LinkOps` `Enqueued`, `Drained`, `Sent` | `latestSnapshotBuffer.ts` |

### PostgresStore and MemoryStore

`StoreOps` has the rows and the arithmetic both repositories share. A session
of the pool runs `finalizeMatch` or `joinTournament` one statement at a time;
`txn` is what it has read and will write, `locks` its row locks: `for update`,
the key share lock a foreign key takes, and the pending unique key of an
insert. The foreign keys of an insert are checked one by one, each lock taken while
those before it are held (`CheckWinner`, `CheckLoser`; `Enter`, `CheckSeeds`). A statement waits while another session holds a conflicting lock
(`Blockers`); `BreakDeadlock` is the database giving up one transaction of a
circle, `Rollback` a failed statement, a lost connection or the death of the
process at any point. The writes stay in the transaction's record until its
commit, which is the same as writing at once because every row written is
locked; statements that wait for nobody are taken together with the next that
may. Answers are not modelled: whoever does not get one may ask again, so a
command may be issued any number of times and on several sessions at once.

`MemoryStore` and `MemoryAccounts` are the abstract specifications: what the
in-memory repository of the same file does, where a method runs to its end. The
code's own tests treat the two repositories as interchangeable; `ImplementsMemory`
says that they are, as far as the rows are concerned. (The memory repository
allows a little more: a start of a decided match and a late join that reopens
a tournament, see section 4.)

### Accounts

A request has three stages: `Authenticate` reads the session and the user and
checks role and standing, the action writes, and a ban writes a second row
before it commits. `Guarded` are the routes that check the standing: of those
modelled `POST /friends/:id/accept` does not, and neither does the login
(section 4). `Locked` is the row lock of the ban's update. `CreateWsTicket` is
the insert of the ticket route, after its check; `ConsumeWsTicket` the one
statement that takes the ticket when a socket brings it and looks at the
standing of its user again; `WsTicketEnds` its expiry, or the end of the socket.
`asked` is a history variable, and a ticket that let its socket in is kept as
`admitted`. `SetUserRole` is the command of the database package, which runs
beside the server.

## 3. What TLC checks

### Passing runs

| Run | Instance | Shows |
|---|---|---|
| `room_session` | window 2, clock to 6 | session, lost sides and deadline agree (`SessionConsistent`), an interruption gives back what it interrupted (`InterruptionTransparent`), a forfeit hits only a side that is away and whose window has passed in full (`ForfeitIsFair`) |
| `matchmaker` | three users (one pair exactly at the limit, one pair beyond), two guests, clock to 4, fallback 2 | nobody waits next to a possible opponent, pairs are justified |
| `hub_matches` | two users, one with a second connection, a guest at another time, two rooms; queue, leave, pause, failing `createRoom` | seats and connections agree, one room per connection, a room mirrors its session, one result per room, reservations and queue entries are backed (`MatchmakerBacked`) |
| `hub_tournament` | one match, two users, three connections, two joins in flight, a database that fails, a drain | one waiter per match, and seats as in the bracket (`TournamentPairs`) |
| `hub_liveness` | the two users of `hub_matches` with one room; queue, AI, fairness | who waits and has no earlier stay still to end comes to a room, an NPC query, a refusal or a closed socket (`QueueAnswered`), every NPC query ends, an interrupted room ends |
| `process_shutdown` | a user, two guests, one room; queue, AI, signals, readiness checks | guests stay apart, results that the drain waited for are stored before the pool ends, no match is opened in a drain, "ready" is true when it is said, a signal ends the process |
| `guest_access` | three guests or players, two addresses, three sockets, two tickets; a ticket lives one unit, a window two | leases follow the sockets, limits and rates hold, a ticket admits one socket and is not lost to the timer of another, a closed socket stays out |
| `room_loop` | two rooms, two connections with two inputs each, three steps to the time limit, gaps up to five fractions | only playing rooms are stepped, at their pace, under the newest input, and games end |
| `browser_link` | one tab that plays twice and is left, two sockets, one broken, one room with two snapshots | one way to the hub at a time, the view catches up, no snapshot waits for ever, a retrying tab returns, fails or the room ends |
| `match_store` | four players and a late comer, one place left, five result keys, two sessions | each result counts once and the history adds up (`LedgerBalanced`), the bracket follows, decisions stand, every transaction ends, and all of it refines `MemoryStore` |
| `accounts` | an admin and a player, two requests at a time, one ticket, two admin actions | friendship by both sides, a ticket lets in only who is in good standing by the bans committed until then (`AdmittedActive`), refinement of `MemoryAccounts` |

Bounds. `Window` and `Fallback` are 1 in the hub: with relative time, "not
over", "exactly now" and "later" are the three cases the code distinguishes.
`MaxStaleLookups = 1` lets one query outlive its entry while a second entry
of the same player runs, which is the smallest confusion of the two;
`MaxJoins = 2` lets two joins overtake each other. Two rooms allow a player to
open a room while the last one waits for the database. The
clocks of the first two runs admit a window, its restart by the other side and
one more interruption. The safety runs of the hub use symmetry in the
connections of one user and in the rooms, which nothing in the constants tells
apart; the runs with fairness use none. In `hub_matches` a constraint
(`MCGuestApart`) keeps the guest and the registered players from being in the
hub together: the matchmaker never pairs them, and beside each other they are
in `process_shutdown` and in the theorem `GuestsStayApart`. A process has players of
one kind only, guests in the demo mode and registered ones otherwise
(`app.ts:91`); the instances have both so that both fallbacks of the queue
occur, and `GuestsApart` is a second line of defence.

In `guest_access` an address has room for one connection and one ticket, so
that it is full when a second guest comes or moves there, and the map of
addresses has room for one, so that a second address is refused until the first
is forgotten. Two tickets are enough for one that is replaced and one that
follows; three sockets for a connection, its replacement and a late close
event. The limits of the whole process are not reached in this instance;
`LimitsHold` proves them.

In `room_loop` a step is two fractions and a loop makes good two steps at most,
so that a gap of five is over the cap and lag, rest and drop all occur. In
`browser_link` two sockets are one that the hub still holds and its
replacement; the second start by the player makes the first generation old.
In `match_store` user 1 starts at 805, where a loss meets the floor of 800; one
semifinal is played in two rooms and its first key is claimed with either
winner; the last place is open for two. Two sessions are enough for a circle of
waits and a lost race; the theorems hold for any number. In `accounts` two
requests are every overlap of two routes, and one ticket meets every ban; a
constraint (`MCTicketsApart`) keeps it from beside a friendship, with which it
shares no row (the theorems have no such bound).

Deadlock checking is off where the system may stop: in the hub because players
may leave for good and because it stops after `close`, in `process_shutdown`
because the process ends, in `browser_link` and `room_loop` because the player
leaves and the games are over.

Fairness is what the runtime does by itself. Hub (`FairSpec`): a closing socket
gets its close event, timers fire, queries are answered (either way), time
passes. Process: the same, and the parts of the shutdown go on once they may.
Tab: requests are answered or fail, what is in a socket arrives, both ends learn
of a loss, timers fire, React renders. Loop: time passes and the interval is not
held up for ever. Store: weak fairness for the search for circles, and strong
fairness for the statements of a session, because a waiting statement is in a
queue of the lock manager and is served though others take and release the
row meanwhile. Nothing is assumed of players, of games coming to an end by
score or of which answer the database gives. `InterruptionEnds` says what
happens when connections come and go no longer, because each new loss opens the
window again (the hazard at `roomSession.ts:55`): two players who drop in turn
can keep a room for ever.

`SeatsAgree` and `OneRoomPerConnection` are checked without tournaments: with
them the code violates both (`hub_two_rooms`).

### A violation

`hub_two_rooms` checks one statement of the repository that the code does not
keep: somebody in a room is not matched again (`study/devlog/06`, line 3).
A tournament waiter starts an AI game; the opponent's arrival seats the same
connection in a second room.

## 4. Where the code disagrees

Found while modelling, and in the models as the code does it; no run is spent
on them, since each is a step or two of an action named here.

- A rejected `finalizeMatch` leaves the room as finished for ever: no retry, its
  players keep its `roomId`, a drain waits for it until its limit
  (`gameHub.ts:908`, `FinalizeFails`; `docs/architecture.md:57` ends the room).
- A tournament join that is at the database when the drain begins opens a room
  after it, even after the drain was answered (`gameHub.ts:529`,
  `TournamentRead`; `README.md:75`). `NoNewMatchesInDrain` is therefore checked
  without tournaments.
- A waiting player may be dropped in silence (`study/devlog/06`, line 5), in
  three ways. Somebody leaves during the NPC query and queues again: the late
  answer releases the new entry (`gameHub.ts:494`, `StaleLookupReturns`), which
  is then paired with nobody, and its timer finds it unavailable (480). Somebody
  queues on a fresh connection while a room of theirs has still to end, because
  its result is being stored or its reconnect timer is late: the end of that room
  releases the new entry in the same way (`gameHub.ts:974`, `RemoveRoom`; 908,
  `FinalizeFails`). And when `createRoom` throws, only the player who joined
  is told; the opponent has left the queue (`gameHub.ts:449`, `QueueJoinMatches`).
  `QueueAnswered` speaks of the waits in which none of these is pending, where
  nobody is dropped.
- A banned user can log in (`app.ts:253`, `UpsertDevUser`, `CreateSession`) and
  accept a friend request (`app.ts:454`, which has no `isActive`; `Guarded`),
  although `study/learning/authentication-and-trust.md:13` and
  `study/devlog/04`, line 9, say that the login rejects them. A ban does not
  close a socket that is open. `AdmittedActive` is about the way in, where the
  standing is read again.
- A ready mark made while the other side is away counts in the room and not in
  the session: both are shown as ready and nothing starts (`gameHub.ts:766`,
  `Ready`; `docs/architecture.md:44`).
- The users are locked in the order of their identifiers, but the insert before
  that takes share locks by its foreign keys: two results that share both
  players can wait for each other, and the database gives one up
  (`db/src/index.ts:478`, `BreakDeadlock`; `study/learning/database-invariants.md:11`).
  So can the entry that takes a tournament's last place, whose semifinals refer to
  the first three players one after another (864, `CheckSeeds`), and a result of two of
  the four.
  The client of the loser gets an error and its room stays (first item).
- A snapshot that congestion held back arrives after `game.finished`, and the
  reducer enters the room again (`BroadcastSnapshot`, `Retry`).
- A reconnect before the hub has noticed the loss, to a paused room, gets the
  sequence it has, which the reducer drops; it shows the old view until the
  next one. `CaughtUp` compares with `>=` for that reason.
- `onClosed` reads the state of the last render: a tab that loses its socket
  between `queue.matched` and the render does not try to come back.
- A registered player who comes back after the room has ended is told nothing;
  only guests' results are kept.
- The reconnect window is reset when the socket opens, before it is
  authenticated: a tab that is refused each time retries for ever.
- A dropped input is not repeated: after a `rate_limited` error a "stop" that
  was dropped leaves the paddle moving.
- The memory repository starts any match and lets whoever joined reopen a
  finished tournament (`MemoryStore`); the Postgres one does neither, which
  `DecisionsStand` shows.
- `updateProfile` reads and writes without a lock: of two changes at once one
  is lost (`db/src/index.ts:346`). The seed command resets the ratings of NPCs
  and unbans one without a log entry. `admin_actions.created_at` is the start of
  the transaction, so overlapping bans may be listed in another order than
  they happened.
- The signal handlers are removed as the last hook before the pool is ended, so
  a second SIGTERM kills the process while a result may be committing
  (`SignalAgain`; `docs/operations.md:38`). The pool is ended before the hub is
  closed, so what a timed-out drain left behind plays on against an ended pool.
  `earlyPoolErrors` in `index.ts` can hold nothing, as nobody uses the pool then.

## 5. What is proved

Every theorem holds for all values of the constants under the named
assumptions of the modules, which say what the types of the parameters say and,
for commands, what `assertFinalizeMatchCommand` lets through.

*Room session.* `SessionTypes`, `StaysConsistent`, `DocumentedOnly`,
`TransparentInterruption`, and `FairForfeit`. The last needs
`WindowsAreWhole`, that the deadline is never earlier than the loss of any
side that is away plus the window: a second loss moves the deadline of the
first one too, never towards the past. This is `WholeWindows`.

*Matchmaker.* `QueueTypes`, `QueueAgrees`, `NobodyWaitsNextToAnOpponent`,
`MatchesAreJustified`. `NoCompatiblePairWaits` is inductive only together with
`QueueMatchesStatus`: a player who is enqueued again would otherwise already
be in the queue. Both are `QueueInv`.

*Game hub.* Fifteen theorems, from nine inductive invariants.

- `TypeInv` is `TypeOK` with the fact that a user whose fallback is not off has
  an entry; without it the actions on an entry would read the room of no
  connection. `TypeCorrect` follows.
- `SingleConnection`: `OneConnectionPerUser` is inductive with the types.
- `RoomsInv` says that every live room has `RoomShape`, the conjunction of
  `RoomMirrorsSession` and of what finalization adds: a room asks for its
  result at most once, and never while its session runs. `MirrorsFollow` and
  `ResultsOnce` follow. That calls are counted at most once needs the mirror
  of `finishing`: a room that asked is finished, and a finished session neither
  ends nor is interrupted again.
- `OverIsOver` is the action property `GamesStayOver`: whatever calls, timers
  and late answers follow, a room that is over stays finished and off the
  scheduler while it is in `rooms`. A room identity is seated anew only when
  it has left, and the methods of a finished session refuse (`SessionStaysOver`).
- `WaitersInv`: at most one connection waits for a match, and it is one of the
  match's players (`NobodyWaitsTwice`).
- `PeopleInv`: an entry belongs to its user, no guest is in a tournament, the
  seats of rooms and pending joins are those of the bracket. `GuestsStayApart`
  and `BracketSeats` follow, the first from what the matchmaker pairs.
  `TournamentPaired` puts the two about tournaments together.
- `StatusForward` is the action property `TournamentStatusForward`.
- `ReservationInv`: the matchmaker's queue is its users with status `queued`, and
  whoever it has as `matched` sits in a live room or is held by a running NPC
  query. `NoReservationLeaks` follows: on each of the many paths that end a
  room, an entry or a query the reservation goes too. It needs no more than the
  invariants above: each action that takes a room away releases whom it seats.
- `LinkInv`: a seat of a live room names a connection whose `roomId` is that
  room, lost sides are the ones not registered, a registered connection with a
  `roomId` sits in that room, and after `close` nothing is left. `QueueBacked`:
  who is queued has an armed timer and an entry with the user's present
  connection, which is in no room. `WaitersPresent`: tournament waiters are
  connected. Only together (`SeatingInv`) are they inductive: a pairing seats
  the connections of the entries, so they must be in no room; a replacement
  moves entry, seat and `roomId` at once; and a room that ends may be taken away
  from everybody it seats only if no other room seats them.

`SeatsFollow` (`SeatsAgree`), `OneRoomEach` (`OneRoomPerConnection`) and
`QueueHolds` (`MatchmakerBacked`) follow from `SeatingInv` for every instance
whose clients send no tournament join, which is how `hub_matches` checks the
three: they assume `"tournament" \notin Inputs` and nothing about behaviours.
With tournament joins they are false of the code, as `hub_two_rooms` shows:
such a join looks at nothing but the match when the database has answered,
and `removeFinishedRoom` (`gameHub.ts:974`) takes the `roomId` of a
connection without looking which room it names. `Quiet` says that nothing of a tournament
is on its way; the lemmas about single steps are stated for steps from a state in
which no tournament call gets in the way (`TournamentsOrderly`), and `Quiet` gives them that.

`DrainRefuses` is the action property `NoNewMatchesInDrain`, again without
tournaments. It rests on `DrainInv`: matches are accepted exactly until the
drain begins, the queue is empty from then on, and "drained" is said only of a
hub that has no room. That `beginDrain` empties the queue is `QueueBacked` and
`QueueStatus`: it drops the entries, and nobody is queued without one. A room
whose result is being stored is in `rooms` until the answer, so it counts.

*Process.* `ProcessSteps` says that every step of the process is a step of the hub,
`app.close()`, which starts to close every socket at once, or leaves the hub alone. The step
lemmas of the hub therefore carry over once the closing sockets are shown to
keep each invariant; `HubInv` puts these together. `GuestsApartInProcess`,
`HubWholeInProcess` (six more invariants of the hub)
and `DrainRefusesInProcess` follow. `LifeInv` ties how far `index.ts` is to the result of
the drain, and the pool to both. `ResultsFirst` (`ResultsBeforePool`) is `LifeInv` with the last part of
`DrainInv`: the pool is ended after the drain was answered, and after "drained"
there is no room and so no result on its way. `ReadyIsTrue` (`ReadyTruthful`) is about the step of the
answer, which reads `accepting` again after the database has answered.

*Guest access.* Eight theorems. `Sound` says that a socket that waits for the
database has a ticket, that a connected one has a player, that `IndexAgrees`,
and that no lease is taken for a registered player; `TypeCorrect` proves it
with the types, because a ticket that is replaced is somebody's only if the
index names a stored one. On it rest:

- `LimitsHold`: leases are taken by `GuestAdmitted` alone and tickets stored by
  `GuestTicket` alone (`WhoTakes`), and both add one to a set that was below
  its limit.
- `LeasesFollow`: `LeasesMatchSockets` is inductive with `Sound`.
- `TicketOnce`: the sockets that hold a consumed ticket have different ones,
  and none that is still stored (`HoldersApart`); the answer of the database
  counts from the statement on, not from the handler that reads it.
- `IndexAgreement` and `ClosedSocketsStayOut`.
- `TicketsStay` is the action property `TicketsLast`: a stored ticket goes when it
  is presented, is replaced by its owner's next one, or is over. `IndexAgrees`
  says whose ticket a new one replaces, and the timer of a replaced ticket
  removes no other.

`Rates` needs `RateInv` with the types alone: what the store keeps of an address are exactly the
accepted events of the last window, and every event older than the time left
until the window is forgotten is gone already. Without the second part a store
that prunes an address, or hears its timer, could forget an event that
still counts.

*Room loop.* `PlayingRoomsStep` is inductive with the types. `RoomsPaced` is not:
`Paced` alone is not kept by the loop that makes good what is owed, so
`PaceInv` bounds how far a room may be ahead by the lag that the interval has
still to make good (`owed >= Lag - MaxLag`). `LatestSteers` is about the newest
input that the gate accepted: one over the rate is dropped. It needs `InputInv`: the present
connection has on its way only the number after those heard of it, which
is above what the gate remembers, and a connection still to come has said nothing.

*Browser link.* `TabTypes`; `OneWayToTheHub` (`OneAttempt`) from `AttemptInv`: of the
requests that are out at most one is of the present generation, and while it is
there is neither a timer nor a socket. `TabCaughtUp` (`CaughtUp`) is about
everything between two ends, so its invariant is about what is still on its
way. `ComesInv` follows the events of the present socket in the order they
arrive, with the snapshot the buffer keeps for the next writable moment: the
tab shows the room and the sequence the hub is at, or will once these have arrived, and
nothing behind them leads it out again. An old snapshot may still be there,
because the reducer drops what is older than its view. `SeatInv` says that the seat
is the registered connection, so that what is sent to the seat goes into that
socket and no other.

*Database transactions.* `Inv` in `PostgresStoreProofs` is the types,
`Exclusive` (no two sessions hold conflicting locks), `BracketFollows` with
`Room`, and for every session `Knows`: what it read is still what the tables
hold, because it holds the rows. A commit of another session would have to hold
one of the same rows (`Alone`), so what a session knows is not disturbed
(`FinalizedOthers`, `EnteredOthers`; for the start of a match, which takes no
lock that lasts, `PendingStarted`). So at its commit a transaction does to the
tables what the memory method does: `Refines`, Spec => `ImplementsMemory`, for
any number of sessions and with deadlocks, rollbacks and repeated commands.
`BracketIsRight` and `Decisions` are then about three steps, a result, an entry
and a start (`FinalizedFollows`, `EnteredFollows`, `StartedFollows`).
`Ledger` (`LedgerBalanced`) is about the first of them: a rating is the starting
one plus the number of points won less the points lost, and points are counted
one by one, so that a commit adds a disjoint set of them (`PointsAdded`,
`WrittenBalances`). `LedgerInv` adds that rows of the history belong to stored
results, without which a result might be counted under a key that already
has rows, and that all of it is finite. That the ratings a commit writes start from
the present ones is `Knows` again: the rows of both users were locked since
they were read.

*Accounts.* `Refines`, from the types and `Known` (who asks, and whom a login, a ban or the log
names, exists); `FriendsByBoth`, inductive as the row of a pair against who asked
(`RowAsAsked`, `AskedHasRow`); `StatusFollowsLog`, that the status is that of the
newest log entry, for which a ban in progress must hold the row; and
`TicketsByStanding` (`AdmittedActive`), where the step that takes a ticket is the
only one that lets in, and the row it reads has the standing of the log.

*Refinement.* `MemoryStore` and `MemoryAccounts` are instantiated `WITH` the tables of
the detailed modules; each `Refines` shows that initial states are initial
states and that every step is one of the abstract module or leaves its
variables alone.

Only model-checked:

- liveness (`QueueAnswered`, `InterruptionEnds`, `ShutdownEnds`, `GamesEnd`,
  `TransactionsEnd`, and `ReturnsToRoom` and `SnapshotsGetOut` of `BrowserLink`):
  fairness and `ENABLED` are out of the prover's reach.

Only proved: the type invariants, `OneConnectionPerUser`, `TournamentStatusForward`,
`OnlyDocumentedTransitions`, `QueueMatchesStatus`, `IndexAgrees`,
`StatusAsLogged`, `GamesStayOver`, and the invariants of the hub inside the
process other than `GuestsApart`, which no run repeats.

## 6. Not modelled, and what is left

- Chat, presence, profiles, leaderboard and the other routes and queries that
  only read; `observability.ts` and logging; the error classification of the
  pool: nothing is decided from them.
- The heartbeat's own timers: a loss is a choice of the network in `GameHub`
  and `BrowserLink`, whoever notices it first.
- Pages (`apps/web/src/app`): they poll and draw, and the server decides again.
- The floating-point physics of the ball and the AI's aim (a game ends in the
  model at any step the code could end it).
- Migrations, build, deployment and load tests.

Left for later: a composition of the hub with `PostgresStore` in place of the
two answers a result may get.
