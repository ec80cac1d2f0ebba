----------------------------- MODULE BrowserLink -----------------------------
(***************************************************************************)
(* One browser tab and its place in the hub.  The tab is the socket client *)
(* (GameSocketClient.ts) under the page's reducer, whose state the handlers *)
(* read as it was last rendered (useGameConnection.ts); the hub is what    *)
(* gameHub.ts does with the tab's connections and sends to the seat of its *)
(* room.  In between are sockets that delay, break, and reach the hub late. *)
(***************************************************************************)
EXTENDS LinkOps, FiniteSets

CONSTANTS
    Sockets,        \* names of sockets, used again when both ends are gone
    NoSocket,
    Window,         \* RECONNECT_WINDOW_MS, in initial reconnect delays
    MaxDelay,       \* MAX_RECONNECT_DELAY_MS, in the same unit
    MaxGeneration,  \* bound: connections the player starts, and the closing
    MaxRooms,       \* bound: rooms of the tab's user
    MaxSequence,    \* bound: snapshots of a room
    MaxLosses       \* bound: sockets the network breaks or the hub refuses

ASSUME NoSocketAssumption == NoSocket \notin Sockets
ASSUME WindowAssumption == Window \in Nat \ {0} /\ MaxDelay \in Nat \ {0}
ASSUME BoundsAssumption == {MaxGeneration, MaxRooms, MaxSequence, MaxLosses} \subseteq Nat

VARIABLES
    view,           \* the reducer's state
    shown,          \* its state at the last render, which stateRef holds
    tab,            \* the socket client's fields
    requests,       \* ticket requests that are out, aborted ones included
    ends,           \* the hub's end of each socket that is not gone
    open,           \* the tab's end: the sockets still connecting or open
    hub,            \* byUser, the queue, the seat and the retained result
    room,           \* the room of the tab's user, with sequence 0 when it is over
    losses

vars == <<view, shown, tab, requests, ends, open, hub, room, losses>>
tabVars == <<view, shown, tab, requests>>
hubVars == <<hub, room>>

NoDeadline == -1
NewTab == [generation |-> 0, socket |-> NoSocket, timer |-> 0,
           left |-> NoDeadline, attempts |-> 0]
NoMatch == [number |-> 0, sequence |-> 0, phase |-> "waiting"]

Init ==
    /\ view = NewView
    /\ shown = NewView
    /\ tab = NewTab
    /\ requests = {}
    /\ ends = [s \in Sockets |-> NewEnd]
    /\ open = [s \in Sockets |-> "no"]
    /\ hub = [byUser |-> NoSocket, queued |-> FALSE, seat |-> NoSocket,
              away |-> FALSE, kept |-> FALSE]
    /\ room = NoMatch
    /\ losses = 0

IsCurrent(s) == tab.socket = s

\* A socket both sides are done with is forgotten, and what it carried with it.
Forgotten(e, o) == [s \in Sockets |->
    IF o[s] # "no" THEN e[s]
    ELSE IF e[s].server \in {"none", "left"} THEN NewEnd
    ELSE [e[s] EXCEPT !.down = <<>>]]

Sever(s) ==
    /\ open' = [open EXCEPT ![s] = "no"]
    /\ ends' = Forgotten(ends, open')

-----------------------------------------------------------------------------
(* The socket client *)

Request(generation, again) == [generation |-> generation, again |-> again]

\* Mutant: the timer of the old connection still runs.
ReplaceAllButTimer ==
    /\ tab' = [NewTab EXCEPT !.generation = tab.generation + 1, !.timer = tab.timer]
    /\ IF tab.socket # NoSocket THEN Sever(tab.socket) ELSE UNCHANGED <<open, ends>>

\* replaceConnection(): a new generation, and an end to whatever the old one
\* had out, its ticket request, its timer and its socket.
ReplaceConnection ==
    /\ tab' = [NewTab EXCEPT !.generation = tab.generation + 1]
    /\ IF tab.socket # NoSocket THEN Sever(tab.socket) ELSE UNCHANGED <<open, ends>>

Gone == tab.generation = MaxGeneration

\* The player starts a match, from the page as it was rendered.
Connect ==
    /\ CanStartNewMatch(shown)
    /\ tab.generation + 1 < MaxGeneration
    /\ ReplaceConnection
    /\ requests' = requests \cup {Request(tab.generation + 1, FALSE)}
    /\ view' = ConnectStarted
    /\ UNCHANGED <<shown, hubVars, losses>>

\* The page is left: the last generation.
Close ==
    /\ ~Gone
    /\ tab.generation + 1 = MaxGeneration
    /\ ReplaceConnection
    /\ UNCHANGED <<view, shown, requests, hubVars, losses>>

Delay(left) ==
    LET doubled == 2 ^ tab.attempts
        atMost(a, b) == IF a < b THEN a ELSE b
    IN  atMost(atMost(doubled, MaxDelay), left)

\* scheduleReconnect() of the current generation, with no socket: the window
\* opens with the first loss, and requests and sockets that fail use it up too;
\* when it is over the page is told.
ScheduleReconnect(lost) ==
    \E left \in IF tab.left = NoDeadline THEN {Window} ELSE 0 .. tab.left :
        IF left = 0
        THEN /\ view' = Failed(lost)
             /\ tab' = [tab EXCEPT !.socket = NoSocket, !.left = 0]
        ELSE /\ view' = lost
             /\ tab' = [tab EXCEPT !.socket = NoSocket, !.left = left,
                                   !.timer = Delay(left), !.attempts = @ + 1]

ReconnectTimer ==
    /\ tab.timer # 0
    /\ tab' = [tab EXCEPT !.timer = 0, !.left = @ - tab.timer]
    /\ requests' = requests \cup {Request(tab.generation, TRUE)}
    /\ UNCHANGED <<view, shown, ends, open, hubVars, losses>>

Fresh == {s \in Sockets : open[s] = "no" /\ ends[s] = NewEnd}

\* The ticket opens a socket, unless the request was aborted meanwhile.
TicketAnswered(r) ==
    /\ r \in requests
    /\ requests' = requests \ {r}
    /\ IF r.generation # tab.generation
       THEN UNCHANGED <<tab, open>>
       ELSE LET s == CHOOSE s \in Fresh : TRUE
            IN  /\ Fresh # {}
                /\ tab' = [tab EXCEPT !.socket = s]
                /\ open' = [open EXCEPT ![s] = IF r.again THEN "reconnecting" ELSE "connecting"]
    /\ UNCHANGED <<view, shown, ends, hubVars, losses>>

\* Mutant: the retry that fails is not followed by another.
TicketFailsOnce(r) ==
    /\ r \in requests
    /\ requests' = requests \ {r}
    /\ IF r.generation = tab.generation /\ ~r.again
       THEN view' = Failed(view)
       ELSE UNCHANGED view
    /\ UNCHANGED <<tab, shown, ends, open, hubVars, losses>>

\* A retry is followed by the next within the window; a first try is not.
TicketFails(r) ==
    /\ r \in requests
    /\ requests' = requests \ {r}
    /\ CASE r.generation # tab.generation -> UNCHANGED <<tab, view>>
         [] r.generation = tab.generation /\ r.again -> ScheduleReconnect(view)
         [] OTHER -> view' = Failed(view) /\ UNCHANGED tab
    /\ UNCHANGED <<shown, ends, open, hubVars, losses>>

\* onopen: the window is over; the first socket of a connection carries the
\* initial event, the others rely on the hub to know the player.
SocketOpens(s) ==
    /\ IsCurrent(s) /\ open[s] \in {"connecting", "reconnecting"}
    /\ tab' = [tab EXCEPT !.attempts = 0, !.left = NoDeadline]
    /\ view' = SocketOpened(view, open[s] = "reconnecting")
    /\ open' = [open EXCEPT ![s] = "open"]
    /\ ends' = [ends EXCEPT ![s].server = "handshake", ![s].joins = open[s] = "connecting"]
    /\ UNCHANGED <<shown, requests, hubVars, losses>>

\* onclose of the current socket: whether to come back is decided from the
\* page as it was rendered, not as it is.
SocketCloses(s) ==
    /\ Sever(s)
    /\ IF shown.room # NoRoom THEN ScheduleReconnect(Closed(view))
       ELSE view' = Closed(view) /\ tab' = [tab EXCEPT !.socket = NoSocket]
    /\ UNCHANGED <<shown, requests, hubVars>>

\* The network breaks it, or it never opens.
Lost(s) ==
    /\ IsCurrent(s)
    /\ losses < MaxLosses
    /\ losses' = losses + 1
    /\ SocketCloses(s)

\* The hub terminated it, or closed it after what it had sent.
ClosedByHub(s) ==
    /\ IsCurrent(s)
    /\ ends[s].server = "closing" \/ (ends[s].server = "left" /\ ends[s].down = <<>>)
    /\ SocketCloses(s)
    /\ UNCHANGED losses

Receive(s) ==
    /\ IsCurrent(s) /\ ends[s].down # <<>>
    /\ view' = Reduced(view, Head(ends[s].down))
    /\ ends' = [ends EXCEPT ![s].down = Tail(@)]
    /\ UNCHANGED <<shown, tab, requests, open, hubVars, losses>>

Render ==
    /\ shown # view
    /\ shown' = view
    /\ UNCHANGED <<view, tab, requests, ends, open, hubVars, losses>>

-----------------------------------------------------------------------------
(* The hub *)

RoomSnapshot == Snapshot(room.number, room.sequence, room.phase)
\* Mutant: who comes back has to wait for the next snapshot.
AnnouncedOnly(end, number, snapshot) == Sent(end, Matched(number))

Announced(end, number, snapshot) == Sent(Sent(end, Matched(number)), snapshot)

\* connect() after the handshake, which a slow ticket look-up may delay past
\* that of a later socket, and past the loss of this one.  A connection that
\* is still registered is replaced and its seat shows the last snapshot again;
\* a seat that is reserved is taken back, with a new one unless the opponent
\* is away too; a guest without a room is told the result that was kept.
Accept(s) ==
    LET previous == hub.byUser
        seated == previous # NoSocket /\ hub.seat = previous
        e == [ends EXCEPT ![s].server = "open"]
        unseated == [e EXCEPT ![previous].server = "left", ![previous].pending = NoSnapshot]
    IN  /\ ends[s].server = "handshake"
        /\ \/ /\ seated
              /\ hub' = [hub EXCEPT !.byUser = s, !.seat = s, !.queued = FALSE]
              /\ ends' = Forgotten([unseated EXCEPT
                            ![s] = Announced(@, room.number, RoomSnapshot)], open)
              /\ UNCHANGED room
           \/ /\ previous = NoSocket /\ hub.away
              /\ hub' = [hub EXCEPT !.byUser = s, !.seat = s, !.away = FALSE]
              /\ \/ UNCHANGED room
                 \/ /\ room.sequence < MaxSequence
                    /\ room' = [room EXCEPT !.sequence = @ + 1]
              /\ ends' = [e EXCEPT ![s] =
                            Announced(@, room.number,
                                      Snapshot(room.number, room'.sequence, room.phase))]
           \/ /\ ~seated /\ (previous = NoSocket => ~hub.away)
              /\ hub' = [hub EXCEPT !.byUser = s, !.queued = FALSE]
              /\ LET left == [e EXCEPT ![s] = IF hub.kept THEN Sent(@, Finished) ELSE @]
                 IN  ends' = IF previous = NoSocket THEN left
                             ELSE Forgotten([left EXCEPT ![previous].server = "left"], open)
              /\ UNCHANGED room
        /\ UNCHANGED <<tabVars, open, losses>>

\* The ticket is refused, or the guest has too many connections.
Refuse(s) ==
    /\ ends[s].server = "handshake"
    /\ losses < MaxLosses
    /\ losses' = losses + 1
    /\ ends' = Forgotten([ends EXCEPT ![s].server = "left"], open)
    /\ UNCHANGED <<tabVars, open, hubVars>>

\* The initial event: it queues the player, or is refused because the player
\* has a room, is queued already or the server drains.
JoinQueue(s) ==
    /\ ends[s].joins /\ ends[s].server = "open"
    /\ LET e == [ends EXCEPT ![s].joins = FALSE]
       IN  \/ /\ hub.byUser = s /\ hub.seat # s /\ ~hub.queued
              /\ hub' = [hub EXCEPT !.queued = TRUE]
              /\ ends' = e
           \/ /\ ends' = [e EXCEPT ![s] = Sent(@, Error)]
              /\ UNCHANGED hub
    /\ UNCHANGED <<tabVars, open, room, losses>>

\* createRoom().
CreateRoom ==
    /\ hub.queued /\ room.sequence = 0 /\ room.number < MaxRooms
    /\ room' = [number |-> room.number + 1, sequence |-> 1, phase |-> "waiting"]
    /\ hub' = [hub EXCEPT !.queued = FALSE, !.seat = hub.byUser]
    /\ ends' = [ends EXCEPT ![hub.byUser] =
                  Announced(@, room'.number, Snapshot(room'.number, 1, "waiting"))]
    /\ UNCHANGED <<tabVars, open, losses>>

Follows(phase, next) ==
    \/ next = phase
    \/ <<phase, next>> \in {<<"waiting", "playing">>, <<"playing", "paused">>,
                           <<"paused", "playing">>}

\* broadcastSnapshot() after a step, a ready, a pause, a resume or the loss and
\* the return of the opponent.
BroadcastSnapshot(phase) ==
    /\ room.sequence \in 1 .. MaxSequence - 1
    /\ Follows(room.phase, phase)
    /\ room' = [room EXCEPT !.sequence = @ + 1, !.phase = phase]
    /\ ends' = IF hub.seat = NoSocket THEN ends
               ELSE [ends EXCEPT ![hub.seat] =
                       Sent(@, Snapshot(room.number, room.sequence + 1, phase))]
    /\ UNCHANGED <<tabVars, open, hub, losses>>

\* game.finished, and the seat is free; guests may ask for it again.
FinishRoom ==
    /\ room.sequence # 0
    /\ room' = [room EXCEPT !.sequence = 0, !.phase = "waiting"]
    /\ hub' = [hub EXCEPT !.seat = NoSocket, !.away = FALSE, !.kept = TRUE]
    /\ ends' = IF hub.seat = NoSocket THEN ends
               ELSE [ends EXCEPT ![hub.seat] = Sent(@, Finished)]
    /\ UNCHANGED <<tabVars, open, losses>>

\* Nobody came back.
AbandonRoom ==
    /\ hub.away
    /\ room' = [room EXCEPT !.sequence = 0, !.phase = "waiting"]
    /\ hub' = [hub EXCEPT !.away = FALSE]
    /\ UNCHANGED <<tabVars, ends, open, losses>>

\* The result is kept for a while, and for guests only.
ForgetResult ==
    /\ hub.kept
    /\ hub' = [hub EXCEPT !.kept = FALSE]
    /\ UNCHANGED <<tabVars, ends, open, room, losses>>

\* disconnect(): the tab's end is gone, or the hub terminated the socket.  A
\* connection that was replaced is not looked at again.
Disconnect(s) ==
    /\ \/ ends[s].server \in {"handshake", "open"} /\ open[s] = "no"
       \/ ends[s].server = "closing"
    /\ ends' = Forgotten([ends EXCEPT ![s].server = "left", ![s].pending = NoSnapshot], open)
    /\ IF hub.byUser # s THEN UNCHANGED hubVars
       ELSE /\ hub' = [hub EXCEPT !.byUser = NoSocket, !.queued = FALSE,
                                  !.seat = NoSocket, !.away = @ \/ hub.seat = s]
            /\ IF hub.seat = s /\ room.sequence < MaxSequence
               THEN room' = [room EXCEPT !.sequence = @ + 1, !.phase = "paused"]
               ELSE UNCHANGED room
    /\ UNCHANGED <<tabVars, open, losses>>

\* The tab reads slower, or faster, than the hub writes; only a room writes
\* enough for that.
Congest(s, jam) ==
    /\ hub.seat = s /\ IsCurrent(s)
    /\ ends[s].server = "open" /\ ends[s].jam # jam
    /\ ends' = [ends EXCEPT ![s].jam = jam]
    /\ UNCHANGED <<tabVars, open, hubVars, losses>>

\* The retry timer of a snapshot that waits.
Retry(s) ==
    /\ ends[s].server = "open" /\ ends[s].pending # NoSnapshot
    /\ ends' = [ends EXCEPT ![s] = Drained(@, ends[s].waited + 1)]
    /\ UNCHANGED <<tabVars, open, hubVars, losses>>

-----------------------------------------------------------------------------
Client ==
    \/ Connect \/ Close \/ ReconnectTimer \/ Render
    \/ \E r \in requests : TicketAnswered(r) \/ TicketFails(r)
    \/ \E s \in Sockets : SocketOpens(s) \/ Lost(s) \/ ClosedByHub(s) \/ Receive(s)

Hub ==
    \/ CreateRoom \/ FinishRoom \/ AbandonRoom \/ ForgetResult
    \/ \E phase \in Phases : BroadcastSnapshot(phase)
    \/ \E s \in Sockets : \/ Accept(s) \/ Refuse(s) \/ JoinQueue(s)
                          \/ Disconnect(s) \/ Retry(s)
                          \/ \E jam \in {"low", "soft", "hard"} : Congest(s, jam)

Next == Client \/ Hub

Spec == Init /\ [][Next]_vars

\* Timers fire, requests are answered one way or the other, what is in a socket
\* arrives, both ends learn of a loss, and React renders.
FairSpec ==
    /\ Spec
    /\ WF_vars(ReconnectTimer) /\ WF_vars(Render)
    /\ WF_vars(\E r \in requests : TicketAnswered(r) \/ TicketFails(r))
    /\ WF_vars(\E s \in Sockets : SocketOpens(s) \/ ClosedByHub(s) \/ Receive(s))
    /\ WF_vars(\E s \in Sockets : Accept(s))
    /\ WF_vars(\E s \in Sockets : Disconnect(s)) /\ WF_vars(\E s \in Sockets : Retry(s))

-----------------------------------------------------------------------------
\* A tab never has two ways to the hub at once: of the live ticket request, the
\* reconnect timer and the socket there is one at most, no other socket of the
\* tab is open, and once the page is left there is none (GameSocketClient).
OneAttempt ==
    LET live == {r \in requests : r.generation = tab.generation}
    IN  /\ Cardinality(live) + (IF tab.timer # 0 THEN 1 ELSE 0)
             + (IF tab.socket # NoSocket THEN 1 ELSE 0) <= IF Gone THEN 0 ELSE 1
        /\ \A s \in Sockets : open[s] # "no" <=> tab.socket = s

\* When nothing is on its way, a tab whose socket holds the seat shows the
\* room's last snapshot, whatever was congested, replaced or lost before.
CaughtUp ==
    LET s == tab.socket
    IN  s # NoSocket /\ hub.seat = s /\ ends[s].server = "open"
          /\ ends[s].down = <<>> /\ ends[s].pending = NoSnapshot
        => view.room = room.number /\ view.last >= room.sequence

\* A snapshot that waits is sent or replaced until it is, or its socket ends.
SnapshotsGetOut ==
    (\E s \in Sockets : ends[s].pending # NoSnapshot)
        ~> (\A s \in Sockets : ends[s].pending = NoSnapshot)

\* A tab that waits to come back to its room gets there, is told that it
\* failed, or the room ends without it.  (A tab that had not rendered the room
\* when it lost the socket does not wait: SocketCloses.)
Returning == tab.timer # 0 /\ view.room # NoRoom
ReturnsToRoom ==
    Returning ~> \/ hub.seat # NoSocket /\ hub.seat = tab.socket
                 \/ view.status = "failed" \/ room.sequence = 0 \/ Gone
=============================================================================
