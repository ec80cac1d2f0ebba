--------------------------- MODULE BrowserLinkProofs ---------------------------
(***************************************************************************)
(* Theorems about a tab and its place in the hub, for any number of        *)
(* sockets, connections, rooms, snapshots and losses.                      *)
(***************************************************************************)
EXTENDS BrowserLink, FiniteSetTheorems, SequenceTheorems, TLAPS

-----------------------------------------------------------------------------
(* Types *)

Snapshots == [type : {"game.snapshot"}, room : Nat, sequence : Nat, phase : Phases]
Events == [type : {"queue.matched"}, room : Nat] \cup Snapshots \cup {Finished, Error}
Views == [status : Statuses, room : Nat, last : Int]
Ends == [server : {"none", "handshake", "open", "closing", "left"},
         jam : {"low", "soft", "hard"},
         pending : {NoSnapshot} \cup {<<e>> : e \in Snapshots},
         waited : Nat, down : Seq(Events), joins : BOOLEAN]

\* The fields of the socket client; of the timer only whether it runs matters.
IsTab(t) ==
    /\ t = [generation |-> t.generation, socket |-> t.socket, timer |-> t.timer,
            left |-> t.left, attempts |-> t.attempts]
    /\ t.generation \in Nat
    /\ t.socket \in Sockets \cup {NoSocket}

TypeInv ==
    /\ view \in Views /\ shown \in Views
    /\ IsTab(tab)
    /\ requests \subseteq [generation : Nat, again : BOOLEAN]
    /\ ends \in [Sockets -> Ends]
    /\ open \in [Sockets -> {"no", "connecting", "reconnecting", "open"}]
    /\ hub \in [byUser : Sockets \cup {NoSocket}, queued : BOOLEAN,
                seat : Sockets \cup {NoSocket}, away : BOOLEAN, kept : BOOLEAN]
    /\ room \in [number : Nat, sequence : Nat, phase : Phases]
    /\ losses \in Nat

\* What the constructors of events make.
LEMMA EventFacts ==
  ASSUME NEW n \in Nat, NEW q \in Nat, NEW phase \in Phases
  PROVE  /\ Matched(n) \in Events
         /\ Snapshot(n, q, phase) \in Snapshots /\ Snapshot(n, q, phase) \in Events
         /\ Snapshot(n, q, phase).type = "game.snapshot"
  BY DEF Matched, Snapshot, Snapshots, Events

\* A sequence with the snapshot that waited at its end.
LEMMA DrainedDown ==
  ASSUME NEW end \in Ends
  PROVE  /\ end.down \o end.pending \in Seq(Events)
         /\ end.down \in Seq(Events) /\ Len(end.down) \in Nat
         /\ \A i \in 1 .. Len(end.down) : (end.down \o end.pending)[i] = end.down[i]
         /\ end.pending = NoSnapshot => Len(end.down \o end.pending) = Len(end.down)
         /\ end.pending # NoSnapshot =>
               /\ end.pending[1] \in Snapshots
               /\ Len(end.down \o end.pending) = Len(end.down) + 1
               /\ (end.down \o end.pending)[Len(end.down) + 1] = end.pending[1]
<1>1. end.down \in Seq(Events) /\ Len(end.down) \in Nat
  BY DEF Ends
<1>2. CASE end.pending = NoSnapshot
  <2>1. end.down \o end.pending = end.down
    BY <1>1, <1>2, ConcatEmptySeq DEF NoSnapshot
  <2> QED BY <1>1, <1>2, <2>1
<1>3. CASE end.pending # NoSnapshot
  <2>1. PICK e \in Snapshots : end.pending = <<e>>
    BY <1>3 DEF Ends
  <2>2. e \in Events /\ <<e>> \in Seq(Events) /\ Len(<<e>>) = 1 /\ <<e>>[1] = e
    BY <2>1 DEF Events
  <2>3. /\ end.down \o <<e>> \in Seq(Events)
        /\ Len(end.down \o <<e>>) = Len(end.down) + 1
        /\ \A i \in 1 .. Len(end.down) + 1 : (end.down \o <<e>>)[i] =
              IF i <= Len(end.down) THEN end.down[i] ELSE <<e>>[i - Len(end.down)]
    BY <1>1, <2>2, ConcatProperties
  <2>4. (end.down \o <<e>>)[Len(end.down) + 1] = <<e>>[Len(end.down) + 1 - Len(end.down)]
    BY <1>1, <2>3
  <2>5. Len(end.down) + 1 - Len(end.down) = 1
    BY <1>1
  <2>6. \A i \in 1 .. Len(end.down) : (end.down \o <<e>>)[i] = end.down[i]
    BY <1>1, <2>3
  <2> QED BY <1>1, <1>3, <2>1, <2>2, <2>3, <2>4, <2>5, <2>6
<1> QED BY <1>2, <1>3

LEMMA DrainedTyped ==
  ASSUME NEW end \in Ends, NEW waited \in Nat
  PROVE  Drained(end, waited) \in Ends
<1>1. Terminated(end) \in Ends
  BY DEF Terminated, Ends
<1>2. end.down \o end.pending \in Seq(Events)
  BY DrainedDown
<1>3. [end EXCEPT !.waited = waited] \in Ends
  BY DEF Ends
<1>4. [end EXCEPT !.waited = 0, !.pending = NoSnapshot, !.down = @ \o end.pending] \in Ends
  BY <1>2 DEF Ends
<1>5. end.jam \in {"low", "soft", "hard"}
  BY DEF Ends
<1> QED BY <1>1, <1>3, <1>4, <1>5 DEF Drained

LEMMA SentTyped ==
  ASSUME NEW end \in Ends, NEW e \in Events
  PROVE  Sent(end, e) \in Ends
<1>1. CASE e.type = "game.snapshot"
  <2>1. e \in Snapshots
    BY <1>1 DEF Events, Finished, Error
  <2>2. [end EXCEPT !.pending = <<e>>] \in Ends /\ end.waited \in Nat
    BY <2>1 DEF Ends
  <2>3. Enqueued(end, e) \in Ends
    BY <2>2, DrainedTyped DEF Enqueued
  <2> QED BY <1>1, <2>3 DEF Sent
<1>2. CASE e.type # "game.snapshot"
  <2>1. Append(end.down, e) \in Seq(Events)
    BY DEF Ends
  <2>2. SentAtOnce(end, e) \in Ends
    BY <2>1 DEF SentAtOnce, Ends
  <2> QED BY <1>2, <2>2 DEF Sent
<1> QED BY <1>1, <1>2

LEMMA AnnouncedTyped ==
  ASSUME NEW end \in Ends, NEW n \in Nat, NEW e \in Snapshots
  PROVE  Announced(end, n, e) \in Ends
<1>1. Matched(n) \in Events /\ e \in Events
  BY DEF Matched, Events
<1> QED BY <1>1, SentTyped DEF Announced

LEMMA ReducedTyped ==
  ASSUME NEW v \in Views, NEW e \in Events
  PROVE  Reduced(v, e) \in Views
<1>1. CASE e.type = "queue.matched"
  <2>1. e.room \in Nat
    BY <1>1 DEF Events, Snapshots, Finished, Error
  <2> QED BY <1>1, <2>1 DEF Reduced, MatchedIn, Views, Statuses
<1>2. CASE e.type = "game.snapshot"
  <2>1. e \in Snapshots
    BY <1>2 DEF Events, Finished, Error
  <2>2. StatusFor(e.phase) \in Statuses /\ e.room \in Nat /\ e.sequence \in Int
    BY <2>1 DEF Snapshots, StatusFor, Phases, Statuses
  <2> QED BY <1>2, <2>2 DEF Reduced, Seen, Views
<1>3. CASE e.type = "game.finished"
  BY <1>3 DEF Reduced, GameFinished, Views, Statuses, NoRoom
<1>4. CASE e.type = "error"
  BY <1>4 DEF Reduced, Failed, Views, Statuses
<1>5. e.type \in {"queue.matched", "game.snapshot", "game.finished", "error"}
  BY DEF Events, Snapshots, Finished, Error
<1> QED BY <1>1, <1>2, <1>3, <1>4, <1>5

LEMMA ForgottenTyped ==
  ASSUME NEW e \in [Sockets -> Ends], NEW o
  PROVE  Forgotten(e, o) \in [Sockets -> Ends]
<1>1. NewEnd \in Ends
  BY EmptySeq DEF NewEnd, Ends, NoSnapshot
<1>2. \A s \in Sockets : [e[s] EXCEPT !.down = <<>>] \in Ends
  BY EmptySeq DEF Ends
<1> QED BY <1>1, <1>2 DEF Forgotten

-----------------------------------------------------------------------------
(* One way to the hub *)

Live == {r \in requests : r.generation = tab.generation}

\* No request is of a generation to come, and what the present one has out is
\* one thing: a request, a timer or a socket.
AttemptInv ==
    /\ \A r \in requests : r.generation <= tab.generation
    /\ \A q, r \in Live : q = r
    /\ Live # {} => tab.timer = 0 /\ tab.socket = NoSocket
    /\ tab.timer # 0 => tab.socket = NoSocket
    /\ Gone => Live = {} /\ tab.timer = 0 /\ tab.socket = NoSocket
    /\ \A s \in Sockets : open[s] # "no" <=> tab.socket = s

-----------------------------------------------------------------------------
(* What is on its way to the tab *)

\* An event that leaves a tab that shows room n in it.
StaysIn(e, n) == e = Error \/ (e.type \in {"queue.matched", "game.snapshot"} /\ e.room = n)

\* The tab shows room n or will be told of it, and nothing after that leads out.
RoomComes(v, end, n) ==
    \E i \in 0 .. Len(end.down) :
        /\ IF i = 0 THEN v.room = n ELSE end.down[i] = Matched(n)
        /\ \A j \in i + 1 .. Len(end.down) : StaysIn(end.down[j], n)
        /\ end.pending # NoSnapshot => StaysIn(end.pending[1], n)

IsUpTo(e, q) == e.type = "game.snapshot" /\ e.sequence >= q

\* The tab has snapshot q or a later one, or it is on its way or waits.
SnapshotComes(v, end, q) ==
    \/ v.last >= q
    \/ \E i \in 1 .. Len(end.down) : IsUpTo(end.down[i], q)
    \/ end.pending # NoSnapshot /\ IsUpTo(end.pending[1], q)

Comes(v, end, n, q) == RoomComes(v, end, n) /\ SnapshotComes(v, end, q)

SeatInv ==
    /\ hub.seat # NoSocket => hub.seat = hub.byUser
    /\ hub.byUser # NoSocket => ends[hub.byUser].server \in {"open", "closing"}
    /\ hub.queued => hub.byUser # NoSocket
    /\ hub.away => hub.byUser = NoSocket
    /\ \A s \in Sockets : open[s] \in {"connecting", "reconnecting"} => ends[s].server = "none"

ComesInv ==
    LET s == hub.seat
    IN  s # NoSocket /\ tab.socket = s /\ ends[s].server = "open" =>
            Comes(view, ends[s], room.number, room.sequence)

-----------------------------------------------------------------------------
(* Types of every step *)

LEMMA NewEndTyped == NewEnd \in Ends
  BY EmptySeq DEF NewEnd, Ends, NoSnapshot

LEMMA SeverTyped ==
  ASSUME TypeInv, NEW s, Sever(s)
  PROVE  /\ open' \in [Sockets -> {"no", "connecting", "reconnecting", "open"}]
         /\ ends' \in [Sockets -> Ends]
<1>1. open' \in [Sockets -> {"no", "connecting", "reconnecting", "open"}]
  BY DEF TypeInv, Sever
<1>2. Forgotten(ends, open') \in [Sockets -> Ends]
  BY ForgottenTyped DEF TypeInv
<1> QED BY <1>1, <1>2 DEF Sever

LEMMA ReplaceTyped ==
  ASSUME TypeInv, ReplaceConnection
  PROVE  /\ IsTab(tab')
         /\ open' \in [Sockets -> {"no", "connecting", "reconnecting", "open"}]
         /\ ends' \in [Sockets -> Ends]
         /\ tab'.generation = tab.generation + 1
         /\ tab'.socket = NoSocket /\ tab'.timer = 0
<1>1. /\ IsTab(tab') /\ tab'.generation = tab.generation + 1
      /\ tab'.socket = NoSocket /\ tab'.timer = 0
  BY DEF TypeInv, ReplaceConnection, IsTab, NewTab
<1>2. CASE tab.socket # NoSocket
  BY <1>1, <1>2, SeverTyped DEF ReplaceConnection
<1>3. CASE tab.socket = NoSocket
  BY <1>1, <1>3 DEF ReplaceConnection, TypeInv
<1> QED BY <1>2, <1>3

\* What is left of the window is all that a reconnect timer depends on.
LEMMA ScheduleTyped ==
  ASSUME TypeInv, NEW lost \in Views, ScheduleReconnect(lost)
  PROVE  /\ view' \in Views /\ view'.room = lost.room /\ view'.last = lost.last
         /\ IsTab(tab')
         /\ tab'.generation = tab.generation /\ tab'.socket = NoSocket
<1>1. PICK left : IF left = 0
        THEN /\ view' = Failed(lost)
             /\ tab' = [tab EXCEPT !.socket = NoSocket, !.left = 0]
        ELSE /\ view' = lost
             /\ tab' = [tab EXCEPT !.socket = NoSocket, !.left = left,
                                   !.timer = Delay(left), !.attempts = @ + 1]
  BY DEF ScheduleReconnect
<1>2. Failed(lost) \in Views /\ Failed(lost).room = lost.room /\ Failed(lost).last = lost.last
  BY DEF Failed, Views, Statuses
<1> QED BY <1>1, <1>2 DEF TypeInv, IsTab

LEMMA ClosedTyped ==
  ASSUME TypeInv, NEW s, SocketCloses(s)
  PROVE  /\ view' \in Views /\ IsTab(tab')
         /\ tab'.generation = tab.generation /\ tab'.socket = NoSocket
         /\ tab'.timer # 0 => tab.timer # 0 \/ tab'.socket = NoSocket
         /\ open' \in [Sockets -> {"no", "connecting", "reconnecting", "open"}]
         /\ ends' \in [Sockets -> Ends]
<1>1. Closed(view) \in Views
  BY DEF TypeInv, Closed, Views, Statuses
<1>2. Sever(s)
  BY DEF SocketCloses
<1>3. CASE shown.room # NoRoom
  BY <1>1, <1>2, <1>3, SeverTyped, ScheduleTyped DEF SocketCloses
<1>4. CASE shown.room = NoRoom
  <2>1. view' = Closed(view) /\ tab' = [tab EXCEPT !.socket = NoSocket]
    BY <1>4 DEF SocketCloses
  <2>2. IsTab(tab') /\ tab'.generation = tab.generation /\ tab'.socket = NoSocket
    BY <2>1 DEF TypeInv, IsTab
  <2> QED BY <1>1, <1>2, <2>1, <2>2, SeverTyped
<1> QED BY <1>3, <1>4

LEMMA TypesInitially == Init => TypeInv
  BY NewEndTyped DEF Init, TypeInv, NewView, NewTab, NoMatch, NoRoom, Views, Statuses, IsTab, Phases

LEMMA ClientTypes ==
  ASSUME TypeInv, Client
  PROVE  TypeInv'
<1> USE DEF tabVars, hubVars
<1>1. CASE Connect
  <2>1. Request(tab.generation + 1, FALSE) \in [generation : Nat, again : BOOLEAN]
    BY DEF TypeInv, IsTab, Request
  <2>2. ConnectStarted \in Views
    BY DEF ConnectStarted, NewView, NoRoom, Views, Statuses
  <2> QED BY <1>1, <2>1, <2>2, ReplaceTyped DEF TypeInv, Connect
<1>2. CASE Close
  BY <1>2, ReplaceTyped DEF TypeInv, Close
<1>3. CASE ReconnectTimer
  <2>1. Request(tab.generation, TRUE) \in [generation : Nat, again : BOOLEAN]
    BY DEF TypeInv, IsTab, Request
  <2>2. IsTab(tab')
    BY <1>3 DEF TypeInv, IsTab, ReconnectTimer
  <2> QED BY <1>3, <2>1, <2>2 DEF TypeInv, ReconnectTimer
<1>4. CASE Render
  BY <1>4 DEF Render, TypeInv
<1>5. ASSUME NEW r \in requests, TicketAnswered(r)
      PROVE  TypeInv'
  <2>1. CASE r.generation # tab.generation
    BY <1>5, <2>1 DEF TicketAnswered, TypeInv
  <2>2. CASE r.generation = tab.generation
    <3>1. PICK s \in Fresh :
             /\ tab' = [tab EXCEPT !.socket = s]
             /\ open' = [open EXCEPT ![s] = IF r.again THEN "reconnecting" ELSE "connecting"]
      BY <1>5, <2>2 DEF TicketAnswered
    <3>2. IsTab(tab')
      BY <3>1 DEF TypeInv, IsTab, Fresh
    <3> QED BY <1>5, <3>1, <3>2 DEF TicketAnswered, TypeInv
  <2> QED BY <2>1, <2>2
<1>6. ASSUME NEW r \in requests, TicketFails(r)
      PROVE  TypeInv'
  <2>1. CASE r.generation # tab.generation
    BY <1>6, <2>1 DEF TicketFails, TypeInv
  <2>2. CASE r.generation = tab.generation /\ r.again
    <3>1. ScheduleReconnect(view) /\ view \in Views
      BY <1>6, <2>2 DEF TicketFails, TypeInv
    <3> QED BY <1>6, <3>1, ScheduleTyped DEF TicketFails, TypeInv
  <2>3. CASE r.generation = tab.generation /\ ~r.again
    <3>1. view' = Failed(view) /\ tab' = tab
      BY <1>6, <2>3 DEF TicketFails
    <3>2. view' \in Views
      BY <3>1 DEF Failed, TypeInv, Views, Statuses
    <3> QED BY <1>6, <3>1, <3>2 DEF TicketFails, TypeInv
  <2> QED BY <2>1, <2>2, <2>3
<1>7. ASSUME NEW s \in Sockets, SocketOpens(s)
      PROVE  TypeInv'
  <2>1. view' \in Views
    BY <1>7 DEF SocketOpens, SocketOpened, TypeInv, Views, Statuses
  <2>2. IsTab(tab')
    BY <1>7 DEF SocketOpens, TypeInv, IsTab
  <2>3. ends' \in [Sockets -> Ends]
    <3>1. ends[s] \in Ends
      BY DEF TypeInv
    <3>2. [ends[s] EXCEPT !.server = "handshake", !.joins = open[s] = "connecting"] \in Ends
      BY <3>1 DEF Ends
    <3>3. ends' = [ends EXCEPT ![s] =
             [ends[s] EXCEPT !.server = "handshake", !.joins = open[s] = "connecting"]]
      BY <1>7 DEF SocketOpens, TypeInv, Ends
    <3> QED BY <3>2, <3>3 DEF TypeInv
  <2> QED BY <1>7, <2>1, <2>2, <2>3 DEF SocketOpens, TypeInv
<1>8. ASSUME NEW s \in Sockets, Lost(s)
      PROVE  TypeInv'
  BY <1>8, ClosedTyped DEF Lost, SocketCloses, TypeInv
<1>9. ASSUME NEW s \in Sockets, ClosedByHub(s)
      PROVE  TypeInv'
  BY <1>9, ClosedTyped DEF ClosedByHub, SocketCloses, TypeInv
<1>10. ASSUME NEW s \in Sockets, Receive(s)
       PROVE  TypeInv'
  <2>1. ends[s] \in Ends /\ ends[s].down \in Seq(Events) /\ ends[s].down # <<>>
    BY <1>10 DEF Receive, TypeInv, Ends
  <2>2. Head(ends[s].down) \in Events /\ Tail(ends[s].down) \in Seq(Events)
    BY <2>1, HeadTailProperties
  <2>3. view' \in Views
    BY <1>10, <2>2, ReducedTyped DEF Receive, TypeInv
  <2>4. ends' \in [Sockets -> Ends]
    <3>1. [ends[s] EXCEPT !.down = Tail(ends[s].down)] \in Ends
      BY <2>1, <2>2 DEF Ends
    <3>2. ends' = [ends EXCEPT ![s] = [ends[s] EXCEPT !.down = Tail(ends[s].down)]]
      BY <1>10 DEF Receive
    <3> QED BY <3>1, <3>2 DEF TypeInv
  <2> QED BY <1>10, <2>3, <2>4 DEF Receive, TypeInv
<1> QED BY <1>1, <1>2, <1>3, <1>4, <1>5, <1>6, <1>7, <1>8, <1>9, <1>10 DEF Client

\* The room's next snapshot.
LEMMA NextSnapshotTyped ==
  ASSUME TypeInv, NEW phase \in Phases
  PROVE  /\ room.sequence \in Nat /\ room.sequence + 1 \in Nat /\ room.phase \in Phases
         /\ [room EXCEPT !.sequence = room.sequence + 1]
               \in [number : Nat, sequence : Nat, phase : Phases]
         /\ [room EXCEPT !.sequence = room.sequence + 1, !.phase = phase]
               \in [number : Nat, sequence : Nat, phase : Phases]
<1>1. room \in [number : Nat, sequence : Nat, phase : Phases]
  BY DEF TypeInv
<1>2. PICK n \in Nat, q \in Nat, p \in Phases :
         room = [number |-> n, sequence |-> q, phase |-> p]
  BY <1>1
<1>3. q + 1 \in Nat
  OBVIOUS
<1> HIDE DEF Phases
<1> QED BY <1>2, <1>3

\* A field of an end set to another value.
LEMMA EndTyped ==
  ASSUME NEW e \in [Sockets -> Ends], NEW s \in Sockets
  PROVE  /\ \A v \in {"none", "handshake", "open", "closing", "left"} :
                [e EXCEPT ![s].server = v] \in [Sockets -> Ends]
         /\ \A v \in {"none", "handshake", "open", "closing", "left"} :
                [e EXCEPT ![s].server = v, ![s].pending = NoSnapshot] \in [Sockets -> Ends]
         /\ [e EXCEPT ![s].joins = FALSE] \in [Sockets -> Ends]
         /\ \A jam \in {"low", "soft", "hard"} : [e EXCEPT ![s].jam = jam] \in [Sockets -> Ends]
<1>1. \A v \in {"none", "handshake", "open", "closing", "left"} :
         /\ [e[s] EXCEPT !.server = v] \in Ends
         /\ [e[s] EXCEPT !.server = v, !.pending = NoSnapshot] \in Ends
  BY DEF Ends
<1>2. /\ [e[s] EXCEPT !.joins = FALSE] \in Ends
      /\ \A jam \in {"low", "soft", "hard"} : [e[s] EXCEPT !.jam = jam] \in Ends
  BY DEF Ends
<1>3. \A v \in {"none", "handshake", "open", "closing", "left"} :
         [e EXCEPT ![s].server = v] = [e EXCEPT ![s] = [e[s] EXCEPT !.server = v]]
  OBVIOUS
<1>4. \A v \in {"none", "handshake", "open", "closing", "left"} :
         [e EXCEPT ![s].server = v, ![s].pending = NoSnapshot] =
         [e EXCEPT ![s] = [e[s] EXCEPT !.server = v, !.pending = NoSnapshot]]
  OBVIOUS
<1>5. /\ [e EXCEPT ![s].joins = FALSE] = [e EXCEPT ![s] = [e[s] EXCEPT !.joins = FALSE]]
      /\ \A jam \in {"low", "soft", "hard"} :
            [e EXCEPT ![s].jam = jam] = [e EXCEPT ![s] = [e[s] EXCEPT !.jam = jam]]
  OBVIOUS
<1> QED BY <1>1, <1>2, <1>3, <1>4, <1>5

LEMMA HubTypes ==
  ASSUME TypeInv, Hub
  PROVE  TypeInv'
<1> USE DEF tabVars, hubVars
<1>1. CASE CreateRoom
  <2>1. hub.byUser \in Sockets \cup {NoSocket} /\ room' \in [number : Nat, sequence : Nat, phase : Phases]
    BY <1>1 DEF CreateRoom, TypeInv, Phases
  <2>2. Snapshot(room'.number, 1, "waiting") \in Snapshots
    BY <2>1, EventFacts DEF Phases
  <2>3. ends' \in [Sockets -> Ends]
    BY <1>1, <2>1, <2>2, AnnouncedTyped DEF CreateRoom, TypeInv
  <2> QED BY <1>1, <2>1, <2>3 DEF CreateRoom, TypeInv
<1>2. CASE FinishRoom
  <2>1. Finished \in Events
    BY DEF Events
  <2>2. ends' \in [Sockets -> Ends]
    BY <1>2, <2>1, SentTyped DEF FinishRoom, TypeInv
  <2> QED BY <1>2, <2>2 DEF FinishRoom, TypeInv, Phases
<1>3. CASE AbandonRoom
  BY <1>3 DEF AbandonRoom, TypeInv, Phases
<1>4. CASE ForgetResult
  BY <1>4 DEF ForgetResult, TypeInv
<1>5. ASSUME NEW phase \in Phases, BroadcastSnapshot(phase)
      PROVE  TypeInv'
  <2>1. Snapshot(room.number, room.sequence + 1, phase) \in Events
    BY EventFacts DEF TypeInv
  <2>2. ends' \in [Sockets -> Ends]
    BY <1>5, <2>1, SentTyped DEF BroadcastSnapshot, TypeInv
  <2>3. room' \in [number : Nat, sequence : Nat, phase : Phases]
    BY <1>5, NextSnapshotTyped DEF BroadcastSnapshot
  <2> QED BY <1>5, <2>2, <2>3 DEF BroadcastSnapshot, TypeInv
<1>6. ASSUME NEW s \in Sockets, Accept(s)
      PROVE  TypeInv'
  <2> DEFINE e == [ends EXCEPT ![s].server = "open"]
  <2>1. e \in [Sockets -> Ends]
    BY EndTyped DEF TypeInv
  <2>2. ASSUME NEW q \in Nat
        PROVE  Snapshot(room.number, q, room.phase) \in Snapshots
    BY EventFacts DEF TypeInv
  <2>3. CASE hub.byUser # NoSocket /\ hub.seat = hub.byUser
    <3> DEFINE f == [e EXCEPT ![hub.byUser].server = "left",
                              ![hub.byUser].pending = NoSnapshot]
    <3>1. f \in [Sockets -> Ends]
      BY <2>1, <2>3, EndTyped DEF TypeInv
    <3>2. Announced(f[s], room.number, RoomSnapshot) \in Ends
      BY <2>2, <3>1, AnnouncedTyped DEF TypeInv, RoomSnapshot
    <3> HIDE DEF e
    <3>3. /\ ends' = Forgotten([f EXCEPT ![s] = Announced(f[s], room.number, RoomSnapshot)], open)
          /\ hub' = [hub EXCEPT !.byUser = s, !.seat = s, !.queued = FALSE] /\ room' = room
      BY <1>6, <2>3 DEF Accept, e
    <3> HIDE DEF f
    <3>4. [f EXCEPT ![s] = Announced(f[s], room.number, RoomSnapshot)] \in [Sockets -> Ends]
      BY <3>1, <3>2
    <3> QED BY <1>6, <3>3, <3>4, ForgottenTyped DEF Accept, TypeInv
  <2>4. CASE hub.byUser = NoSocket /\ hub.away
    <3> HIDE DEF e
    <3>1. /\ hub' = [hub EXCEPT !.byUser = s, !.seat = s, !.away = FALSE]
          /\ room' = room \/ room' = [room EXCEPT !.sequence = @ + 1]
          /\ ends' = [e EXCEPT ![s] = Announced(e[s], room.number,
                                         Snapshot(room.number, room'.sequence, room.phase))]
      BY <1>6, <2>4 DEF Accept, e
    <3>2. room' \in [number : Nat, sequence : Nat, phase : Phases]
      BY <3>1, NextSnapshotTyped DEF TypeInv
    <3>3. ends' \in [Sockets -> Ends]
      BY <2>1, <2>2, <3>1, <3>2, AnnouncedTyped DEF TypeInv
    <3>4. hub' \in [byUser : Sockets \cup {NoSocket}, queued : BOOLEAN,
                    seat : Sockets \cup {NoSocket}, away : BOOLEAN, kept : BOOLEAN]
      BY <3>1 DEF TypeInv
    <3>5. UNCHANGED <<tabVars, open, losses>>
      BY <1>6 DEF Accept
    <3> QED BY <3>2, <3>3, <3>4, <3>5 DEF TypeInv
  <2>5. CASE ~(hub.byUser # NoSocket /\ hub.seat = hub.byUser) /\ (hub.byUser = NoSocket => ~hub.away)
    <3> DEFINE f == [e EXCEPT ![s] = IF hub.kept THEN Sent(e[s], Finished) ELSE e[s]]
    <3>1. Finished \in Events
      BY DEF Events
    <3>2. f \in [Sockets -> Ends]
      BY <2>1, <3>1, SentTyped
    <3> HIDE DEF e
    <3>3. /\ hub' = [hub EXCEPT !.byUser = s, !.queued = FALSE] /\ room' = room
          /\ ends' = IF hub.byUser = NoSocket THEN f
                     ELSE Forgotten([f EXCEPT ![hub.byUser].server = "left"], open)
      BY <1>6, <2>5 DEF Accept, e
    <3> HIDE DEF f
    <3>4. ends' \in [Sockets -> Ends]
      BY <3>2, <3>3, EndTyped, ForgottenTyped DEF TypeInv
    <3> QED BY <1>6, <3>3, <3>4 DEF Accept, TypeInv
  <2> QED BY <2>3, <2>4, <2>5
<1>7. ASSUME NEW s \in Sockets, Refuse(s)
      PROVE  TypeInv'
  <2>1. ends' \in [Sockets -> Ends]
    BY <1>7, EndTyped, ForgottenTyped DEF Refuse, TypeInv
  <2>2. losses' \in Nat
    BY <1>7 DEF Refuse, TypeInv
  <2>3. UNCHANGED <<tabVars, open, hubVars>>
    BY <1>7 DEF Refuse
  <2> QED BY <2>1, <2>2, <2>3 DEF TypeInv
<1>8. ASSUME NEW s \in Sockets, JoinQueue(s)
      PROVE  TypeInv'
  <2>1. Error \in Events
    BY DEF Events
  <2> DEFINE e == [ends EXCEPT ![s].joins = FALSE]
  <2>2. e \in [Sockets -> Ends]
    BY EndTyped DEF TypeInv
  <2>3. Sent(e[s], Error) \in Ends
    BY <2>1, <2>2, SentTyped
  <2> HIDE DEF e
  <2>4. /\ ends' = e \/ ends' = [e EXCEPT ![s] = Sent(e[s], Error)]
        /\ hub' = hub \/ hub' = [hub EXCEPT !.queued = TRUE]
    BY <1>8 DEF JoinQueue, e
  <2>5. ends' \in [Sockets -> Ends]
    BY <2>2, <2>3, <2>4
  <2> QED BY <1>8, <2>4, <2>5 DEF JoinQueue, TypeInv
<1>9. ASSUME NEW s \in Sockets, Disconnect(s)
      PROVE  TypeInv'
  <2>1. ends' \in [Sockets -> Ends]
    BY <1>9, EndTyped, ForgottenTyped DEF Disconnect, TypeInv
  <2>2. /\ hub' \in [byUser : Sockets \cup {NoSocket}, queued : BOOLEAN,
                     seat : Sockets \cup {NoSocket}, away : BOOLEAN, kept : BOOLEAN]
        /\ room' \in [number : Nat, sequence : Nat, phase : Phases]
    <3>1. CASE hub.byUser # s
      BY <1>9, <3>1 DEF Disconnect, TypeInv
    <3>2. CASE hub.byUser = s
      <4>1. (hub.away \/ hub.seat = s) \in BOOLEAN
        OBVIOUS
      <4>2. /\ hub' = [hub EXCEPT !.byUser = NoSocket, !.queued = FALSE,
                                  !.seat = NoSocket, !.away = hub.away \/ hub.seat = s]
            /\ room' = room \/ room' = [room EXCEPT !.sequence = @ + 1, !.phase = "paused"]
        BY <1>9, <3>2 DEF Disconnect
      <4>3. room' \in [number : Nat, sequence : Nat, phase : Phases]
        <5>1. "paused" \in Phases
          BY DEF Phases
        <5> QED BY <4>2, <5>1, NextSnapshotTyped DEF TypeInv
      <4>4. hub' \in [byUser : Sockets \cup {NoSocket}, queued : BOOLEAN,
                      seat : Sockets \cup {NoSocket}, away : BOOLEAN, kept : BOOLEAN]
        BY <4>1, <4>2, Zenon DEF TypeInv
      <4> QED BY <4>3, <4>4
    <3> QED BY <3>1, <3>2
  <2> QED BY <1>9, <2>1, <2>2 DEF Disconnect, TypeInv
<1>10. ASSUME NEW s \in Sockets, Retry(s)
       PROVE  TypeInv'
  <2>1. ends[s] \in Ends /\ ends[s].waited + 1 \in Nat
    BY DEF TypeInv, Ends
  <2>2. Drained(ends[s], ends[s].waited + 1) \in Ends
    BY <2>1, DrainedTyped
  <2>3. ends' \in [Sockets -> Ends]
    BY <1>10, <2>2 DEF Retry, TypeInv
  <2> QED BY <1>10, <2>3 DEF Retry, TypeInv
<1>11. ASSUME NEW s \in Sockets, NEW jam \in {"low", "soft", "hard"}, Congest(s, jam)
       PROVE  TypeInv'
  <2>1. ends' \in [Sockets -> Ends]
    BY <1>11, EndTyped DEF Congest, TypeInv
  <2> QED BY <1>11, <2>1 DEF Congest, TypeInv
<1> QED BY <1>1, <1>2, <1>3, <1>4, <1>5, <1>6, <1>7, <1>8, <1>9, <1>10, <1>11 DEF Hub

LEMMA TypesKept == TypeInv /\ [Next]_vars => TypeInv'
<1>1. CASE UNCHANGED vars
  BY <1>1 DEF vars, TypeInv
<1> QED BY <1>1, ClientTypes, HubTypes DEF Next

\* Every variable of the tab, its sockets and its place in the hub has its type.
THEOREM TabTypes == Spec => []TypeInv
  BY TypesInitially, TypesKept, PTL DEF Spec

-----------------------------------------------------------------------------
(* One way to the hub, at every step *)

LEMMA AttemptInitially == Init => AttemptInv
  BY NoSocketAssumption DEF Init, AttemptInv, Live, NewTab

\* A socket given up leaves no other.
LEMMA SeveredAll ==
  ASSUME AttemptInv, TypeInv, NEW s, s = tab.socket, Sever(s)
  PROVE  \A t \in Sockets : open'[t] = "no"
  BY DEF AttemptInv, TypeInv, Sever

LEMMA ReplacedAll ==
  ASSUME AttemptInv, TypeInv, ReplaceConnection
  PROVE  \A t \in Sockets : open'[t] = "no"
<1>1. CASE tab.socket # NoSocket
  BY <1>1, SeveredAll DEF ReplaceConnection
<1>2. CASE tab.socket = NoSocket
  BY <1>2, NoSocketAssumption DEF ReplaceConnection, AttemptInv, TypeInv
<1> QED BY <1>1, <1>2

LEMMA ClosesAlone ==
  ASSUME AttemptInv, TypeInv, NEW s \in Sockets, IsCurrent(s), SocketCloses(s), requests' = requests
  PROVE  AttemptInv'
<1>1. tab.socket = s /\ s # NoSocket
  BY NoSocketAssumption DEF IsCurrent
<1>2. Live = {} /\ ~Gone
  BY <1>1 DEF AttemptInv
<1>3. tab'.generation = tab.generation /\ tab'.socket = NoSocket
  BY ClosedTyped
<1>4. Sever(s)
  BY DEF SocketCloses
<1>5. \A t \in Sockets : open'[t] = "no"
  BY <1>1, <1>4, SeveredAll
<1>6. Live' = {}
  BY <1>2, <1>3 DEF Live
<1>7. ~Gone'
  BY <1>2, <1>3 DEF Gone
<1> QED BY <1>3, <1>5, <1>6, <1>7, NoSocketAssumption DEF AttemptInv

LEMMA AttemptKept ==
  ASSUME TypeInv, AttemptInv, [Next]_vars
  PROVE  AttemptInv'
<1> USE DEF tabVars, hubVars
<1>1. CASE Connect
  <2> DEFINE new == Request(tab.generation + 1, FALSE)
  <2>1. /\ tab'.generation = tab.generation + 1 /\ tab'.timer = 0 /\ tab'.socket = NoSocket
        /\ \A t \in Sockets : open'[t] = "no"
    BY <1>1, ReplaceTyped, ReplacedAll DEF Connect
  <2>2. requests' = requests \cup {new} /\ new.generation = tab.generation + 1
    BY <1>1 DEF Connect, Request
  <2> HIDE DEF new
  <2>3. tab.generation \in Nat /\ \A r \in requests : r.generation \in Nat
    BY DEF TypeInv, IsTab
  <2>4. \A r \in requests : r.generation <= tab.generation
    BY DEF AttemptInv
  <2>5. Live' = {new}
    BY <2>1, <2>2, <2>3, <2>4 DEF Live
  <2>6. ~Gone'
    BY <1>1, <2>1, <2>3, BoundsAssumption DEF Connect, Gone
  <2>7. \A r \in requests' : r.generation <= tab'.generation
    BY <2>1, <2>2, <2>3, <2>4
  <2> QED BY <2>1, <2>5, <2>6, <2>7, NoSocketAssumption DEF AttemptInv
<1>2. CASE Close
  <2>1. /\ tab'.generation = tab.generation + 1 /\ tab'.timer = 0 /\ tab'.socket = NoSocket
        /\ \A t \in Sockets : open'[t] = "no"
    BY <1>2, ReplaceTyped, ReplacedAll DEF Close
  <2>2. requests' = requests
    BY <1>2 DEF Close
  <2>3. tab.generation \in Nat /\ \A r \in requests : r.generation \in Nat
    BY DEF TypeInv, IsTab
  <2>4. \A r \in requests : r.generation <= tab.generation
    BY DEF AttemptInv
  <2>5. Live' = {}
    BY <2>1, <2>2, <2>3, <2>4 DEF Live
  <2>6. \A r \in requests' : r.generation <= tab'.generation
    BY <2>1, <2>2, <2>3, <2>4
  <2> QED BY <2>1, <2>5, <2>6, NoSocketAssumption DEF AttemptInv
<1>3. CASE ReconnectTimer
  <2> DEFINE new == Request(tab.generation, TRUE)
  <2>1. /\ tab'.generation = tab.generation /\ tab'.timer = 0
        /\ tab'.socket = tab.socket /\ tab.timer # 0
        /\ requests' = requests \cup {new} /\ new.generation = tab.generation
        /\ open' = open
    BY <1>3 DEF ReconnectTimer, TypeInv, IsTab, Request
  <2> HIDE DEF new
  <2>2. Live = {} /\ tab.socket = NoSocket /\ ~Gone
    BY <2>1 DEF AttemptInv
  <2>3. Live' = {new}
    BY <2>1, <2>2 DEF Live
  <2>4. ~Gone'
    BY <2>1, <2>2 DEF Gone
  <2>5. tab.generation \in Nat
    BY DEF TypeInv, IsTab
  <2>6. \A r \in requests' : r.generation <= tab'.generation
    BY <2>1, <2>5 DEF AttemptInv
  <2> QED BY <2>1, <2>2, <2>3, <2>4, <2>6 DEF AttemptInv
<1>4. CASE Render \/ (\E s \in Sockets : Receive(s)) \/ Hub \/ UNCHANGED vars
  <2>1. requests' = requests /\ tab' = tab /\ open' = open
    <3>1. CASE Hub
      BY <3>1 DEF Hub, CreateRoom, FinishRoom, AbandonRoom, ForgetResult, BroadcastSnapshot,
                  Accept, Refuse, JoinQueue, Disconnect, Retry, Congest
    <3>2. CASE Render \/ (\E s \in Sockets : Receive(s)) \/ UNCHANGED vars
      BY <3>2 DEF Render, Receive, vars
    <3> QED BY <1>4, <3>1, <3>2
  <2> QED BY <2>1 DEF AttemptInv, Live, Gone
<1>5. ASSUME NEW r \in requests, TicketAnswered(r)
      PROVE  AttemptInv'
  <2>1. requests' = requests \ {r}
    BY <1>5 DEF TicketAnswered
  <2>2. CASE r.generation # tab.generation
    <3>1. tab' = tab /\ open' = open
      BY <1>5, <2>2 DEF TicketAnswered
    <3>2. Live' = Live
      BY <2>1, <2>2, <3>1 DEF Live
    <3> QED BY <2>1, <3>1, <3>2 DEF AttemptInv, Gone
  <2>3. CASE r.generation = tab.generation
    <3>1. r \in Live
      BY <2>3 DEF Live
    <3>2. /\ Live = {r} /\ tab.timer = 0 /\ tab.socket = NoSocket /\ ~Gone
      BY <3>1 DEF AttemptInv
    <3>3. PICK s \in Fresh :
             /\ tab' = [tab EXCEPT !.socket = s]
             /\ open' = [open EXCEPT ![s] = IF r.again THEN "reconnecting" ELSE "connecting"]
      BY <1>5, <2>3 DEF TicketAnswered
    <3>4. s \in Sockets /\ s # NoSocket
      BY NoSocketAssumption DEF Fresh
    <3>5. tab'.generation = tab.generation /\ tab'.timer = 0 /\ tab'.socket = s
      BY <3>2, <3>3 DEF TypeInv, IsTab
    <3>6. Live' = {}
      BY <2>1, <3>2, <3>5 DEF Live
    <3>7. ~Gone'
      BY <3>2, <3>5 DEF Gone
    <3>8. \A t \in Sockets : open'[t] # "no" <=> tab'.socket = t
      <4>1. \A t \in Sockets : open[t] = "no"
        BY <3>2, NoSocketAssumption DEF AttemptInv
      <4> QED BY <3>3, <3>4, <3>5, <4>1 DEF TypeInv
    <3> QED BY <2>1, <3>5, <3>6, <3>7, <3>8 DEF AttemptInv
  <2> QED BY <2>2, <2>3
<1>6. ASSUME NEW r \in requests, TicketFails(r)
      PROVE  AttemptInv'
  <2>1. requests' = requests \ {r} /\ open' = open
    BY <1>6 DEF TicketFails
  <2>2. CASE r.generation # tab.generation
    <3>1. tab' = tab
      BY <1>6, <2>2 DEF TicketFails
    <3>2. Live' = Live
      BY <2>1, <2>2, <3>1 DEF Live
    <3> QED BY <2>1, <3>1, <3>2 DEF AttemptInv, Gone
  <2>3. CASE r.generation = tab.generation
    <3>1. r \in Live
      BY <2>3 DEF Live
    <3>2. /\ Live = {r} /\ tab.timer = 0 /\ tab.socket = NoSocket /\ ~Gone
      BY <3>1 DEF AttemptInv
    <3>3. tab'.generation = tab.generation /\ tab'.socket = NoSocket
      <4>1. CASE r.again
        <5>1. ScheduleReconnect(view) /\ view \in Views
          BY <1>6, <2>3, <4>1 DEF TicketFails, TypeInv
        <5> QED BY <5>1, ScheduleTyped
      <4>2. CASE ~r.again
        BY <1>6, <2>3, <3>2, <4>2 DEF TicketFails
      <4> QED BY <4>1, <4>2
    <3>4. Live' = {}
      BY <2>1, <3>2, <3>3 DEF Live
    <3>5. ~Gone'
      BY <3>2, <3>3 DEF Gone
    <3> QED BY <2>1, <3>2, <3>3, <3>4, <3>5 DEF AttemptInv
  <2> QED BY <2>2, <2>3
<1>7. ASSUME NEW s \in Sockets, SocketOpens(s)
      PROVE  AttemptInv'
  <2>1. /\ requests' = requests /\ tab'.generation = tab.generation
        /\ tab'.timer = tab.timer /\ tab'.socket = tab.socket
        /\ tab.socket = s
    BY <1>7 DEF SocketOpens, IsCurrent, TypeInv, IsTab
  <2>2. Live' = Live /\ (Gone' <=> Gone)
    BY <2>1 DEF Live, Gone
  <2>3. \A t \in Sockets : open'[t] # "no" <=> open[t] # "no"
    BY <1>7 DEF SocketOpens, TypeInv
  <2> QED BY <2>1, <2>2, <2>3 DEF AttemptInv
<1>8. ASSUME NEW s \in Sockets, Lost(s) \/ ClosedByHub(s)
      PROVE  AttemptInv'
  BY <1>8, ClosesAlone DEF Lost, ClosedByHub, SocketCloses
<1> QED BY <1>1, <1>2, <1>3, <1>4, <1>5, <1>6, <1>7, <1>8 DEF Next, Client

LEMMA AttemptGivesOne ==
  ASSUME AttemptInv
  PROVE  OneAttempt
<1>1. Cardinality(Live) = IF Live = {} THEN 0 ELSE 1
  <2>1. CASE Live = {}
    BY <2>1, FS_EmptySet
  <2>2. CASE Live # {}
    <3>1. PICK r : r \in Live
      BY <2>2
    <3>2. Live = {r}
      BY <3>1 DEF AttemptInv
    <3> QED BY <2>2, <3>2, FS_Singleton
  <2> QED BY <2>1, <2>2
<1>2. Cardinality(Live) + (IF tab.timer # 0 THEN 1 ELSE 0)
        + (IF tab.socket # NoSocket THEN 1 ELSE 0) <= IF Gone THEN 0 ELSE 1
  BY <1>1 DEF AttemptInv
<1>3. \A s \in Sockets : open[s] # "no" <=> tab.socket = s
  BY DEF AttemptInv
<1> QED BY <1>2, <1>3 DEF OneAttempt, Live

LEMMA AttemptHolds == Spec => [](TypeInv /\ AttemptInv)
  BY TypesInitially, TypesKept, AttemptInitially, AttemptKept, PTL DEF Spec

\* A tab never has two ways to the hub at once, whatever requests, timers and
\* sockets of earlier connections are still out (GameSocketClient).
THEOREM OneWayToTheHub == Spec => []OneAttempt
  BY AttemptHolds, AttemptGivesOne, PTL

-----------------------------------------------------------------------------
(* What sending, draining and receiving keep on its way *)

\* Neither sending nor draining opens a socket.
LEMMA DrainedServer ==
  ASSUME NEW end \in Ends, NEW waited \in Nat
  PROVE  Drained(end, waited).server \in {end.server, "closing"}
<1>1. end.jam \in {"low", "soft", "hard"}
  BY DEF Ends
<1> QED BY <1>1 DEF Drained, Terminated, Ends

LEMMA SentServer ==
  ASSUME NEW end \in Ends, NEW e \in Events
  PROVE  /\ end.server # "open" => Sent(end, e) = end
         /\ end.server = "open" => Sent(end, e).server \in {"open", "closing"}
<1>1. CASE end.server = "open" /\ e.type = "game.snapshot"
  <2>1. e \in Snapshots
    BY <1>1 DEF Events, Finished, Error
  <2>2. /\ [end EXCEPT !.pending = <<e>>] \in Ends /\ end.waited \in Nat
        /\ [end EXCEPT !.pending = <<e>>].server = "open"
    BY <1>1, <2>1 DEF Ends
  <2> QED BY <1>1, <2>2, DrainedServer DEF Sent, Enqueued
<1>2. CASE end.server = "open" /\ e.type # "game.snapshot"
  BY <1>2 DEF Sent, SentAtOnce, Ends
<1>3. CASE end.server # "open"
  BY <1>3 DEF Sent
<1> QED BY <1>1, <1>2, <1>3

LEMMA AnnouncedServer ==
  ASSUME NEW end \in Ends, NEW n \in Nat, NEW e \in Snapshots
  PROVE  /\ end.server # "open" => Announced(end, n, e) = end
         /\ end.server = "open" => Announced(end, n, e).server \in {"open", "closing"}
<1>1. Matched(n) \in Events /\ e \in Events
  BY DEF Matched, Events
<1>2. Sent(end, Matched(n)) \in Ends
  BY <1>1, SentTyped
<1> QED BY <1>1, <1>2, SentServer DEF Announced

\* A snapshot that goes from the buffer onto its way is neither lost nor early.
LEMMA DrainedKeeps ==
  ASSUME NEW v, NEW end \in Ends, NEW waited \in Nat, NEW n, NEW q,
         Drained(end, waited).server = "open"
  PROVE  /\ RoomComes(v, end, n) => RoomComes(v, Drained(end, waited), n)
         /\ SnapshotComes(v, end, q) => SnapshotComes(v, Drained(end, waited), q)
<1> DEFINE d == Drained(end, waited)
<1>1. end.jam \in {"low", "soft", "hard"}
  BY DEF Ends
<1>2. CASE d.down = end.down /\ d.pending = end.pending
  BY <1>2 DEF RoomComes, SnapshotComes
<1>3. CASE end.jam = "low"
  <2>1. d.down = end.down \o end.pending /\ d.pending = NoSnapshot
    BY <1>3 DEF Drained, Ends
  <2>2. CASE end.pending = NoSnapshot
    <3>1. end.down \o end.pending = end.down
      BY <2>2, ConcatEmptySeq DEF Ends, NoSnapshot
    <3> QED BY <1>2, <2>1, <2>2, <3>1
  <2>3. CASE end.pending # NoSnapshot
    <3> DEFINE m == Len(end.down)
    <3>1. /\ m \in Nat /\ Len(d.down) = m + 1
          /\ \A i \in 1 .. m : d.down[i] = end.down[i]
          /\ d.down[m + 1] = end.pending[1]
      BY <2>1, <2>3, DrainedDown
    <3> HIDE DEF d, m
    <3>2. ASSUME RoomComes(v, end, n)
          PROVE  RoomComes(v, d, n)
      <4>1. PICK i \in 0 .. m :
              /\ IF i = 0 THEN v.room = n ELSE end.down[i] = Matched(n)
              /\ \A j \in i + 1 .. m : StaysIn(end.down[j], n)
              /\ StaysIn(end.pending[1], n)
        BY <2>3, <3>2 DEF RoomComes, m
      <4>2. i \in 0 .. Len(d.down) /\ (IF i = 0 THEN v.room = n ELSE d.down[i] = Matched(n))
        BY <3>1, <4>1
      <4>3. \A j \in i + 1 .. Len(d.down) : StaysIn(d.down[j], n)
        <5> TAKE j \in i + 1 .. Len(d.down)
        <5>1. CASE j = m + 1
          BY <3>1, <4>1, <5>1
        <5>2. CASE j # m + 1
          <6>1. j \in i + 1 .. m /\ j \in 1 .. m
            BY <3>1, <4>1, <5>2
          <6> QED BY <3>1, <4>1, <6>1
        <5> QED BY <5>1, <5>2
      <4> QED BY <2>1, <4>2, <4>3 DEF RoomComes
    <3>3. ASSUME SnapshotComes(v, end, q)
          PROVE  SnapshotComes(v, d, q)
      <4>1. \A i \in 1 .. m : i \in 1 .. Len(d.down) /\ d.down[i] = end.down[i]
        BY <3>1
      <4>2. m + 1 \in 1 .. Len(d.down) /\ d.down[m + 1] = end.pending[1]
        BY <3>1
      <4> QED BY <2>3, <3>3, <4>1, <4>2 DEF SnapshotComes, m
    <3> QED BY <3>2, <3>3 DEF d
  <2> QED BY <2>2, <2>3
<1>4. CASE end.jam = "soft"
  <2>1. waited < MaxWait
    BY <1>4, MaxWaitAssumption DEF Drained, Terminated, Ends
  <2>2. d = [end EXCEPT !.waited = waited]
    BY <1>4, <2>1, MaxWaitAssumption DEF Drained
  <2> QED BY <1>2, <2>2 DEF Ends
<1>5. CASE end.jam = "hard"
  BY <1>5 DEF Drained, Terminated, Ends
<1> QED BY <1>1, <1>3, <1>4, <1>5

\* The newest snapshot of the room takes the place of the one that waits.
LEMMA SnapshotKeeps ==
  ASSUME NEW v, NEW end \in Ends, NEW n \in Nat, NEW q \in Nat, NEW phase \in Phases,
         end.server = "open", RoomComes(v, end, n),
         Sent(end, Snapshot(n, q, phase)).server = "open"
  PROVE  Comes(v, Sent(end, Snapshot(n, q, phase)), n, q)
<1> DEFINE e == Snapshot(n, q, phase)
           w == [end EXCEPT !.pending = <<e>>]
<1>1. e \in Snapshots /\ e.type = "game.snapshot" /\ e.room = n /\ e.sequence = q
  BY EventFacts DEF Snapshot
<1>2. w \in Ends /\ w.down = end.down /\ w.pending = <<e>> /\ end.waited \in Nat
  BY <1>1 DEF Ends
<1>3. w.pending[1] = e /\ w.pending # NoSnapshot
  BY <1>2 DEF NoSnapshot
<1>4. StaysIn(e, n) /\ IsUpTo(e, q)
  BY <1>1 DEF StaysIn, IsUpTo
<1> HIDE DEF e, w
<1>5. RoomComes(v, w, n) /\ SnapshotComes(v, w, q)
  BY <1>2, <1>3, <1>4 DEF RoomComes, SnapshotComes
<1>6. Sent(end, e) = Drained(w, end.waited)
  BY <1>1 DEF Sent, Enqueued, w
<1>7. Sent(end, e).server = "open"
  BY DEF e
<1>8. Comes(v, Sent(end, e), n, q)
  BY <1>2, <1>5, <1>6, <1>7, DrainedKeeps DEF Comes
<1> QED BY <1>8 DEF e

\* An event that does not lead out of the room.
LEMMA ErrorKeeps ==
  ASSUME NEW v, NEW end \in Ends, NEW n, NEW q, end.server = "open",
         Comes(v, end, n, q), Sent(end, Error).server = "open"
  PROVE  Comes(v, Sent(end, Error), n, q)
<1> DEFINE m == Len(end.down)
           d == Sent(end, Error)
<1>1. Error \in Events /\ Error.type # "game.snapshot"
  BY DEF Events, Error
<1>2. end.jam # "hard"
  BY <1>1 DEF Sent, SentAtOnce, Ends
<1>3. d.down = Append(end.down, Error) /\ d.pending = end.pending
  BY <1>1, <1>2 DEF Sent, SentAtOnce, Ends
<1>4. end.down \in Seq(Events) /\ m \in Nat
  BY DEF Ends
<1>5. /\ Len(d.down) = m + 1 /\ d.down[m + 1] = Error
      /\ \A i \in 1 .. m : d.down[i] = end.down[i]
  BY <1>1, <1>3, <1>4, AppendProperties
<1> HIDE DEF d, m
<1>6. RoomComes(v, d, n)
  <2>1. PICK i \in 0 .. m :
          /\ IF i = 0 THEN v.room = n ELSE end.down[i] = Matched(n)
          /\ \A j \in i + 1 .. m : StaysIn(end.down[j], n)
          /\ end.pending # NoSnapshot => StaysIn(end.pending[1], n)
    BY DEF Comes, RoomComes, m
  <2>2. i \in 0 .. Len(d.down) /\ (IF i = 0 THEN v.room = n ELSE d.down[i] = Matched(n))
    BY <1>4, <1>5, <2>1
  <2>3. \A j \in i + 1 .. Len(d.down) : StaysIn(d.down[j], n)
    <3> TAKE j \in i + 1 .. Len(d.down)
    <3>1. CASE j = m + 1
      BY <1>5, <3>1 DEF StaysIn
    <3>2. CASE j # m + 1
      <4>1. j \in i + 1 .. m /\ j \in 1 .. m
        BY <1>4, <1>5, <2>1, <3>2
      <4> QED BY <1>5, <2>1, <4>1
    <3> QED BY <3>1, <3>2
  <2> QED BY <1>3, <2>1, <2>2, <2>3 DEF RoomComes
<1>7. SnapshotComes(v, d, q)
  <2>1. \A i \in 1 .. m : i \in 1 .. Len(d.down) /\ d.down[i] = end.down[i]
    BY <1>4, <1>5
  <2>2. SnapshotComes(v, end, q)
    BY DEF Comes
  <2> QED BY <1>3, <2>1, <2>2 DEF SnapshotComes, m
<1> QED BY <1>6, <1>7 DEF Comes, d

\* A seat that is taken is told its room first and its snapshot next.
LEMMA AnnouncedComes ==
  ASSUME NEW v, NEW end \in Ends, NEW n \in Nat, NEW q \in Nat, NEW phase \in Phases,
         Announced(end, n, Snapshot(n, q, phase)).server = "open"
  PROVE  Comes(v, Announced(end, n, Snapshot(n, q, phase)), n, q)
<1> DEFINE e == Snapshot(n, q, phase)
           f == Sent(end, Matched(n))
           w == [f EXCEPT !.pending = <<e>>]
           m == Len(end.down)
<1>1. /\ e \in Snapshots /\ e.type = "game.snapshot" /\ e.room = n /\ e.sequence = q
      /\ e \in Events
      /\ Matched(n) \in Events /\ Matched(n).type = "queue.matched"
  BY EventFacts DEF Snapshot, Matched
<1>2. f \in Ends
  BY <1>1, SentTyped
<1>3. Announced(end, n, e) = Sent(f, e)
  BY DEF Announced
<1>4. f.server = "open" /\ end.server = "open"
  <2>1. Sent(f, e).server = "open"
    BY <1>3
  <2>2. f.server = "open"
    BY <1>1, <1>2, <2>1, SentServer
  <2> QED BY <1>1, <2>2, SentServer
<1>5. f.down = Append(end.down, Matched(n))
  BY <1>1, <1>4 DEF Sent, SentAtOnce, Ends
<1>6. end.down \in Seq(Events) /\ m \in Nat
  BY DEF Ends
<1>7. /\ Len(f.down) = m + 1 /\ f.down[m + 1] = Matched(n)
  BY <1>1, <1>5, <1>6, AppendProperties
<1>8. w \in Ends /\ w.down = f.down /\ w.pending = <<e>> /\ f.waited \in Nat
  BY <1>1, <1>2 DEF Ends
<1>9. w.pending[1] = e /\ w.pending # NoSnapshot
  BY <1>8 DEF NoSnapshot
<1>10. StaysIn(e, n) /\ IsUpTo(e, q)
  BY <1>1 DEF StaysIn, IsUpTo
<1>11. Sent(f, e) = Drained(w, f.waited)
  BY <1>1, <1>4 DEF Sent, Enqueued
<1>12. Sent(f, e).server = "open"
  BY <1>3
<1> HIDE DEF e, f, w, m
<1>13. RoomComes(v, w, n)
  <2>1. m + 1 \in 0 .. Len(w.down) /\ m + 1 # 0 /\ m + 1 + 1 .. Len(w.down) = {}
    BY <1>6, <1>7, <1>8
  <2> QED BY <1>7, <1>8, <1>9, <1>10, <2>1 DEF RoomComes
<1>14. SnapshotComes(v, w, q)
  BY <1>9, <1>10 DEF SnapshotComes
<1>15. Comes(v, Sent(f, e), n, q)
  BY <1>8, <1>11, <1>12, <1>13, <1>14, DrainedKeeps DEF Comes
<1> QED BY <1>3, <1>15 DEF e

\* The tab reduces what comes first.
LEMMA ReceivedKeeps ==
  ASSUME NEW v \in Views, NEW end \in Ends, NEW n, NEW q \in Nat,
         end.down # <<>>, Comes(v, end, n, q)
  PROVE  Comes(Reduced(v, Head(end.down)), [end EXCEPT !.down = Tail(end.down)], n, q)
<1> DEFINE m == Len(end.down)
           d == [end EXCEPT !.down = Tail(end.down)]
           e == Head(end.down)
           u == Reduced(v, e)
<1>1. end.down \in Seq(Events)
  BY DEF Ends
<1>2. /\ e \in Events /\ e = end.down[1]
      /\ m \in Nat /\ m >= 1 /\ Len(Tail(end.down)) = m - 1
      /\ \A i \in 1 .. m - 1 : Tail(end.down)[i] = end.down[i + 1]
  BY <1>1, HeadTailProperties, EmptySeq
<1>3. d.down = Tail(end.down) /\ d.pending = end.pending
  BY DEF Ends
<1>4. e.type \in {"queue.matched", "game.snapshot", "game.finished", "error"}
  BY <1>2 DEF Events, Snapshots, Finished, Error
<1>5. /\ e.type = "game.snapshot" => e \in Snapshots
      /\ v.last \in Int
  BY <1>2 DEF Events, Matched, Finished, Error, Views
<1>6. /\ u.last >= v.last
      /\ IsUpTo(e, q) => u.last >= q
  <2>1. CASE e.type = "game.snapshot"
    <3>1. e.sequence \in Nat
      BY <1>5, <2>1 DEF Snapshots
    <3>2. u = Seen(v, e)
      BY <2>1 DEF Reduced
    <3>3. CASE e.sequence <= v.last
      BY <1>5, <3>1, <3>2, <3>3 DEF Seen, IsUpTo
    <3>4. CASE ~(e.sequence <= v.last)
      <4>1. u.last = e.sequence
        BY <3>2, <3>4 DEF Seen, Views
      <4> QED BY <1>5, <3>1, <3>4, <4>1 DEF IsUpTo
    <3> QED BY <3>3, <3>4
  <2>2. CASE e.type # "game.snapshot"
    <3>1. u.last = v.last
      BY <1>4, <2>2 DEF Reduced, MatchedIn, GameFinished, Failed, Views
    <3> QED BY <1>5, <2>2, <3>1 DEF IsUpTo
  <2> QED BY <2>1, <2>2
<1>7. /\ e = Matched(n) => u.room = n
      /\ StaysIn(e, n) /\ v.room = n => u.room = n
  <2>1. CASE e.type = "queue.matched"
    BY <2>1 DEF Reduced, MatchedIn, Matched, StaysIn, Error, Views
  <2>2. CASE e.type = "game.snapshot"
    BY <2>2 DEF Reduced, Seen, Matched, StaysIn, Error, Views
  <2>3. CASE e.type = "game.finished"
    BY <2>3 DEF Matched, StaysIn, Error
  <2>4. CASE e.type = "error"
    BY <2>4 DEF Reduced, Failed, Matched, StaysIn, Error, Views
  <2> QED BY <1>4, <2>1, <2>2, <2>3, <2>4
<1> HIDE DEF d, m, e, u
<1>8. RoomComes(u, d, n)
  <2>1. PICK i \in 0 .. m :
          /\ IF i = 0 THEN v.room = n ELSE end.down[i] = Matched(n)
          /\ \A j \in i + 1 .. m : StaysIn(end.down[j], n)
          /\ end.pending # NoSnapshot => StaysIn(end.pending[1], n)
    BY DEF Comes, RoomComes, m
  <2>2. CASE i = 0 \/ i = 1
    <3>1. u.room = n
      BY <1>2, <1>7, <2>1, <2>2
    <3>2. \A j \in 1 .. Len(d.down) : StaysIn(d.down[j], n)
      <4> TAKE j \in 1 .. Len(d.down)
      <4>1. j \in 1 .. m - 1 /\ j + 1 \in i + 1 .. m
        BY <1>2, <1>3, <2>1, <2>2
      <4> QED BY <1>2, <1>3, <2>1, <4>1
    <3>3. 0 \in 0 .. Len(d.down)
      BY <1>2, <1>3
    <3> QED BY <1>3, <2>1, <3>1, <3>2, <3>3 DEF RoomComes
  <2>3. CASE i > 1
    <3>1. i - 1 \in 0 .. Len(d.down) /\ i - 1 # 0 /\ i - 1 \in 1 .. m - 1 /\ i - 1 + 1 = i
      BY <1>2, <1>3, <2>1, <2>3
    <3>2. d.down[i - 1] = Matched(n)
      BY <1>2, <1>3, <2>1, <2>3, <3>1
    <3>3. \A j \in i - 1 + 1 .. Len(d.down) : StaysIn(d.down[j], n)
      <4> TAKE j \in i - 1 + 1 .. Len(d.down)
      <4>1. j \in 1 .. m - 1 /\ j + 1 \in i + 1 .. m
        BY <1>2, <1>3, <2>1, <2>3
      <4> QED BY <1>2, <1>3, <2>1, <4>1
    <3> QED BY <1>3, <2>1, <3>1, <3>2, <3>3 DEF RoomComes
  <2> QED BY <2>1, <2>2, <2>3
<1>9. SnapshotComes(u, d, q)
  <2>1. CASE v.last >= q
    <3>1. u.last >= q
      <4>1. u.last \in Int
        BY <1>2, ReducedTyped DEF u, Views
      <4> QED BY <1>5, <1>6, <2>1, <4>1
    <3> QED BY <3>1 DEF SnapshotComes
  <2>2. CASE \E i \in 1 .. m : IsUpTo(end.down[i], q)
    <3>1. PICK i \in 1 .. m : IsUpTo(end.down[i], q)
      BY <2>2
    <3>2. CASE i = 1
      BY <1>2, <1>6, <3>1, <3>2 DEF SnapshotComes
    <3>3. CASE i > 1
      <4>1. i - 1 \in 1 .. Len(d.down) /\ i - 1 \in 1 .. m - 1 /\ i - 1 + 1 = i
        BY <1>2, <1>3, <3>1, <3>3
      <4>2. d.down[i - 1] = end.down[i]
        BY <1>2, <1>3, <4>1
      <4> QED BY <3>1, <4>1, <4>2 DEF SnapshotComes
    <3> QED BY <1>2, <3>1, <3>2, <3>3
  <2>3. CASE end.pending # NoSnapshot /\ IsUpTo(end.pending[1], q)
    BY <1>3, <2>3 DEF SnapshotComes
  <2> QED BY <2>1, <2>2, <2>3 DEF Comes, SnapshotComes, m
<1> QED BY <1>8, <1>9 DEF Comes, u, d, e

-----------------------------------------------------------------------------
(* The seat and its socket, at every step *)

LEMMA ForgottenFacts ==
  ASSUME NEW e \in [Sockets -> Ends], NEW o, NEW t \in Sockets
  PROVE  /\ o[t] # "no" => Forgotten(e, o)[t] = e[t]
         /\ e[t].server \notin {"none", "left"} => Forgotten(e, o)[t].server = e[t].server
         /\ e[t].server = "none" => Forgotten(e, o)[t].server = "none"
<1>1. Forgotten(e, o)[t] = IF o[t] # "no" THEN e[t]
                           ELSE IF e[t].server \in {"none", "left"} THEN NewEnd
                           ELSE [e[t] EXCEPT !.down = <<>>]
  BY DEF Forgotten
<1>2. [e[t] EXCEPT !.down = <<>>].server = e[t].server /\ NewEnd.server = "none"
  BY DEF Ends, NewEnd
<1> QED BY <1>1, <1>2

LEMMA SeatInitially == Init => SeatInv
  BY DEF Init, SeatInv, NewEnd

LEMMA SeverKeepsSeat ==
  ASSUME TypeInv, SeatInv, NEW s, Sever(s), hub' = hub
  PROVE  SeatInv'
<1>1. ASSUME NEW t \in Sockets, open'[t] # "no"
      PROVE  open'[t] = open[t] /\ ends'[t] = ends[t]
  <2>1. open'[t] = open[t]
    BY <1>1 DEF Sever, TypeInv
  <2>2. ends' = Forgotten(ends, open') /\ ends \in [Sockets -> Ends]
    BY DEF Sever, TypeInv
  <2> HIDE DEF TypeInv
  <2> QED BY <1>1, <2>1, <2>2, ForgottenFacts
<1>2. ASSUME NEW t \in Sockets, ends[t].server \in {"open", "closing"}
      PROVE  ends'[t].server = ends[t].server
  BY <1>2, ForgottenFacts DEF Sever, TypeInv
<1>3. hub.byUser \in Sockets \cup {NoSocket}
  BY DEF TypeInv
<1> QED BY <1>1, <1>2, <1>3 DEF SeatInv

\* What a connection that the hub accepts finds there.
LEMMA AcceptFacts ==
  ASSUME TypeInv, SeatInv, NEW s \in Sockets, Accept(s)
  PROVE  /\ hub'.byUser = s /\ ~hub'.away
         /\ ends'[s].server \in {"open", "closing"}
         /\ \A t \in Sockets : ends[t].server = "none" => ends'[t].server = "none"
         /\ room'.number = room.number
         /\ \/ hub'.seat = NoSocket
            \/ /\ hub'.seat = s
               /\ open[s] # "no" => \E end \in Ends :
                    ends'[s] = Announced(end, room.number,
                                  Snapshot(room.number, room'.sequence, room.phase))
<1> DEFINE e == [ends EXCEPT ![s].server = "open"]
           p == hub.byUser
<1>1. ends[s].server = "handshake" /\ p \in Sockets \cup {NoSocket} /\ s # NoSocket
  BY NoSocketAssumption DEF Accept, TypeInv
<1>2. p # s /\ (p # NoSocket => p \in Sockets /\ ends[p].server \in {"open", "closing"})
  BY <1>1 DEF SeatInv
<1>3. /\ e \in [Sockets -> Ends] /\ e[s].server = "open"
      /\ \A t \in Sockets \ {s} : e[t] = ends[t]
  <2>1. e \in [Sockets -> Ends]
    BY EndTyped DEF TypeInv
  <2> QED BY <2>1 DEF TypeInv, Ends
<1>4. ASSUME NEW q \in Nat
      PROVE  Snapshot(room.number, q, room.phase) \in Snapshots
  BY EventFacts DEF TypeInv
<1>5. room.number \in Nat /\ room.sequence \in Nat /\ room.sequence + 1 \in Nat
  BY DEF TypeInv
<1>6. CASE p # NoSocket /\ hub.seat = p
  <2> DEFINE f == [e EXCEPT ![p].server = "left", ![p].pending = NoSnapshot]
             a == Announced(f[s], room.number, RoomSnapshot)
             g == [f EXCEPT ![s] = a]
  <2>1. f \in [Sockets -> Ends]
    BY <1>2, <1>3, <1>6, EndTyped
  <2>2. f[s] = e[s] /\ \A t \in Sockets \ {s, p} : f[t] = ends[t]
    BY <1>1, <1>2, <1>3, <1>6
  <2>3. a \in Ends /\ a.server \in {"open", "closing"}
    BY <1>3, <1>4, <1>5, <2>1, <2>2, AnnouncedTyped, AnnouncedServer DEF RoomSnapshot
  <2> HIDE DEF e
  <2>4. /\ ends' = Forgotten(g, open)
        /\ hub' = [hub EXCEPT !.byUser = s, !.seat = s, !.queued = FALSE] /\ room' = room
    BY <1>6, SMT DEF Accept, e
  <2> HIDE DEF f, a
  <2>5. g \in [Sockets -> Ends] /\ g[s] = a /\ \A t \in Sockets \ {s, p} : g[t] = ends[t]
    BY <2>1, <2>2, <2>3
  <2> HIDE DEF g
  <2>6. hub'.byUser = s /\ hub'.seat = s /\ hub'.away = hub.away
    BY <2>4 DEF TypeInv
  <2>7. ~hub.away
    BY <1>6 DEF SeatInv
  <2>8. ends'[s].server \in {"open", "closing"}
    BY <2>3, <2>4, <2>5, ForgottenFacts
  <2>9. ASSUME NEW t \in Sockets, ends[t].server = "none"
        PROVE  ends'[t].server = "none"
    <3>1. t # s /\ t # p
      BY <1>1, <1>2, <1>6, <2>9
    <3> QED BY <2>4, <2>5, <2>9, <3>1, ForgottenFacts
  <2>10. ASSUME open[s] # "no"
         PROVE  ends'[s] = Announced(f[s], room.number,
                              Snapshot(room.number, room'.sequence, room.phase))
    BY <2>4, <2>5, <2>10, ForgottenFacts DEF a, RoomSnapshot
  <2>11. f[s] \in Ends
    BY <2>1
  <2> QED BY <2>4, <2>6, <2>7, <2>8, <2>9, <2>10, <2>11
<1>7. CASE p = NoSocket /\ hub.away
  <2> DEFINE a == Announced(e[s], room.number, Snapshot(room.number, room'.sequence, room.phase))
  <2> HIDE DEF e
  <2>1. /\ hub' = [hub EXCEPT !.byUser = s, !.seat = s, !.away = FALSE]
        /\ room' = room \/ room' = [room EXCEPT !.sequence = @ + 1]
        /\ ends' = [e EXCEPT ![s] = a]
    BY <1>7 DEF Accept, e
  <2>2. /\ hub'.byUser = s /\ hub'.seat = s /\ hub'.away = FALSE
        /\ room'.number = room.number /\ room'.sequence \in Nat
    BY <1>5, <2>1 DEF TypeInv
  <2>3. a.server \in {"open", "closing"}
    BY <1>3, <1>4, <1>5, <2>2, AnnouncedServer
  <2> HIDE DEF a
  <2>4. ends'[s] = a /\ \A t \in Sockets \ {s} : ends'[t] = ends[t]
    BY <1>3, <2>1
  <2>5. ends'[s] = Announced(e[s], room.number, Snapshot(room.number, room'.sequence, room.phase))
    BY <2>4 DEF a
  <2>6. e[s] \in Ends
    BY <1>3
  <2>7. \A t \in Sockets : ends[t].server = "none" => ends'[t].server = "none"
    BY <1>1, <2>4
  <2> QED BY <2>2, <2>3, <2>4, <2>5, <2>6, <2>7
<1>8. CASE ~(p # NoSocket /\ hub.seat = p) /\ (p = NoSocket => ~hub.away)
  <2> DEFINE f == [e EXCEPT ![s] = IF hub.kept THEN Sent(e[s], Finished) ELSE e[s]]
             g == [f EXCEPT ![p].server = "left"]
  <2>1. Finished \in Events
    BY DEF Events
  <2>2. /\ f \in [Sockets -> Ends] /\ f[s].server \in {"open", "closing"}
        /\ \A t \in Sockets \ {s} : f[t] = ends[t]
    BY <1>3, <2>1, SentTyped, SentServer
  <2> HIDE DEF e
  <2>3. /\ hub' = [hub EXCEPT !.byUser = s, !.queued = FALSE] /\ room' = room
        /\ ends' = IF p = NoSocket THEN f ELSE Forgotten(g, open)
    BY <1>8, SMT DEF Accept, e
  <2> HIDE DEF f
  <2>4. /\ hub'.byUser = s /\ hub'.seat = hub.seat /\ hub'.away = hub.away
    BY <2>3 DEF TypeInv
  <2>5. hub.seat = NoSocket /\ ~hub.away
    BY <1>8 DEF SeatInv
  <2>6. CASE p = NoSocket
    BY <1>1, <2>2, <2>3, <2>4, <2>5, <2>6
  <2>7. CASE p # NoSocket
    <3>1. /\ g \in [Sockets -> Ends] /\ g[s] = f[s]
          /\ \A t \in Sockets \ {s, p} : g[t] = ends[t]
      BY <1>2, <2>2, <2>7, EndTyped
    <3> HIDE DEF g
    <3>2. ends' = Forgotten(g, open)
      BY <2>3, <2>7
    <3>3. ends'[s].server \in {"open", "closing"}
      BY <2>2, <3>1, <3>2, ForgottenFacts
    <3>4. ASSUME NEW t \in Sockets, ends[t].server = "none"
          PROVE  ends'[t].server = "none"
      <4>1. t # s /\ t # p
        BY <1>1, <1>2, <2>7, <3>4
      <4> QED BY <3>1, <3>2, <3>4, <4>1, ForgottenFacts
    <3> QED BY <2>3, <2>4, <2>5, <3>3, <3>4
  <2> QED BY <2>6, <2>7
<1> QED BY <1>6, <1>7, <1>8

LEMMA SeatKept ==
  ASSUME TypeInv, SeatInv, [Next]_vars
  PROVE  SeatInv'
<1> USE DEF tabVars, hubVars
<1> DEFINE p == hub.byUser
<1>15. /\ p \in Sockets \cup {NoSocket} /\ (p # NoSocket => p \in Sockets)
       /\ p # NoSocket => ends[p].server \in {"open", "closing"}
  BY DEF TypeInv, SeatInv
\* A step that leaves hub alone, as it does the ends that are open or not begun.
<1>16. ASSUME hub' = hub,
             \A t \in Sockets : ends[t].server \in {"open", "closing"} =>
                                   ends'[t].server \in {"open", "closing"},
             \A t \in Sockets : open'[t] \in {"connecting", "reconnecting"} =>
                                   ends'[t].server = "none"
      PROVE  SeatInv'
  BY <1>15, <1>16 DEF SeatInv
<1>1. CASE Connect \/ Close
  <2>1. ReplaceConnection /\ hub' = hub
    BY <1>1 DEF Connect, Close
  <2>2. CASE tab.socket # NoSocket
    BY <2>1, <2>2, SeverKeepsSeat DEF ReplaceConnection
  <2>3. CASE tab.socket = NoSocket
    BY <2>1, <2>3 DEF ReplaceConnection, SeatInv
  <2> QED BY <2>2, <2>3
<1>2. ASSUME NEW s \in Sockets, Lost(s) \/ ClosedByHub(s)
      PROVE  SeatInv'
  <2>1. Sever(s) /\ hub' = hub
    BY <1>2 DEF Lost, ClosedByHub, SocketCloses
  <2> QED BY <2>1, SeverKeepsSeat
<1>3. CASE ReconnectTimer \/ Render \/ (\E r \in requests : TicketFails(r)) \/ UNCHANGED vars
  <2>1. hub' = hub /\ ends' = ends /\ open' = open
    BY <1>3 DEF ReconnectTimer, Render, TicketFails, vars
  <2> QED BY <2>1 DEF SeatInv
<1>4. ASSUME NEW r \in requests, TicketAnswered(r)
      PROVE  SeatInv'
  <2>1. hub' = hub /\ ends' = ends
    BY <1>4 DEF TicketAnswered
  <2>2. \A t \in Sockets : open'[t] = open[t] \/ ends[t] = NewEnd
    BY <1>4 DEF TicketAnswered, Fresh, TypeInv
  <2> QED BY <2>1, <2>2 DEF SeatInv, NewEnd
<1>5. ASSUME NEW s \in Sockets, SocketOpens(s)
      PROVE  SeatInv'
  <2>1. hub' = hub /\ ends[s].server = "none"
    BY <1>5 DEF SocketOpens, SeatInv
  <2>2. open'[s] = "open" /\ \A t \in Sockets \ {s} : open'[t] = open[t] /\ ends'[t] = ends[t]
    BY <1>5 DEF SocketOpens, TypeInv
  <2> QED BY <1>16, <2>1, <2>2 DEF SeatInv
<1>6. ASSUME NEW s \in Sockets, Receive(s)
      PROVE  SeatInv'
  <2>1. hub' = hub /\ open' = open
    BY <1>6 DEF Receive
  <2>2. \A t \in Sockets : ends'[t].server = ends[t].server
    BY <1>6 DEF Receive, TypeInv, Ends
  <2> QED BY <2>1, <2>2, <1>15 DEF SeatInv
<1>7. CASE CreateRoom
  <2>1. /\ hub' = [hub EXCEPT !.queued = FALSE, !.seat = p] /\ open' = open
        /\ hub.queued
    BY <1>7 DEF CreateRoom
  <2>2. p # NoSocket /\ ~hub.away
    BY <2>1 DEF SeatInv
  <2>3. room'.number \in Nat /\ "waiting" \in Phases /\ 1 \in Nat
    BY <1>7 DEF CreateRoom, TypeInv, Phases
  <2> DEFINE a == Announced(ends[p], room'.number, Snapshot(room'.number, 1, "waiting"))
  <2>4. ends' = [ends EXCEPT ![p] = a]
    BY <1>7 DEF CreateRoom
  <2>5. a.server \in {"open", "closing"}
    <3>1. Snapshot(room'.number, 1, "waiting") \in Snapshots /\ ends[p] \in Ends
      BY <1>15, <2>2, <2>3, EventFacts DEF TypeInv
    <3> QED BY <1>15, <2>2, <2>3, <3>1, AnnouncedServer
  <2> HIDE DEF a
  <2>6. ends'[p].server \in {"open", "closing"} /\ \A t \in Sockets \ {p} : ends'[t] = ends[t]
    BY <1>15, <2>2, <2>4, <2>5 DEF TypeInv
  <2>7. hub'.byUser = p /\ hub'.seat = p /\ hub'.away = hub.away /\ hub'.queued = FALSE
    BY <2>1 DEF TypeInv
  <2>8. \A t \in Sockets : open'[t] \in {"connecting", "reconnecting"} => ends'[t].server = "none"
    <3>1. open[p] \notin {"connecting", "reconnecting"}
      BY <1>15, <2>2 DEF SeatInv
    <3> QED BY <2>1, <2>6, <3>1 DEF SeatInv
  <2> QED BY <2>2, <2>6, <2>7, <2>8 DEF SeatInv
<1>8. CASE FinishRoom \/ \E phase \in Phases : BroadcastSnapshot(phase)
  <2>1. /\ open' = open
        /\ hub' = hub \/ hub' = [hub EXCEPT !.seat = NoSocket, !.away = FALSE, !.kept = TRUE]
    BY <1>8 DEF FinishRoom, BroadcastSnapshot
  <2>2. hub'.byUser = p /\ hub'.seat \in {NoSocket, hub.seat}
        /\ hub'.queued = hub.queued /\ (hub'.away => hub.away)
    BY <2>1 DEF TypeInv
  <2>3. ends' = ends \/ \E e \in Events : hub.seat # NoSocket /\
                          ends' = [ends EXCEPT ![hub.seat] = Sent(@, e)]
    <3>1. Finished \in Events
      BY DEF Events
    <3>2. \A phase \in Phases : Snapshot(room.number, room.sequence + 1, phase) \in Events
      BY EventFacts DEF TypeInv
    <3> QED BY <1>8, <3>1, <3>2 DEF FinishRoom, BroadcastSnapshot
  <2>4. \A t \in Sockets : /\ ends[t].server \in {"open", "closing"} =>
                                ends'[t].server \in {"open", "closing"}
                           /\ ends[t].server = "none" => ends'[t].server = "none"
    BY <2>3, SentServer DEF TypeInv
  <2>5. \A t \in Sockets : open'[t] \in {"connecting", "reconnecting"} => ends'[t].server = "none"
    BY <2>1, <2>4 DEF SeatInv
  <2> QED BY <1>15, <2>2, <2>4, <2>5 DEF SeatInv
<1>9. CASE AbandonRoom \/ ForgetResult
  <2>1. /\ open' = open /\ ends' = ends
        /\ hub' = [hub EXCEPT !.away = FALSE] \/ hub' = [hub EXCEPT !.kept = FALSE]
    BY <1>9 DEF AbandonRoom, ForgetResult
  <2>2. hub'.byUser = p /\ hub'.seat = hub.seat
        /\ hub'.queued = hub.queued /\ (hub'.away => hub.away)
    BY <2>1 DEF TypeInv
  <2> QED BY <1>15, <2>1, <2>2 DEF SeatInv
<1>10. ASSUME NEW s \in Sockets, Accept(s)
       PROVE  SeatInv'
  <2>1. open' = open /\ ends[s].server = "handshake" /\ s # NoSocket
    BY <1>10, NoSocketAssumption DEF Accept
  <2>2. \A t \in Sockets : open'[t] \in {"connecting", "reconnecting"} => ends'[t].server = "none"
    BY <1>10, <2>1, AcceptFacts DEF SeatInv
  <2> QED BY <1>10, <2>1, <2>2, AcceptFacts DEF SeatInv
<1>11. ASSUME NEW s \in Sockets, Refuse(s)
       PROVE  SeatInv'
  <2> DEFINE g == [ends EXCEPT ![s].server = "left"]
  <2>1. hub' = hub /\ open' = open /\ ends' = Forgotten(g, open) /\ ends[s].server = "handshake"
    BY <1>11 DEF Refuse
  <2>2. g \in [Sockets -> Ends] /\ \A t \in Sockets \ {s} : g[t] = ends[t]
    <3>1. ends \in [Sockets -> Ends]
      BY DEF TypeInv
    <3>2. g \in [Sockets -> Ends]
      BY <3>1, EndTyped
    <3> QED BY <3>1, <3>2
  <2> HIDE DEF g
  <2>3. \A t \in Sockets : /\ ends[t].server \in {"open", "closing"} => ends'[t].server = ends[t].server
                           /\ ends[t].server = "none" => ends'[t].server = "none"
    BY <2>1, <2>2, ForgottenFacts
  <2> QED BY <1>16, <2>1, <2>3 DEF SeatInv
<1>12. ASSUME NEW s \in Sockets, JoinQueue(s)
       PROVE  SeatInv'
  <2> DEFINE e == [ends EXCEPT ![s].joins = FALSE]
  <2>1. /\ e \in [Sockets -> Ends] /\ e[s].server = ends[s].server
        /\ \A t \in Sockets \ {s} : e[t] = ends[t]
    <3>1. e \in [Sockets -> Ends]
      BY EndTyped DEF TypeInv
    <3> QED BY <3>1 DEF TypeInv, Ends
  <2>2. Error \in Events
    BY DEF Events
  <2> HIDE DEF e
  <2>3. /\ open' = open /\ ends[s].server = "open"
        /\ ends' = e \/ ends' = [e EXCEPT ![s] = Sent(e[s], Error)]
        /\ hub' = hub \/ (p = s /\ hub' = [hub EXCEPT !.queued = TRUE])
    BY <1>12 DEF JoinQueue, e
  <2>4. ends'[s].server \in {"open", "closing"} /\ \A t \in Sockets \ {s} : ends'[t] = ends[t]
    BY <2>1, <2>2, <2>3, SentServer
  <2>5. \A t \in Sockets : open'[t] \in {"connecting", "reconnecting"} => ends'[t].server = "none"
    BY <2>3, <2>4 DEF SeatInv
  <2>6. CASE hub' = hub
    BY <1>16, <2>4, <2>5, <2>6
  <2>7. CASE p = s /\ hub' = [hub EXCEPT !.queued = TRUE]
    <3>1. hub'.byUser = s /\ hub'.seat = hub.seat /\ hub'.away = hub.away /\ s # NoSocket
      BY <2>7, NoSocketAssumption DEF TypeInv
    <3> QED BY <2>4, <2>5, <2>7, <3>1 DEF SeatInv
  <2> QED BY <2>3, <2>6, <2>7
<1>13. ASSUME NEW s \in Sockets, Disconnect(s)
       PROVE  SeatInv'
  <2> DEFINE g == [ends EXCEPT ![s].server = "left", ![s].pending = NoSnapshot]
  <2>1. open' = open /\ ends' = Forgotten(g, open)
        /\ ends[s].server # "none"
    BY <1>13 DEF Disconnect
  <2>2. g \in [Sockets -> Ends] /\ \A t \in Sockets \ {s} : g[t] = ends[t]
    <3>1. ends \in [Sockets -> Ends]
      BY DEF TypeInv
    <3>2. g \in [Sockets -> Ends]
      BY <3>1, EndTyped
    <3> QED BY <3>1, <3>2
  <2> HIDE DEF g
  <2>3. \A t \in Sockets \ {s} :
           /\ ends[t].server \in {"open", "closing"} => ends'[t].server = ends[t].server
           /\ ends[t].server = "none" => ends'[t].server = "none"
    BY <2>1, <2>2, ForgottenFacts
  <2>4. \A t \in Sockets : open'[t] \in {"connecting", "reconnecting"} => ends'[t].server = "none"
    BY <2>1, <2>3 DEF SeatInv
  <2>5. CASE p # s
    <3>1. hub' = hub
      BY <1>13, <2>5 DEF Disconnect
    <3> QED BY <1>15, <2>3, <2>4, <2>5, <3>1 DEF SeatInv
  <2>6. CASE p = s
    <3>1. hub' = [hub EXCEPT !.byUser = NoSocket, !.queued = FALSE,
                             !.seat = NoSocket, !.away = hub.away \/ hub.seat = s]
      BY <1>13, <2>6 DEF Disconnect
    <3>2. hub'.byUser = NoSocket /\ hub'.seat = NoSocket /\ hub'.queued = FALSE
      BY <3>1 DEF TypeInv
    <3> QED BY <2>4, <3>2 DEF SeatInv
  <2> QED BY <2>5, <2>6
<1>14. ASSUME NEW s \in Sockets, Retry(s) \/ \E jam \in {"low", "soft", "hard"} : Congest(s, jam)
       PROVE  SeatInv'
  <2>1. hub' = hub /\ open' = open /\ ends[s].server = "open"
    BY <1>14 DEF Retry, Congest
  <2>2. ends[s] \in Ends /\ ends[s].waited + 1 \in Nat
    BY DEF TypeInv, Ends
  <2>3. ends'[s].server \in {"open", "closing"} /\ \A t \in Sockets \ {s} : ends'[t] = ends[t]
    <3>1. CASE Retry(s)
      <4>1. Drained(ends[s], ends[s].waited + 1).server \in {"open", "closing"}
        BY <2>1, <2>2, DrainedServer
      <4> QED BY <3>1, <4>1 DEF Retry, TypeInv
    <3>2. ASSUME NEW jam, Congest(s, jam)
          PROVE  ends'[s].server = ends[s].server /\ \A t \in Sockets \ {s} : ends'[t] = ends[t]
      BY <3>2 DEF Congest, TypeInv, Ends
    <3> QED BY <1>14, <2>1, <3>1, <3>2
  <2>4. \A t \in Sockets : open'[t] \in {"connecting", "reconnecting"} => ends'[t].server = "none"
    BY <2>1, <2>3 DEF SeatInv
  <2> QED BY <1>16, <2>1, <2>3, <2>4
<1> QED BY <1>1, <1>2, <1>3, <1>4, <1>5, <1>6, <1>7, <1>8, <1>9, <1>10, <1>11, <1>12, <1>13, <1>14
        DEF Next, Client, Hub

-----------------------------------------------------------------------------
(* What is on its way, at every step *)

LEMMA ComesInitially == Init => ComesInv
  BY DEF Init, ComesInv

\* Only what waits and what is sent is looked at.
LEMMA ComesOf ==
  ASSUME NEW v, NEW end, NEW other, NEW n, NEW q,
         other.down = end.down, other.pending = end.pending, Comes(v, end, n, q)
  PROVE  Comes(v, other, n, q)
  BY DEF Comes, RoomComes, SnapshotComes

LEMMA ComesKept ==
  ASSUME TypeInv, AttemptInv, SeatInv, ComesInv, [Next]_vars
  PROVE  ComesInv'
<1> USE DEF tabVars, hubVars
<1> DEFINE p == hub.seat
<1>1. /\ p # NoSocket => p \in Sockets /\ p = hub.byUser
      /\ p # NoSocket => ends[p].server \in {"open", "closing"}
      /\ p # NoSocket => ends[p] \in Ends /\ ends[p].waited + 1 \in Nat
      /\ room.number \in Nat /\ room.sequence \in Nat /\ room.sequence + 1 \in Nat
  BY DEF TypeInv, SeatInv, Ends
<1>2. ASSUME hub' = hub, room' = room, tab'.socket = tab.socket, view' = view,
             p # NoSocket /\ tab.socket = p /\ ends'[p].server = "open" => ends'[p] = ends[p]
      PROVE  ComesInv'
  BY <1>2 DEF ComesInv
<1>3. ASSUME hub' = hub, tab'.socket \notin Sockets \/ ends'[tab'.socket].server # "open"
      PROVE  ComesInv'
  BY <1>1, <1>3 DEF ComesInv
<1>4. ASSUME hub'.seat = NoSocket
      PROVE  ComesInv'
  BY <1>4 DEF ComesInv
<1>5. CASE Connect \/ Close
  <2>1. hub' = hub /\ tab'.socket \notin Sockets
    BY <1>5, ReplaceTyped, NoSocketAssumption DEF Connect, Close
  <2> QED BY <1>3, <2>1
<1>6. ASSUME NEW s \in Sockets, Lost(s) \/ ClosedByHub(s)
      PROVE  ComesInv'
  <2>1. hub' = hub /\ tab'.socket \notin Sockets
    BY <1>6, ClosedTyped, NoSocketAssumption DEF Lost, ClosedByHub, SocketCloses
  <2> QED BY <1>3, <2>1
<1>7. CASE ReconnectTimer \/ Render \/ ForgetResult \/ UNCHANGED vars
  <2>1. /\ room' = room /\ ends' = ends /\ view' = view /\ hub'.seat = p
        /\ tab'.socket = tab.socket
    BY <1>7 DEF ReconnectTimer, Render, ForgetResult, vars, TypeInv, IsTab
  <2> QED BY <2>1 DEF ComesInv
<1>8. ASSUME NEW r \in requests, TicketAnswered(r) \/ TicketFails(r)
      PROVE  ComesInv'
  <2>1. hub' = hub /\ room' = room /\ ends' = ends
    BY <1>8 DEF TicketAnswered, TicketFails
  <2>2. CASE r.generation # tab.generation
    <3>1. tab' = tab /\ view' = view
      BY <1>8, <2>2 DEF TicketAnswered, TicketFails
    <3> QED BY <2>1, <3>1 DEF ComesInv
  <2>3. CASE r.generation = tab.generation
    <3>1. r \in Live
      BY <2>3 DEF Live
    <3>2. tab.socket = NoSocket
      BY <3>1 DEF AttemptInv
    <3>3. CASE TicketAnswered(r)
      <4>1. PICK s \in Fresh : tab' = [tab EXCEPT !.socket = s]
        BY <2>3, <3>3 DEF TicketAnswered
      <4>2. tab'.socket = s /\ ends'[s].server # "open"
        BY <2>1, <4>1 DEF Fresh, NewEnd, TypeInv, IsTab
      <4> QED BY <1>3, <2>1, <4>2
    <3>4. CASE TicketFails(r)
      <4>1. tab'.socket = NoSocket
        <5>1. CASE r.again
          <6>1. ScheduleReconnect(view) /\ view \in Views
            BY <2>3, <3>4, <5>1 DEF TicketFails, TypeInv
          <6> QED BY <6>1, ScheduleTyped
        <5>2. CASE ~r.again
          BY <2>3, <3>2, <3>4, <5>2 DEF TicketFails
        <5> QED BY <5>1, <5>2
      <4> QED BY <1>3, <2>1, <4>1, NoSocketAssumption
    <3> QED BY <1>8, <3>3, <3>4
  <2> QED BY <2>2, <2>3
<1>9. ASSUME NEW s \in Sockets, SocketOpens(s)
      PROVE  ComesInv'
  <2>1. hub' = hub /\ tab'.socket = s
    BY <1>9 DEF SocketOpens, IsCurrent, TypeInv, IsTab
  <2>2. ends'[s].server # "open"
    BY <1>9 DEF SocketOpens, TypeInv, Ends
  <2> QED BY <1>3, <2>1, <2>2
<1>10. ASSUME NEW s \in Sockets, Receive(s)
       PROVE  ComesInv'
  <2> DEFINE d == [ends[s] EXCEPT !.down = Tail(ends[s].down)]
  <2>1. /\ hub' = hub /\ room' = room /\ tab' = tab /\ tab.socket = s
        /\ ends[s].down # <<>> /\ view' = Reduced(view, Head(ends[s].down))
        /\ ends' = [ends EXCEPT ![s] = d]
    BY <1>10 DEF Receive, IsCurrent
  <2>2. ends[s] \in Ends /\ d.server = ends[s].server /\ view \in Views
    BY DEF TypeInv, Ends
  <2>3. CASE p = s /\ ends[s].server = "open"
    <3>1. Comes(view, ends[s], room.number, room.sequence)
      BY <1>1, <2>1, <2>3, NoSocketAssumption DEF ComesInv
    <3>2. Comes(view', d, room.number, room.sequence)
      BY <1>1, <2>1, <2>2, <3>1, ReceivedKeeps
    <3> HIDE DEF d
    <3>3. ends'[s] = d
      BY <2>1 DEF TypeInv
    <3> QED BY <2>1, <2>3, <3>2, <3>3 DEF ComesInv
  <2>4. CASE ~(p = s /\ ends[s].server = "open")
    <3> HIDE DEF d
    <3>1. ends'[s].server = ends[s].server
      BY <2>1, <2>2 DEF TypeInv
    <3> QED BY <2>1, <2>4, <3>1 DEF ComesInv
  <2> QED BY <2>3, <2>4
<1>11. CASE CreateRoom
  <2> DEFINE a == Announced(ends[hub.byUser], room'.number, Snapshot(room'.number, 1, "waiting"))
             b == hub.byUser
  <2>1. /\ hub' = [hub EXCEPT !.queued = FALSE, !.seat = b] /\ view' = view
        /\ hub.queued /\ ends' = [ends EXCEPT ![b] = a]
        /\ room' = [number |-> room.number + 1, sequence |-> 1, phase |-> "waiting"]
    BY <1>11 DEF CreateRoom
  <2>2. b \in Sockets /\ hub'.seat = b /\ ends[b] \in Ends
    BY <2>1 DEF SeatInv, TypeInv
  <2>3. room'.number \in Nat /\ room'.sequence = 1 /\ 1 \in Nat /\ "waiting" \in Phases
    BY <1>1, <2>1 DEF Phases
  <2>4. a.server = "open" => Comes(view, a, room'.number, 1)
    BY <2>2, <2>3, AnnouncedComes
  <2> HIDE DEF a
  <2>5. ends'[b] = a
    BY <2>1, <2>2 DEF TypeInv
  <2> HIDE DEF b
  <2> QED BY <2>1, <2>2, <2>3, <2>4, <2>5 DEF ComesInv
<1>12. ASSUME NEW phase \in Phases, BroadcastSnapshot(phase)
       PROVE  ComesInv'
  <2> DEFINE e == Snapshot(room.number, room.sequence + 1, phase)
  <2>1. /\ hub' = hub /\ tab' = tab /\ view' = view
        /\ room' = [room EXCEPT !.sequence = @ + 1, !.phase = phase]
        /\ ends' = IF p = NoSocket THEN ends ELSE [ends EXCEPT ![p] = Sent(ends[p], e)]
    BY <1>12 DEF BroadcastSnapshot
  <2>2. room'.number = room.number /\ room'.sequence = room.sequence + 1
    BY <2>1 DEF TypeInv
  <2>3. CASE p # NoSocket /\ tab.socket = p /\ ends'[p].server = "open"
    <3>1. e \in Events
      BY <1>1, EventFacts
    <3>2. Sent(ends[p], e).server = "open" => ends[p].server = "open"
      BY <1>1, <2>3, <3>1, SentServer
    <3>3. ASSUME Sent(ends[p], e).server = "open", Comes(view, ends[p], room.number, room.sequence),
                 ends[p].server = "open"
          PROVE  Comes(view, Sent(ends[p], e), room.number, room.sequence + 1)
      BY <1>1, <2>3, <3>3, SnapshotKeeps DEF Comes
    <3> HIDE DEF e
    <3>4. ends'[p] = Sent(ends[p], e)
      BY <1>1, <2>1, <2>3 DEF TypeInv
    <3>5. Comes(view, ends[p], room.number, room.sequence)
      BY <2>3, <3>2, <3>4 DEF ComesInv
    <3> QED BY <2>1, <2>2, <2>3, <3>2, <3>3, <3>4, <3>5 DEF ComesInv
  <2>4. CASE ~(p # NoSocket /\ tab.socket = p /\ ends'[p].server = "open")
    BY <2>1, <2>4 DEF ComesInv
  <2> QED BY <2>3, <2>4
<1>13. CASE FinishRoom
  BY <1>4, <1>13 DEF FinishRoom, TypeInv
<1>14. CASE AbandonRoom
  <2>1. hub' = [hub EXCEPT !.away = FALSE] /\ hub.away
    BY <1>14 DEF AbandonRoom
  <2>2. hub'.seat = NoSocket
    BY <2>1 DEF SeatInv, TypeInv
  <2> QED BY <1>4, <2>2
<1>15. ASSUME NEW s \in Sockets, Accept(s)
       PROVE  ComesInv'
  <2>1. open' = open /\ tab' = tab /\ view' = view
    BY <1>15 DEF Accept
  <2>2. CASE hub'.seat = NoSocket
    BY <1>4, <2>2
  <2>3. CASE hub'.seat = s /\ tab.socket = s
    <3>1. open[s] # "no"
      BY <2>3 DEF AttemptInv
    <3>2. PICK end \in Ends : ends'[s] = Announced(end, room.number,
                                Snapshot(room.number, room'.sequence, room.phase))
      BY <1>15, <2>3, <3>1, AcceptFacts, NoSocketAssumption
    <3>3. room'.number = room.number /\ room'.sequence \in Nat /\ room.phase \in Phases
      <4>1. TypeInv'
        BY TypesKept
      <4>2. room'.number = room.number
        BY <1>15, AcceptFacts
      <4> QED BY <4>1, <4>2 DEF TypeInv
    <3>4. ends'[s].server = "open" => Comes(view, ends'[s], room'.number, room'.sequence)
      BY <1>1, <3>2, <3>3, AnnouncedComes
    <3> QED BY <2>1, <2>3, <3>4 DEF ComesInv
  <2>4. CASE hub'.seat = s /\ tab.socket # s
    BY <2>1, <2>4 DEF ComesInv
  <2> QED BY <1>15, <2>2, <2>3, <2>4, AcceptFacts
<1>16. ASSUME NEW s \in Sockets, Refuse(s)
       PROVE  ComesInv'
  <2> DEFINE g == [ends EXCEPT ![s].server = "left"]
  <2>1. /\ hub' = hub /\ room' = room /\ tab' = tab /\ view' = view
        /\ ends' = Forgotten(g, open) /\ ends[s].server = "handshake"
    BY <1>16 DEF Refuse
  <2>2. g \in [Sockets -> Ends] /\ \A t \in Sockets \ {s} : g[t] = ends[t]
    <3>1. ends \in [Sockets -> Ends]
      BY DEF TypeInv
    <3>2. g \in [Sockets -> Ends]
      BY <3>1, EndTyped
    <3> QED BY <3>1, <3>2
  <2> HIDE DEF g
  <2>3. p # NoSocket /\ tab.socket = p => ends'[p] = ends[p]
    <3>1. p # NoSocket /\ tab.socket = p => p # s /\ open[p] # "no"
      BY <1>1, <2>1 DEF AttemptInv
    <3> QED BY <1>1, <2>1, <2>2, <3>1, ForgottenFacts
  <2> QED BY <1>2, <2>1, <2>3
<1>17. ASSUME NEW s \in Sockets, JoinQueue(s)
       PROVE  ComesInv'
  <2> DEFINE e == [ends EXCEPT ![s].joins = FALSE]
  <2>1. /\ e \in [Sockets -> Ends]
        /\ e[s].server = ends[s].server /\ e[s].down = ends[s].down /\ e[s].pending = ends[s].pending
        /\ \A t \in Sockets \ {s} : e[t] = ends[t]
    <3>1. e \in [Sockets -> Ends]
      BY EndTyped DEF TypeInv
    <3> QED BY <3>1 DEF TypeInv, Ends
  <2> HIDE DEF e
  <2>2. /\ room' = room /\ tab' = tab /\ view' = view /\ ends[s].server = "open"
        /\ \/ hub.seat # s /\ hub' = [hub EXCEPT !.queued = TRUE] /\ ends' = e
           \/ hub' = hub /\ ends' = [e EXCEPT ![s] = Sent(e[s], Error)]
    BY <1>17 DEF JoinQueue, e
  <2>3. hub'.seat = p
    BY <2>2 DEF TypeInv
  <2>4. CASE p # NoSocket /\ tab.socket = p /\ ends'[p].server = "open"
    <3>1. CASE p # s
      <4>1. ends'[p] = ends[p]
        BY <1>1, <2>1, <2>2, <2>4, <3>1
      <4> QED BY <2>2, <2>3, <2>4, <4>1 DEF ComesInv
    <3>2. CASE p = s
      <4>1. ends'[s] = Sent(e[s], Error)
        BY <2>1, <2>2, <3>2
      <4>2. Comes(view, ends[s], room.number, room.sequence)
        BY <2>2, <2>4, <3>2 DEF ComesInv
      <4>3. Comes(view, e[s], room.number, room.sequence)
        BY <2>1, <4>2, ComesOf
      <4>4. Comes(view, ends'[s], room.number, room.sequence)
        BY <2>1, <2>2, <2>4, <3>2, <4>1, <4>3, ErrorKeeps
      <4> QED BY <2>2, <2>3, <3>2, <4>4 DEF ComesInv
    <3> QED BY <3>1, <3>2
  <2>5. CASE ~(p # NoSocket /\ tab.socket = p /\ ends'[p].server = "open")
    BY <2>2, <2>3, <2>5 DEF ComesInv
  <2> QED BY <2>4, <2>5
<1>18. ASSUME NEW s \in Sockets, Disconnect(s)
       PROVE  ComesInv'
  <2> DEFINE g == [ends EXCEPT ![s].server = "left", ![s].pending = NoSnapshot]
  <2>1. /\ tab' = tab /\ view' = view /\ ends' = Forgotten(g, open)
    BY <1>18 DEF Disconnect
  <2>2. g \in [Sockets -> Ends] /\ \A t \in Sockets \ {s} : g[t] = ends[t]
    <3>1. ends \in [Sockets -> Ends]
      BY DEF TypeInv
    <3>2. g \in [Sockets -> Ends]
      BY <3>1, EndTyped
    <3> QED BY <3>1, <3>2
  <2> HIDE DEF g
  <2>3. CASE hub.byUser = s
    <3>1. hub'.seat = NoSocket
      BY <1>18, <2>3 DEF Disconnect, TypeInv
    <3> QED BY <1>4, <3>1
  <2>4. CASE hub.byUser # s
    <3>1. hub' = hub /\ room' = room
      BY <1>18, <2>4 DEF Disconnect
    <3>2. p # NoSocket /\ tab.socket = p => ends'[p] = ends[p]
      <4>1. p # NoSocket /\ tab.socket = p => p # s /\ open[p] # "no"
        BY <1>1, <2>4 DEF AttemptInv
      <4> QED BY <1>1, <2>1, <2>2, <4>1, ForgottenFacts
    <3> QED BY <1>2, <2>1, <3>1, <3>2
  <2> QED BY <2>3, <2>4
<1>19. ASSUME NEW s \in Sockets, Retry(s)
       PROVE  ComesInv'
  <2> DEFINE d == Drained(ends[s], ends[s].waited + 1)
  <2>1. /\ hub' = hub /\ room' = room /\ tab' = tab /\ view' = view
        /\ ends' = [ends EXCEPT ![s] = d] /\ ends[s].server = "open"
    BY <1>19 DEF Retry
  <2>2. CASE p = s /\ tab.socket = s /\ d.server = "open"
    <3>1. Comes(view, ends[s], room.number, room.sequence)
      BY <1>1, <2>1, <2>2, NoSocketAssumption DEF ComesInv
    <3>2. Comes(view, d, room.number, room.sequence)
      BY <1>1, <2>2, <3>1, DrainedKeeps, NoSocketAssumption DEF Comes
    <3> HIDE DEF d
    <3>3. ends'[s] = d
      BY <2>1 DEF TypeInv
    <3> QED BY <2>1, <2>2, <3>2, <3>3 DEF ComesInv
  <2>3. CASE ~(p = s /\ tab.socket = s /\ d.server = "open")
    <3> HIDE DEF d
    <3>1. ends'[s] = d /\ \A t \in Sockets \ {s} : ends'[t] = ends[t]
      BY <2>1 DEF TypeInv
    <3> QED BY <1>1, <1>2, <2>1, <2>3, <3>1
  <2> QED BY <2>2, <2>3
<1>20. ASSUME NEW s \in Sockets, NEW jam \in {"low", "soft", "hard"}, Congest(s, jam)
       PROVE  ComesInv'
  <2>1. /\ hub' = hub /\ room' = room /\ tab' = tab /\ view' = view
    BY <1>20 DEF Congest
  <2>2. \A t \in Sockets : /\ ends'[t].server = ends[t].server
                           /\ ends'[t].down = ends[t].down /\ ends'[t].pending = ends[t].pending
    BY <1>20 DEF Congest, TypeInv, Ends
  <2> QED BY <1>1, <2>1, <2>2, ComesOf DEF ComesInv
<1> QED BY <1>5, <1>6, <1>7, <1>8, <1>9, <1>10, <1>11, <1>12, <1>13, <1>14, <1>15, <1>16,
           <1>17, <1>18, <1>19, <1>20
        DEF Next, Client, Hub

\* With nothing on its way any more, what was to come has been seen.
LEMMA ComesGivesCaughtUp ==
  ASSUME TypeInv, ComesInv
  PROVE  CaughtUp
<1> SUFFICES ASSUME tab.socket # NoSocket, hub.seat = tab.socket,
                    ends[tab.socket].server = "open",
                    ends[tab.socket].down = <<>>, ends[tab.socket].pending = NoSnapshot
             PROVE  view.room = room.number /\ view.last >= room.sequence
  BY DEF CaughtUp
<1>1. Comes(view, ends[tab.socket], room.number, room.sequence)
  BY DEF ComesInv
<1>2. Len(ends[tab.socket].down) = 0
  BY EmptySeq
<1> QED BY <1>1, <1>2 DEF Comes, RoomComes, SnapshotComes

\* When nothing is on its way, a tab whose socket holds the seat shows the
\* room's last snapshot, whatever was congested, replaced, lost or reconnected
\* before (latestSnapshotBuffer, connect, useGameConnection).
THEOREM TabCaughtUp == Spec => []CaughtUp
<1>1. Init => TypeInv /\ AttemptInv /\ SeatInv /\ ComesInv
  BY TypesInitially, AttemptInitially, SeatInitially, ComesInitially
<1>2. TypeInv /\ AttemptInv /\ SeatInv /\ ComesInv /\ [Next]_vars
        => (TypeInv /\ AttemptInv /\ SeatInv /\ ComesInv)'
  BY TypesKept, AttemptKept, SeatKept, ComesKept
<1>3. TypeInv /\ ComesInv => CaughtUp
  BY ComesGivesCaughtUp
<1> QED BY <1>1, <1>2, <1>3, PTL DEF Spec
=============================================================================
