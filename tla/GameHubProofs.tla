---------------------------- MODULE GameHubProofs ----------------------------
(***************************************************************************)
(* Theorems about the hub, for every set of users, connections, rooms and  *)
(* tournament matches, every reconnect window and every set of inputs; and *)
(* from "The hub inside the process" on about the API process around it.   *)
(***************************************************************************)
EXTENDS ApiProcess, OpsLemmas

-----------------------------------------------------------------------------
(* Rooms *)

LEMMA NewRoomTyped ==
  ASSUME NEW left \in Conns, NEW right \in Conns \cup {NoConn},
         NEW match \in TMatches \cup {NoMatch}
  PROVE  NewRoom(left, right, match) \in Room
<1>1. SessionMarkReady(NewSession, "right") \in Session
  BY NewSessionFacts, SessionTyped DEF Sides
<1> QED BY <1>1, NewSessionFacts DEF NewRoom, Room

LEMMA UnusedRoomTyped == UnusedRoom \in Room
<1>1. SessionFinish(NewSession) \in Session
  BY NewSessionFacts, SessionTyped DEF Sides
<1> QED BY <1>1 DEF UnusedRoom, Room

\* Every operation on a room answers a room: those of a side and a connection,
\* and those of the whole room.
LEMMA SideOpsTyped ==
  ASSUME NEW rm \in Room, NEW side \in Sides
  PROVE  /\ ReadyRoom(rm, side) \in Room
         /\ ReservedRoom(rm, side) \in Room
         /\ \A c \in Conns :
               /\ SessionReconnects(rm.session, side, 0) => RecoveredRoom(rm, side, c) \in Room
               /\ [rm EXCEPT !.seats[side] = c] \in Room
<1>0. rm.session \in Session /\ 0 \in Int
  BY DEF Room
<1>1. ReadyRoom(rm, side) \in Room
  <2>1. SessionMarkReady(rm.session, side) \in Session
    BY <1>0, SessionTyped
  <2> QED BY <2>1 DEF ReadyRoom, Room, Sides
<1>2. ReservedRoom(rm, side) \in Room
  <2>1. SessionDisconnect(rm.session, side, 0) \in Session
    BY <1>0, SessionTyped
  <2> QED BY <2>1 DEF ReservedRoom, Room
<1>3. ASSUME NEW c \in Conns, SessionReconnects(rm.session, side, 0)
      PROVE  RecoveredRoom(rm, side, c) \in Room
  <2> DEFINE s == SessionReconnect(rm.session, side)
  <2>1. s \in Session
    BY <1>0, SessionTyped
  <2>2. s.state # "reconnecting" => s.state \in {"waiting", "playing", "paused"}
    BY <1>0, <1>3 DEF SessionReconnects, SessionReconnect, Session, ResumableStates
  <2> QED BY <2>1, <2>2 DEF RecoveredRoom, Room
<1>4. ASSUME NEW c \in Conns PROVE [rm EXCEPT !.seats[side] = c] \in Room
  BY DEF Room
<1> QED BY <1>1, <1>2, <1>3, <1>4

LEMMA RoomOpsTyped ==
  ASSUME NEW rm \in Room
  PROVE  /\ FinishedRoom(rm) \in Room
         /\ RearmedRoom(rm) \in Room
         /\ AgedRoom(rm) \in Room
         /\ [rm EXCEPT !.finishing = FALSE] \in Room
         /\ [rm EXCEPT !.timer = FALSE] \in Room
         /\ [rm EXCEPT !.timer = FALSE, !.away = {},
                       !.session = SessionFinish(rm.session)] \in Room
         /\ \A phase \in {"playing", "paused", rm.phase} :
               /\ [rm EXCEPT !.session = SessionPause(rm.session), !.phase = phase] \in Room
               /\ [rm EXCEPT !.session = SessionResume(rm.session), !.phase = phase] \in Room
<1>0. rm.session \in Session /\ "left" \in Sides /\ 0 \in Int
  BY DEF Room, Sides
<1>1. FinishedRoom(rm) \in Room
  <2>1. SessionFinish(rm.session) \in Session
    BY <1>0, SessionTyped
  <2>2. rm.calls + 1 \in Nat
    BY DEF Room
  <2>3. FinishedRoom(rm) = [rm EXCEPT !.timer = FALSE, !.away = {},
                                      !.session = SessionFinish(rm.session),
                                      !.phase = "finished", !.finishing = TRUE,
                                      !.calls = rm.calls + 1]
    BY DEF FinishedRoom
  <2> QED BY <2>1, <2>2, <2>3 DEF Room
<1>2. RearmedRoom(rm) \in Room
  BY DEF RearmedRoom, Room
<1>3. AgedRoom(rm) \in Room
  <2>1. {IF d < 0 THEN d ELSE d - 1 : d \in rm.session.deadline} \in SUBSET Int
    BY <1>0 DEF Session
  <2>2. [rm.session EXCEPT !.deadline = {IF d < 0 THEN d ELSE d - 1 : d \in @}] \in Session
    BY <1>0, <2>1 DEF Session
  <2> QED BY <2>2 DEF AgedRoom, Room
<1>4. [rm EXCEPT !.finishing = FALSE] \in Room /\ [rm EXCEPT !.timer = FALSE] \in Room
  BY DEF Room
<1>5. /\ SessionFinish(rm.session) \in Session
      /\ SessionPause(rm.session) \in Session
      /\ SessionResume(rm.session) \in Session
  BY <1>0, SessionTyped
<1>6. [rm EXCEPT !.timer = FALSE, !.away = {}, !.session = SessionFinish(rm.session)] \in Room
  BY <1>5 DEF Room
<1>7. ASSUME NEW phase \in {"playing", "paused", rm.phase}
      PROVE  /\ [rm EXCEPT !.session = SessionPause(rm.session), !.phase = phase] \in Room
             /\ [rm EXCEPT !.session = SessionResume(rm.session), !.phase = phase] \in Room
  BY <1>5 DEF Room
<1> QED BY <1>1, <1>2, <1>3, <1>4, <1>6, <1>7

LEMMA SeatedFacts ==
  ASSUME NEW rm \in Room
  PROVE  Seated(rm) \in SUBSET Conns /\ SeatedUsers(rm) \in SUBSET Users
<1>1. Seated(rm) \in SUBSET Conns
  BY DEF Seated, Room
<1> QED BY <1>1, GameHubAssumption DEF SeatedUsers

-----------------------------------------------------------------------------
(* Types, by group of variables *)

ConnTypes ==
    /\ socket \in [Conns -> {"open", "closing", "gone"}]
    /\ roomOf \in [Conns -> RoomIds \cup {NoRoom}]
    /\ byUser \in [Users -> Conns \cup {NoConn}]
EntryTypes ==
    /\ entries \in [Users -> Conns \cup {NoConn}]
    /\ fallback \in [Users -> {"off", "armed", "lookup"}]
    /\ staleLookups \in [Users -> Nat]
    /\ \A u \in Users : fallback[u] # "off" => entries[u] # NoConn
MmTypes == mm \in MatchmakerState
RoomTypes ==
    /\ live \in SUBSET RoomIds
    /\ rooms \in [RoomIds -> Room]
    /\ scheduled \in SUBSET RoomIds
WaiterTypes == waiters \in [TMatches -> SUBSET Conns]
JoinTypes ==
    /\ joins \in SUBSET [conn : Conns, match : TMatches,
                         row : {"unread", "ready", "running", "finished"}]
    /\ starts \in SUBSET [match : TMatches, room : RoomIds]
StatusTypes == tstatus \in [TMatches -> {"ready", "running", "finished"}]
HubTypes ==
    /\ accepting \in BOOLEAN
    /\ drain \in {"serving", "waiting", "drained", "timedOut", "closed"}

\* TypeOK does not hold by itself: a fallback timer or NPC query needs an entry
\* whose connection its room can be given to.
TypeInv == /\ ConnTypes /\ EntryTypes /\ MmTypes /\ RoomTypes
           /\ WaiterTypes /\ JoinTypes /\ StatusTypes /\ HubTypes

LEMMA TypeGroups == TypeInv => TypeOK
  BY DEF TypeOK, TypeInv, ConnTypes, EntryTypes, MmTypes, RoomTypes, WaiterTypes,
         JoinTypes, StatusTypes, HubTypes

\* Groups a step leaves alone.
LEMMA SameTypes ==
  /\ ConnTypes /\ UNCHANGED connVars => ConnTypes'
  /\ EntryTypes /\ UNCHANGED <<entries, fallback, staleLookups>> => EntryTypes'
  /\ MmTypes /\ UNCHANGED mm => MmTypes'
  /\ RoomTypes /\ UNCHANGED roomVars => RoomTypes'
  /\ WaiterTypes /\ UNCHANGED waiters => WaiterTypes'
  /\ JoinTypes /\ UNCHANGED <<joins, starts>> => JoinTypes'
  /\ StatusTypes /\ UNCHANGED tstatus => StatusTypes'
  /\ HubTypes /\ UNCHANGED hubVars => HubTypes'
  BY DEF connVars, roomVars, hubVars, ConnTypes, EntryTypes, MmTypes, RoomTypes,
         WaiterTypes, JoinTypes, StatusTypes, HubTypes

\* The matchmaker after any of its operations.
LEMMA MmTyped ==
  ASSUME NEW m \in MatchmakerState, NEW U \in SUBSET Users
  PROVE  /\ Left(m, U) \in MatchmakerState
         /\ Released(m, U) \in MatchmakerState
         /\ \A u \in Users : Claimed(m, u) \in MatchmakerState
         /\ \A u, v \in Users : Paired(m, u, v) \in MatchmakerState
<1>1. Left(m, U) \in MatchmakerState
  <2>1. {u \in U : m.status[u] = "queued"} \in SUBSET Users
    OBVIOUS
  <2> QED BY <2>1, ReassignFacts DEF Left
<1>2. Released(m, U) \in MatchmakerState
  BY ReassignFacts DEF Released
<1>3. ASSUME NEW u \in Users PROVE Claimed(m, u) \in MatchmakerState
  BY ReassignFacts DEF Claimed
<1>4. ASSUME NEW u \in Users, NEW v \in Users PROVE Paired(m, u, v) \in MatchmakerState
  BY ReassignFacts DEF Paired
<1> QED BY <1>1, <1>2, <1>3, <1>4

LEMMA LeavingTyped ==
  ASSUME EntryTypes, MmTypes, NEW U \in SUBSET Users
  PROVE  /\ MmAfterLeaving(U) \in MatchmakerState
         /\ EntriesAfterLeaving(U) \in [Users -> Conns \cup {NoConn}]
         /\ FallbackAfterLeaving(U) \in [Users -> {"off", "armed", "lookup"}]
         /\ StaleAfterLeaving(U) \in [Users -> Nat]
<1> DEFINE gone == {u \in U : mm.status[u] = "queued"}
           held == {u \in U : mm.status[u] = "matched" /\ entries[u] # NoConn}
<1>1. gone \in SUBSET Users /\ held \in SUBSET Users
  OBVIOUS
<1>2. Left(mm, gone) \in MatchmakerState
  BY <1>1, MmTyped DEF MmTypes
<1>3. MmAfterLeaving(U) \in MatchmakerState
  <2> HIDE DEF gone, held
  <2>1. Released(Left(mm, gone), held) \in MatchmakerState
    BY <1>1, <1>2, MmTyped
  <2> QED BY <2>1 DEF MmAfterLeaving, gone, held
<1>4. /\ EntriesAfterLeaving(U) \in [Users -> Conns \cup {NoConn}]
      /\ FallbackAfterLeaving(U) \in [Users -> {"off", "armed", "lookup"}]
  BY DEF EntriesAfterLeaving, FallbackAfterLeaving, EntryTypes
<1>5. StaleAfterLeaving(U) \in [Users -> Nat]
  BY DEF StaleAfterLeaving, EntryTypes
<1> QED BY <1>3, <1>4, <1>5

LEMMA DropEntriesTyped ==
  ASSUME EntryTypes, MmTypes, NEW U \in SUBSET Users, DropEntries(U)
  PROVE  EntryTypes'
<1>1. /\ entries' \in [Users -> Conns \cup {NoConn}]
      /\ fallback' \in [Users -> {"off", "armed", "lookup"}]
      /\ staleLookups' \in [Users -> Nat]
  BY LeavingTyped DEF DropEntries
<1>2. ASSUME NEW u \in Users, fallback'[u] # "off" PROVE entries'[u] # NoConn
  BY <1>2 DEF DropEntries, EntriesAfterLeaving, FallbackAfterLeaving, EntryTypes
<1> QED BY <1>1, <1>2 DEF EntryTypes

LEMMA LeaveQueuesTyped ==
  ASSUME EntryTypes, MmTypes, NEW U \in SUBSET Users, LeaveQueues(U)
  PROVE  EntryTypes' /\ MmTypes'
<1>1. EntryTypes'
  BY DropEntriesTyped DEF LeaveQueues
<1>2. mm' \in MatchmakerState
  BY LeavingTyped DEF LeaveQueues
<1> QED BY <1>1, <1>2 DEF MmTypes

LEMMA ConsumeEntryTyped ==
  ASSUME EntryTypes, NEW u \in Users, ConsumeEntry(u)
  PROVE  EntryTypes'
  BY DEF EntryTypes, ConsumeEntry

LEMMA LeaveWaitersTyped ==
  ASSUME WaiterTypes, NEW c, LeaveWaiters(c)
  PROVE  WaiterTypes'
  BY DEF WaiterTypes, LeaveWaiters

LEMMA DrainAfterTyped ==
  ASSUME HubTypes, NEW remaining
  PROVE  DrainAfter(remaining) \in {"serving", "waiting", "drained", "timedOut", "closed"}
  BY DEF HubTypes, DrainAfter

LEMMA CreateRoomTyped ==
  ASSUME ConnTypes, RoomTypes, HubTypes,
         NEW r \in RoomIds, NEW left \in Conns, NEW right \in Conns \cup {NoConn},
         NEW match \in TMatches \cup {NoMatch}, CreateRoom(r, left, right, match)
  PROVE  ConnTypes' /\ RoomTypes' /\ HubTypes'
<1>1. ConnTypes'
  BY DEF CreateRoom, ConnTypes
<1>2. rooms' \in [RoomIds -> Room]
  BY NewRoomTyped DEF CreateRoom, RoomTypes
<1>3. RoomTypes'
  BY <1>2 DEF CreateRoom, RoomTypes
<1>4. HubTypes'
  BY DEF CreateRoom, HubTypes
<1> QED BY <1>1, <1>3, <1>4

LEMMA CreateRoomFailsTyped ==
  ASSUME ConnTypes, RoomTypes, HubTypes, CreateRoomFails
  PROVE  ConnTypes' /\ RoomTypes' /\ HubTypes'
<1>1. ConnTypes' /\ RoomTypes'
  BY DEF CreateRoomFails, ConnTypes, RoomTypes, connVars, roomVars
<1>2. HubTypes'
  BY DrainAfterTyped DEF CreateRoomFails, HubTypes
<1> QED BY <1>1, <1>2

LEMMA RemoveRoomTyped ==
  ASSUME ConnTypes, MmTypes, RoomTypes, HubTypes,
         NEW r \in RoomIds, NEW rm \in Room, RemoveRoom(r, rm)
  PROVE  /\ roomOf' \in [Conns -> RoomIds \cup {NoRoom}]
         /\ MmTypes' /\ RoomTypes'
         /\ drain' \in {"serving", "waiting", "drained", "timedOut", "closed"}
<1>1. roomOf' \in [Conns -> RoomIds \cup {NoRoom}]
  BY DEF RemoveRoom, ConnTypes
<1>2. MmTypes'
  BY SeatedFacts, MmTyped DEF RemoveRoom, MmTypes
<1>3. rooms' \in [RoomIds -> Room]
  BY UnusedRoomTyped DEF RemoveRoom, RoomTypes
<1>4. RoomTypes'
  BY <1>3 DEF RemoveRoom, RoomTypes
<1>5. drain' \in {"serving", "waiting", "drained", "timedOut", "closed"}
  BY DrainAfterTyped DEF RemoveRoom
<1> QED BY <1>1, <1>2, <1>4, <1>5

LEMMA FinishRoomTyped ==
  ASSUME ConnTypes, MmTypes, RoomTypes, HubTypes,
         NEW r \in RoomIds, NEW rm \in Room, FinishRoom(r, rm)
  PROVE  /\ roomOf' \in [Conns -> RoomIds \cup {NoRoom}]
         /\ MmTypes' /\ RoomTypes'
         /\ drain' \in {"serving", "waiting", "drained", "timedOut", "closed"}
<1>1. FinishedRoom(rm) \in Room /\ [FinishedRoom(rm) EXCEPT !.finishing = FALSE] \in Room
  BY RoomOpsTyped
<1>2. CASE rm.guest
  BY <1>1, <1>2, RemoveRoomTyped DEF FinishRoom
<1>3. CASE ~rm.guest
  <2>1. RoomTypes'
    BY <1>1, <1>3 DEF FinishRoom, RoomTypes
  <2> QED BY <1>3, <2>1 DEF FinishRoom, ConnTypes, MmTypes, HubTypes
<1> QED BY <1>2, <1>3

-----------------------------------------------------------------------------
(* One lemma for the steps of each kind *)

LEMMA ConnectionStepsTyped ==
  ASSUME TypeInv, NEW c \in Conns, Connecting(c) \/ SocketCloses(c) \/ Disconnect(c)
  PROVE  TypeInv'
<1> USE DEF TypeInv
<1>0. UserOf[c] \in Users
  BY GameHubAssumption
<1>1. CASE ConnectReplacing(c)
  <2> DEFINE u == UserOf[c]
             previous == byUser[u]
  <2>1. previous \in Conns
    BY <1>0, <1>1 DEF ConnectReplacing, ConnTypes
  <2>2. EntryTypes' /\ MmTypes' /\ WaiterTypes'
    BY <1>0, <1>1, LeaveQueuesTyped, LeaveWaitersTyped DEF ConnectReplacing
  <2>3. /\ socket' \in [Conns -> {"open", "closing", "gone"}]
        /\ byUser' \in [Users -> Conns \cup {NoConn}]
    BY <1>0, <1>1 DEF ConnectReplacing, SocketsReplaced, ConnTypes
  <2>4. roomOf' \in [Conns -> RoomIds \cup {NoRoom}]
    BY <1>1 DEF ConnectReplacing, ConnTypes
  <2>5. rooms' \in [RoomIds -> Room]
    <3>1. CASE UNCHANGED rooms
      BY <3>1 DEF RoomTypes
    <3>2. ASSUME NEW r \in RoomIds, NEW side \in Sides,
                 rooms' = [rooms EXCEPT ![r].seats[side] = c]
          PROVE  rooms' \in [RoomIds -> Room]
      <4>1. [rooms[r] EXCEPT !.seats[side] = c] \in Room
        BY SideOpsTyped DEF RoomTypes
      <4> QED BY <3>2, <4>1 DEF RoomTypes
    <3> QED BY <1>1, <3>1, <3>2 DEF ConnectReplacing
  <2>6. RoomTypes'
    BY <1>1, <2>5 DEF ConnectReplacing, RoomTypes
  <2>7. UNCHANGED <<joins, starts, tstatus, hubVars>>
    BY <1>1 DEF ConnectReplacing
  <2> QED BY <2>2, <2>3, <2>4, <2>6, <2>7, SameTypes DEF ConnTypes
<1>2. CASE ConnectRecovering(c)
  <2>1. /\ socket' \in [Conns -> {"open", "closing", "gone"}]
        /\ byUser' \in [Users -> Conns \cup {NoConn}]
    BY <1>0, <1>2 DEF ConnectRecovering, ConnTypes
  <2>2. PICK r \in RoomIds, side \in Sides :
           LET lost == rooms[r].seats[side]
               rm   == RecoveredRoom(rooms[r], side, c)
           IN  /\ Recoverable(UserOf[c], r, side)
               /\ rooms' = [rooms EXCEPT ![r] = rm]
               /\ roomOf' = [roomOf EXCEPT ![lost] = NoRoom, ![c] = r]
               /\ scheduled' = IF Playing(rm) THEN scheduled \cup {r} ELSE scheduled
    BY <1>2 DEF ConnectRecovering
  <2>3. RecoveredRoom(rooms[r], side, c) \in Room
    BY <2>2, SideOpsTyped DEF Recoverable, RoomTypes
  <2>4. RoomTypes'
    BY <1>2, <2>2, <2>3 DEF ConnectRecovering, RoomTypes
  <2>5. roomOf' \in [Conns -> RoomIds \cup {NoRoom}]
    BY <2>2 DEF ConnTypes
  <2>6. UNCHANGED <<queueVars, tourVars, hubVars>>
    BY <1>2 DEF ConnectRecovering
  <2> QED BY <2>1, <2>4, <2>5, <2>6, SameTypes DEF ConnTypes, queueVars, tourVars
<1>3. CASE ConnectFresh(c)
  <2>1. ConnTypes'
    BY <1>0, <1>3 DEF ConnectFresh, ConnTypes
  <2> QED BY <1>3, <2>1, SameTypes DEF ConnectFresh, queueVars, tourVars
<1>4. CASE SocketCloses(c)
  <2>1. ConnTypes'
    BY <1>4 DEF SocketCloses, ConnTypes
  <2> QED BY <1>4, <2>1, SameTypes DEF SocketCloses, queueVars, tourVars
<1>5. CASE Disconnect(c)
  <2>1. ConnTypes'
    BY <1>0, <1>5 DEF Disconnect, ConnTypes
  <2>2. EntryTypes' /\ MmTypes' /\ WaiterTypes'
    BY <1>0, <1>5, LeaveQueuesTyped, LeaveWaitersTyped DEF Disconnect
  <2>3. RoomTypes'
    <3>1. CASE UNCHANGED <<rooms, scheduled>>
      BY <1>5, <3>1 DEF Disconnect, RoomTypes
    <3>2. ASSUME NEW r \in RoomIds, NEW side \in Sides,
                 rooms' = [rooms EXCEPT ![r] = ReservedRoom(rooms[r], side)],
                 scheduled' \in {scheduled, scheduled \ {r}}
          PROVE  RoomTypes'
      <4>1. ReservedRoom(rooms[r], side) \in Room
        BY SideOpsTyped DEF RoomTypes
      <4> QED BY <1>5, <3>2, <4>1 DEF Disconnect, RoomTypes
    <3> QED BY <1>5, <3>1, <3>2 DEF Disconnect
  <2> QED BY <1>5, <2>1, <2>2, <2>3, SameTypes DEF Disconnect
<1> QED BY <1>1, <1>2, <1>3, <1>4, <1>5 DEF Connecting

LEMMA JoinStepsTyped ==
  ASSUME TypeInv, NEW c \in Conns,
         \/ QueueJoinWaits(c) \/ QueueJoinMatches(c) \/ QueueJoinAi(c) \/ QueueLeave(c)
         \/ \E m \in TMatches : TournamentJoin(c, m)
  PROVE  TypeInv'
<1> USE DEF TypeInv
<1>0. UserOf[c] \in Users /\ DeadEntries \in SUBSET Users
  BY GameHubAssumption DEF DeadEntries
<1>1. /\ MmAfterLeaving(DeadEntries) \in MatchmakerState
      /\ EntriesAfterLeaving(DeadEntries) \in [Users -> Conns \cup {NoConn}]
      /\ FallbackAfterLeaving(DeadEntries) \in [Users -> {"off", "armed", "lookup"}]
  BY <1>0, LeavingTyped
<1>2. CASE QueueJoinWaits(c)
  <2> DEFINE u == UserOf[c]
             m == MmAfterLeaving(DeadEntries)
  <2>1. CASE LeaveQueues(DeadEntries)
    <3>1. EntryTypes' /\ MmTypes'
      BY <1>0, <2>1, LeaveQueuesTyped
    <3> QED BY <1>2, <3>1, SameTypes DEF QueueJoinWaits, tourVars
  <2>2. CASE /\ mm' = Enqueued(m, u, 0)
             /\ entries' = [EntriesAfterLeaving(DeadEntries) EXCEPT ![u] = c]
             /\ fallback' = [FallbackAfterLeaving(DeadEntries) EXCEPT ![u] = "armed"]
             /\ staleLookups' = StaleAfterLeaving(DeadEntries \cup {u})
    <3>1. mm' \in MatchmakerState
      BY <1>0, <1>1, <2>2, EnqueuedFacts
    <3>2. staleLookups' \in [Users -> Nat]
      <4>1. DeadEntries \cup {u} \in SUBSET Users
        BY <1>0
      <4> QED BY <2>2, <4>1, LeavingTyped
    <3>3. \A v \in Users : fallback'[v] # "off" => entries'[v] # NoConn
      BY <1>0, <1>1, <2>2, GameHubAssumption
         DEF EntriesAfterLeaving, FallbackAfterLeaving, EntryTypes
    <3>4. EntryTypes'
      BY <1>0, <1>1, <2>2, <3>2, <3>3 DEF EntryTypes
    <3> QED BY <1>2, <3>1, <3>4, SameTypes DEF MmTypes, QueueJoinWaits, tourVars
  <2> QED BY <1>2, <2>1, <2>2 DEF QueueJoinWaits
<1>3. CASE QueueJoinMatches(c)
  <2> DEFINE u == UserOf[c]
             m == MmAfterLeaving(DeadEntries)
  <2>1. PICK v \in m.queue :
          LET opponent == EntriesAfterLeaving(DeadEntries)[v] IN
              /\ IsClosest(m, u, v)
              /\ DropEntries(DeadEntries \cup {v})
              /\ \/ /\ opponent # NoConn
                    /\ mm' = Paired(m, u, v)
                    /\ \E r \in RoomIds : CreateRoom(r, opponent, c, NoMatch)
                 \/ /\ opponent # NoConn => CreateRoomMayFail
                    /\ mm' = Released(m, {u, v})
                    /\ UNCHANGED <<connVars, roomVars, accepting>>
                    /\ drain' = IF opponent = NoConn THEN drain ELSE DrainAfter(live)
    BY <1>3 DEF QueueJoinMatches
  <2> DEFINE opponent == EntriesAfterLeaving(DeadEntries)[v]
  <2>2. v \in Users
    BY <1>1 DEF MatchmakerState
  <2>3. EntryTypes'
    <3>1. DeadEntries \cup {v} \in SUBSET Users
      BY <1>0, <2>2
    <3> QED BY <2>1, <3>1, DropEntriesTyped
  <2>4. opponent \in Conns \cup {NoConn}
    BY <1>1, <2>2
  <2>5. MmTypes'
    <3>1. Paired(m, u, v) \in MatchmakerState /\ Released(m, {u, v}) \in MatchmakerState
      <4> HIDE DEF m
      <4>1. {u, v} \in SUBSET Users
        BY <1>0, <2>2
      <4> QED BY <1>0, <1>1, <2>2, <4>1, MmTyped DEF m
    <3> QED BY <2>1, <3>1 DEF MmTypes
  <2>6. ConnTypes' /\ RoomTypes' /\ HubTypes'
    <3>1. ASSUME NEW r \in RoomIds, opponent # NoConn, CreateRoom(r, opponent, c, NoMatch)
          PROVE  ConnTypes' /\ RoomTypes' /\ HubTypes'
      BY <2>4, <3>1, CreateRoomTyped
    <3>2. ASSUME UNCHANGED <<connVars, roomVars, accepting>>,
                 drain' = IF opponent = NoConn THEN drain ELSE DrainAfter(live)
          PROVE  ConnTypes' /\ RoomTypes' /\ HubTypes'
      BY <3>2, SameTypes, DrainAfterTyped DEF HubTypes
    <3> QED BY <2>1, <3>1, <3>2
  <2> QED BY <1>3, <2>3, <2>5, <2>6, SameTypes DEF QueueJoinMatches, tourVars
<1>4. CASE QueueJoinAi(c)
  <2>1. EntryTypes' /\ MmTypes'
    <3>1. DeadEntries \cup {UserOf[c]} \in SUBSET Users
      BY <1>0
    <3> QED BY <1>4, <3>1, LeaveQueuesTyped DEF QueueJoinAi
  <2>2. ConnTypes' /\ RoomTypes' /\ HubTypes'
    BY <1>4, CreateRoomTyped, CreateRoomFailsTyped DEF QueueJoinAi
  <2> QED BY <1>4, <2>1, <2>2, SameTypes DEF QueueJoinAi, tourVars
<1>5. CASE QueueLeave(c)
  <2>1. EntryTypes' /\ MmTypes'
    BY <1>0, <1>5, LeaveQueuesTyped DEF QueueLeave
  <2> QED BY <1>5, <2>1, SameTypes DEF QueueLeave, tourVars
<1>6. ASSUME NEW m \in TMatches, TournamentJoin(c, m) PROVE TypeInv'
  <2>1. EntryTypes' /\ MmTypes' /\ WaiterTypes'
    BY <1>0, <1>6, LeaveQueuesTyped, LeaveWaitersTyped DEF TournamentJoin
  <2>2. JoinTypes'
    BY <1>6 DEF TournamentJoin, JoinTypes
  <2> QED BY <1>6, <2>1, <2>2, SameTypes DEF TournamentJoin
<1> QED BY <1>2, <1>3, <1>4, <1>5, <1>6

LEMMA QueueStepsTyped ==
  ASSUME TypeInv, NEW u \in Users, QueueStep(u)
  PROVE  TypeInv'
<1> USE DEF TypeInv
<1>0. /\ {u} \in SUBSET Users
      /\ Released(mm, {u}) \in MatchmakerState /\ Claimed(mm, u) \in MatchmakerState
      /\ entries[u] \in Conns \cup {NoConn}
  BY MmTyped DEF MmTypes, EntryTypes
<1>1. CASE FallbackDrops(u)
  <2>1. EntryTypes' /\ MmTypes'
    <3>1. CASE LeaveQueues({u})
      BY <1>0, <3>1, LeaveQueuesTyped
    <3>2. CASE ConsumeEntry(u) /\ UNCHANGED mm
      BY <3>2, ConsumeEntryTyped DEF MmTypes
    <3> QED BY <1>1, <3>1, <3>2 DEF FallbackDrops
  <2> QED BY <1>1, <2>1, SameTypes DEF FallbackDrops, tourVars
<1>2. CASE FallbackAsksNpc(u)
  <2>1. EntryTypes' /\ MmTypes'
    BY <1>0, <1>2 DEF FallbackAsksNpc, FallbackReady, EntryTypes, MmTypes
  <2> QED BY <1>2, <2>1, SameTypes DEF FallbackAsksNpc, tourVars
<1>3. CASE FallbackGuestRoom(u)
  <2>1. EntryTypes' /\ MmTypes'
    BY <1>0, <1>3, ConsumeEntryTyped DEF FallbackGuestRoom, MmTypes
  <2>2. entries[u] # NoConn
    BY <1>3 DEF FallbackGuestRoom, FallbackReady, EntryTypes
  <2>3. ConnTypes' /\ RoomTypes' /\ HubTypes'
    BY <1>0, <1>3, <2>2, CreateRoomTyped, CreateRoomFailsTyped DEF FallbackGuestRoom
  <2> QED BY <1>3, <2>1, <2>3, SameTypes DEF FallbackGuestRoom, tourVars
<1>4. CASE NpcFound(u)
  <2>1. MmTypes'
    BY <1>0, <1>4 DEF NpcFound, MmTypes
  <2>2. EntryTypes'
    BY <1>4, ConsumeEntryTyped DEF NpcFound, EntryTypes
  <2>3. entries[u] # NoConn
    BY <1>4 DEF NpcFound, EntryTypes
  <2>4. ConnTypes' /\ RoomTypes' /\ HubTypes'
    BY <1>0, <1>4, <2>3, CreateRoomTyped, CreateRoomFailsTyped, SameTypes DEF NpcFound
  <2> QED BY <1>4, <2>1, <2>2, <2>4, SameTypes DEF NpcFound, tourVars
<1>5. CASE NpcMissing(u)
  BY <1>0, <1>5, ConsumeEntryTyped, SameTypes DEF NpcMissing, MmTypes, tourVars
<1>6. CASE StaleLookupReturns(u)
  <2>1. staleLookups' \in [Users -> Nat]
    BY <1>6 DEF StaleLookupReturns, EntryTypes
  <2>2. EntryTypes' /\ MmTypes'
    BY <1>0, <1>6, <2>1 DEF StaleLookupReturns, EntryTypes, MmTypes
  <2> QED BY <1>6, <2>2, SameTypes DEF StaleLookupReturns, tourVars
<1> QED BY <1>1, <1>2, <1>3, <1>4, <1>5, <1>6 DEF QueueStep

LEMMA TournamentStepsTyped ==
  ASSUME TypeInv, TournamentStep
  PROVE  TypeInv'
<1> USE DEF TypeInv
<1>1. ASSUME NEW j \in joins, TournamentRead(j) PROVE TypeInv'
  <2>1. j \in [conn : Conns, match : TMatches,
               row : {"unread", "ready", "running", "finished"}]
    BY DEF JoinTypes
  <2>2. [j EXCEPT !.row = tstatus[j.match]] \in
           [conn : Conns, match : TMatches, row : {"unread", "ready", "running", "finished"}]
    BY <2>1 DEF StatusTypes
  <2>3. JoinTypes'
    BY <1>1, <2>2 DEF TournamentRead, JoinTypes
  <2> QED BY <1>1, <2>3, SameTypes DEF TournamentRead, queueVars
<1>2. ASSUME NEW j \in joins, TournamentSeats(j) PROVE TypeInv'
  <2> DEFINE c == j.conn
             m == j.match
  <2>1. c \in Conns /\ m \in TMatches
    BY DEF JoinTypes
  <2>2. EntryTypes' /\ MmTypes' /\ StatusTypes'
    BY <1>2, SameTypes DEF TournamentSeats, queueVars
  <2>3. joins' \in SUBSET [conn : Conns, match : TMatches,
                           row : {"unread", "ready", "running", "finished"}]
    BY <1>2 DEF TournamentSeats, JoinTypes
  <2>4. WaiterTypes'
    BY <1>2, <2>1 DEF TournamentSeats, WaitingOpponents, WaiterTypes
  <2>5. CASE UNCHANGED <<connVars, roomVars, starts, hubVars>>
    BY <2>2, <2>3, <2>4, <2>5, SameTypes DEF JoinTypes
  <2>6. CASE CreateRoomFails /\ UNCHANGED starts
    BY <2>2, <2>3, <2>4, <2>6, CreateRoomFailsTyped DEF JoinTypes
  <2>7. ASSUME NEW w \in waiters[m], NEW r \in RoomIds,
               LET left == LeftOf(m, c, w)
               IN  CreateRoom(r, left, IF left = c THEN w ELSE c, m),
               starts' = starts \cup {[match |-> m, room |-> r]}
        PROVE  TypeInv'
    <3>1. w \in Conns
      BY <2>1 DEF WaiterTypes
    <3>2. LeftOf(m, c, w) \in Conns
      BY <2>1, <3>1 DEF LeftOf
    <3>3. ConnTypes' /\ RoomTypes' /\ HubTypes'
      <4> DEFINE left == LeftOf(m, c, w)
                 right == IF left = c THEN w ELSE c
      <4>1. left \in Conns /\ right \in Conns \cup {NoConn} /\ m \in TMatches \cup {NoMatch}
        BY <2>1, <3>1, <3>2
      <4>2. CreateRoom(r, left, right, m)
        BY <2>7
      <4> HIDE DEF left, right, m
      <4> QED BY <4>1, <4>2, CreateRoomTyped
    <3>4. starts' \in SUBSET [match : TMatches, room : RoomIds]
      BY <2>1, <2>7 DEF JoinTypes
    <3> QED BY <2>2, <2>3, <2>4, <3>3, <3>4 DEF JoinTypes
  <2> QED BY <1>2, <2>5, <2>6, <2>7 DEF TournamentSeats, WaitingOpponents
<1>3. ASSUME NEW s \in starts, StartSucceeds(s) PROVE TypeInv'
  <2>1. StatusTypes' /\ JoinTypes'
    BY <1>3 DEF StartSucceeds, MarkRunning, StatusTypes, JoinTypes
  <2> QED BY <1>3, <2>1, SameTypes DEF StartSucceeds, queueVars
<1>4. ASSUME NEW s \in starts, StartFails(s) PROVE TypeInv'
  <2>1. StatusTypes' /\ JoinTypes' /\ WaiterTypes'
    BY <1>4 DEF StartFails, MarkRunning, StatusTypes, JoinTypes, WaiterTypes
  <2>2. s.room \in RoomIds
    BY DEF JoinTypes
  <2>3. [rooms[s.room] EXCEPT !.timer = FALSE] \in Room
    BY <2>2, RoomOpsTyped DEF RoomTypes
  <2>4. /\ roomOf' \in [Conns -> RoomIds \cup {NoRoom}] /\ MmTypes' /\ RoomTypes'
        /\ drain' \in {"serving", "waiting", "drained", "timedOut", "closed"}
    <3>1. CASE s.room \in live
      BY <1>4, <2>2, <2>3, <3>1, RemoveRoomTyped DEF StartFails
    <3>2. CASE s.room \notin live
      BY <1>4, <3>2 DEF StartFails, ConnTypes, HubTypes, MmTypes, RoomTypes, roomVars
    <3> QED BY <3>1, <3>2
  <2> QED BY <1>4, <2>1, <2>4 DEF StartFails, ConnTypes, EntryTypes, HubTypes
<1> QED BY <1>1, <1>2, <1>3, <1>4 DEF TournamentStep

LEMMA PlayStepsTyped ==
  ASSUME TypeInv, NEW r \in RoomIds,
         (\E c \in Conns : Ready(c, r) \/ Pause(c, r) \/ Resume(c, r)) \/ RoomStep(r)
  PROVE  TypeInv'
<1> USE DEF TypeInv
<1>0. rooms[r] \in Room
  BY DEF RoomTypes
<1>1. ASSUME NEW c \in Conns, Ready(c, r) PROVE TypeInv'
  <2>1. RoomTypes'
    BY <1>0, <1>1, SideOpsTyped DEF Ready, SidesOf, RoomTypes
  <2> QED BY <1>1, <2>1, SameTypes DEF Ready, queueVars, tourVars
<1>2. ASSUME NEW c \in Conns, Pause(c, r) PROVE TypeInv'
  <2> DEFINE s == SessionPause(rooms[r].session)
             p == IF s.state = "paused" THEN "paused" ELSE rooms[r].phase
  <2>1. [rooms[r] EXCEPT !.session = s, !.phase = p] \in Room
    BY <1>0, RoomOpsTyped
  <2>2. rooms' = [rooms EXCEPT ![r] = [rooms[r] EXCEPT !.session = s, !.phase = p]]
    BY <1>0, <1>2 DEF Pause, RoomTypes
  <2>3. RoomTypes'
    BY <1>2, <2>1, <2>2 DEF Pause, RoomTypes
  <2> QED BY <1>2, <2>3, SameTypes DEF Pause, queueVars, tourVars
<1>3. ASSUME NEW c \in Conns, Resume(c, r) PROVE TypeInv'
  <2> DEFINE s == SessionResume(rooms[r].session)
  <2>1. [rooms[r] EXCEPT !.session = s, !.phase = "playing"] \in Room
    BY <1>0, RoomOpsTyped
  <2>2. rooms' = [rooms EXCEPT ![r] = [rooms[r] EXCEPT !.session = s, !.phase = "playing"]]
    BY <1>0, <1>3 DEF Resume, RoomTypes
  <2>3. RoomTypes'
    BY <1>3, <2>1, <2>2 DEF Resume, RoomTypes
  <2> QED BY <1>3, <2>3, SameTypes DEF Resume, queueVars, tourVars
<1>4. CASE GameEnds(r)
  BY <1>0, <1>4, FinishRoomTyped, SameTypes DEF GameEnds, ConnTypes, HubTypes, tourVars
<1>5. CASE ReconnectTimer(r)
  <2>1. /\ roomOf' \in [Conns -> RoomIds \cup {NoRoom}] /\ MmTypes' /\ RoomTypes'
        /\ drain' \in {"serving", "waiting", "drained", "timedOut", "closed"}
    <3> DEFINE over == [rooms[r] EXCEPT !.timer = FALSE, !.away = {},
                                        !.session = SessionFinish(@)]
    <3>1. over \in Room
      BY <1>0, RoomOpsTyped
    <3>2. CASE RemoveRoom(r, over)
      BY <3>1, <3>2, RemoveRoomTyped
    <3>3. CASE FinishRoom(r, over)
      BY <3>1, <3>3, FinishRoomTyped
    <3>4. CASE /\ rooms' = [rooms EXCEPT ![r] = RearmedRoom(rooms[r])]
               /\ UNCHANGED <<mm, roomOf, live, scheduled, drain>>
      <4>1. RearmedRoom(rooms[r]) \in Room
        BY <1>0, RoomOpsTyped
      <4> QED BY <3>4, <4>1 DEF ConnTypes, MmTypes, RoomTypes, HubTypes
    <3> QED BY <1>5, <3>2, <3>3, <3>4 DEF ReconnectTimer
  <2> QED BY <1>5, <2>1, SameTypes DEF ReconnectTimer, ConnTypes, HubTypes, tourVars
<1>6. CASE FinalizeSucceeds(r)
  <2>1. [rooms[r] EXCEPT !.finishing = FALSE] \in Room
    BY <1>0, RoomOpsTyped
  <2>2. /\ roomOf' \in [Conns -> RoomIds \cup {NoRoom}] /\ MmTypes' /\ RoomTypes'
        /\ drain' \in {"serving", "waiting", "drained", "timedOut", "closed"}
    BY <1>6, <2>1, RemoveRoomTyped DEF FinalizeSucceeds
  <2>3. StatusTypes'
    BY <1>6 DEF FinalizeSucceeds, Decide, StatusTypes
  <2> QED BY <1>6, <2>2, <2>3, SameTypes DEF FinalizeSucceeds, ConnTypes, HubTypes
<1>7. CASE FinalizeFails(r)
  <2>1. [rooms[r] EXCEPT !.finishing = FALSE] \in Room
    BY <1>0, RoomOpsTyped
  <2>2. RoomTypes'
    BY <1>7, <2>1 DEF FinalizeFails, RoomTypes
  <2>3. StatusTypes'
    BY <1>7 DEF FinalizeFails, Decide, StatusTypes
  <2>4. MmTypes'
    BY <1>0, <1>7, SeatedFacts, MmTyped DEF FinalizeFails, MmTypes
  <2> QED BY <1>7, <2>2, <2>3, <2>4, SameTypes DEF FinalizeFails
<1> QED BY <1>1, <1>2, <1>3, <1>4, <1>5, <1>6, <1>7 DEF RoomStep

LEMMA HubStepsTyped ==
  ASSUME TypeInv, BeginDrain \/ DrainTimesOut \/ Close \/ Tick
  PROVE  TypeInv'
<1> USE DEF TypeInv
<1>0. Entered \in SUBSET Users
  BY DEF Entered
<1>1. CASE BeginDrain
  <2>1. EntryTypes' /\ MmTypes'
    BY <1>0, <1>1, LeaveQueuesTyped DEF BeginDrain
  <2>2. WaiterTypes' /\ HubTypes'
    BY <1>1 DEF BeginDrain, WaiterTypes, HubTypes
  <2> QED BY <1>1, <2>1, <2>2, SameTypes DEF BeginDrain
<1>2. CASE DrainTimesOut
  <2>1. HubTypes'
    BY <1>2 DEF DrainTimesOut, HubTypes
  <2> QED BY <1>2, <2>1, SameTypes DEF DrainTimesOut, queueVars, tourVars
<1>3. CASE Close
  <2>1. EntryTypes'
    BY <1>0, <1>3, DropEntriesTyped DEF Close
  <2>2. MmTypes'
    <3>1. MmAfterLeaving(Entered) \in MatchmakerState
      BY <1>0, LeavingTyped
    <3>2. UNION {SeatedUsers(rooms[r]) : r \in live} \in SUBSET Users
      BY SeatedFacts DEF RoomTypes
    <3> QED BY <1>3, <3>1, <3>2, MmTyped DEF Close, MmTypes
  <2>3. rooms' \in [RoomIds -> Room]
    BY <1>3, RoomOpsTyped, UnusedRoomTyped DEF Close, RoomTypes
  <2>4. ConnTypes' /\ RoomTypes' /\ WaiterTypes' /\ HubTypes'
    BY <1>3, <2>3 DEF Close, ConnTypes, RoomTypes, WaiterTypes, HubTypes
  <2> QED BY <1>3, <2>1, <2>2, <2>4, SameTypes DEF Close
<1>4. CASE Tick
  <2>1. RoomTypes'
    BY <1>4, RoomOpsTyped DEF Tick, RoomTypes
  <2>2. MmTypes'
    <3>1. Fallback \in Int
      BY MatchmakerAssumption
    <3>2. [u \in Users |-> IF u \in mm.queue /\ mm.queuedAt[u] > -Fallback
                           THEN mm.queuedAt[u] - 1 ELSE mm.queuedAt[u]] \in [Users -> Int]
      BY DEF MmTypes, MatchmakerState
    <3> QED BY <1>4, <3>2 DEF Tick, MmTypes, MatchmakerState
  <2> QED BY <1>4, <2>1, <2>2, SameTypes DEF Tick, tourVars
<1> QED BY <1>1, <1>2, <1>3, <1>4

\* A step of the hub keeps the types.
LEMMA TypesStep ==
  TypeInv /\ [Next]_vars => TypeInv'
<1> SUFFICES ASSUME TypeInv, [Next]_vars PROVE TypeInv'
  OBVIOUS
<1>1. ASSUME NEW c \in Conns, ClientStep(c) PROVE TypeInv'
  BY <1>1, ConnectionStepsTyped, JoinStepsTyped, PlayStepsTyped DEF ClientStep
<1>2. ASSUME NEW u \in Users, QueueStep(u) PROVE TypeInv'
  BY <1>2, QueueStepsTyped
<1>3. ASSUME NEW r \in RoomIds, RoomStep(r) PROVE TypeInv'
  BY <1>3, PlayStepsTyped
<1>4. CASE TournamentStep
  BY <1>4, TournamentStepsTyped
<1>5. CASE BeginDrain \/ DrainTimesOut \/ Close \/ Tick
  BY <1>5, HubStepsTyped
<1>6. CASE UNCHANGED vars
  BY <1>6, SameTypes DEF vars, queueVars, tourVars, TypeInv
<1> QED BY <1>1, <1>2, <1>3, <1>4, <1>5, <1>6 DEF Next

\* The variables of the hub always have their types.
LEMMA TypesKept == Spec => []TypeInv
<1>1. Init => TypeInv
  BY NewMatchmakerFacts, UnusedRoomTyped
     DEF Init, TypeInv, ConnTypes, EntryTypes, MmTypes, RoomTypes, WaiterTypes, JoinTypes,
         StatusTypes, HubTypes
<1> QED BY <1>1, TypesStep, PTL DEF Spec

\* Every variable of the hub keeps its type, and with it every room its record
\* and every session its states.
THEOREM TypeCorrect == Spec => []TypeOK
  BY TypesKept, TypeGroups, PTL

-----------------------------------------------------------------------------
(* One connection of a user *)

\* A step of the hub leaves every user one connection.
LEMMA SingleStep ==
  TypeInv /\ OneConnectionPerUser /\ [Next]_vars => OneConnectionPerUser'
<1> USE DEF OneConnectionPerUser, Registered
<1> SUFFICES ASSUME TypeInv, OneConnectionPerUser, [Next]_vars
             PROVE  OneConnectionPerUser'
  OBVIOUS
<1>0. ConnTypes /\ UserOf \in [Conns -> Users] /\ NoConn \notin Conns
  BY GameHubAssumption DEF TypeInv
<1> USE <1>0 DEF ConnTypes
<1>1. CASE UNCHANGED <<socket, byUser>>
  BY <1>1
<1>2. ASSUME NEW c \in Conns, ConnectReplacing(c) PROVE OneConnectionPerUser'
  BY <1>2 DEF ConnectReplacing, SocketsReplaced
<1>3. ASSUME NEW c \in Conns, ConnectRecovering(c) \/ ConnectFresh(c)
      PROVE  OneConnectionPerUser'
  <2>1. /\ byUser[UserOf[c]] = NoConn
        /\ socket' = [socket EXCEPT ![c] = "open"]
        /\ byUser' = [byUser EXCEPT ![UserOf[c]] = c]
    BY <1>3 DEF ConnectRecovering, ConnectFresh
  <2> QED BY <2>1
<1>4. ASSUME NEW c \in Conns, SocketCloses(c) PROVE OneConnectionPerUser'
  BY <1>4 DEF SocketCloses
<1>5. ASSUME NEW c \in Conns, Disconnect(c) PROVE OneConnectionPerUser'
  BY <1>5 DEF Disconnect
<1>6. CASE Close
  BY <1>6 DEF Close
<1>7. ASSUME NEW c \in Conns, ClientStep(c) PROVE OneConnectionPerUser'
  <2>1. ASSUME \/ QueueJoinWaits(c) \/ QueueJoinMatches(c) \/ QueueJoinAi(c) \/ QueueLeave(c)
               \/ \E m \in TMatches : TournamentJoin(c, m)
               \/ \E r \in RoomIds : Ready(c, r) \/ Pause(c, r) \/ Resume(c, r)
        PROVE  UNCHANGED <<socket, byUser>>
    BY <2>1 DEF QueueJoinWaits, QueueJoinMatches, QueueJoinAi, QueueLeave, TournamentJoin,
                Ready, Pause, Resume, CreateRoom, CreateRoomFails, connVars
  <2> QED BY <1>1, <1>2, <1>3, <1>4, <1>5, <1>7, <2>1 DEF ClientStep, Connecting
<1>8. ASSUME NEW u \in Users, QueueStep(u) PROVE UNCHANGED <<socket, byUser>>
  BY <1>8 DEF QueueStep, FallbackDrops, FallbackAsksNpc, FallbackGuestRoom, NpcFound,
              NpcMissing, StaleLookupReturns, CreateRoom, CreateRoomFails, connVars
<1>9. ASSUME NEW r \in RoomIds, RoomStep(r) PROVE UNCHANGED <<socket, byUser>>
  BY <1>9 DEF RoomStep, GameEnds, ReconnectTimer, FinalizeSucceeds, FinalizeFails, connVars
<1>10. CASE TournamentStep
  <2>1. UNCHANGED <<socket, byUser>>
    BY <1>10 DEF TournamentStep, TournamentRead, TournamentSeats, StartSucceeds, StartFails,
                 CreateRoom, CreateRoomFails, connVars
  <2> QED BY <1>1, <2>1
<1>11. CASE BeginDrain \/ DrainTimesOut \/ Tick \/ UNCHANGED vars
  <2>1. UNCHANGED <<socket, byUser>>
    BY <1>11 DEF BeginDrain, DrainTimesOut, Tick, vars, connVars
  <2> QED BY <1>1, <2>1
<1> QED BY <1>1, <1>6, <1>7, <1>8, <1>9, <1>10, <1>11 DEF Next

\* clients and clientsByUser are the same connections: a user never has two in
\* the hub.
THEOREM SingleConnection == Spec => []OneConnectionPerUser
<1> USE DEF OneConnectionPerUser, Registered
<1>1. Init => OneConnectionPerUser
  BY DEF Init
<1> QED BY <1>1, SingleStep, TypesKept, PTL DEF Spec

-----------------------------------------------------------------------------
(* Rooms follow their sessions, and are finalized once *)

\* What holds of every room record.  The last two conjuncts strengthen the
\* properties: a ready mark of the session is one of the room too, or a room
\* could be played without being scheduled; and a room whose result was asked
\* for is finished, or it could be asked for again.
RoomShape(rm) ==
    /\ WellFormedSession(rm.session)
    /\ rm.away = rm.session.disconnected
    /\ rm.timer <=> rm.session.deadline # {}
    /\ rm.phase = (IF Interrupted(rm.session) THEN "paused" ELSE rm.session.state)
    /\ rm.finishing => rm.session.state = "finished"
    /\ rm.session.ready \subseteq rm.ready \cup (IF rm.ai THEN {"right"} ELSE {})
    /\ rm.calls # 0 => rm.calls = 1 /\ rm.session.state = "finished"

RoomsInv ==
    /\ \A r \in RoomIds : RoomShape(rooms[r])
    /\ scheduled \subseteq live
    /\ \A r \in live : r \in scheduled <=> Playing(rooms[r])

LEMMA NewRoomShape ==
  ASSUME NEW left, NEW right, NEW match
  PROVE  RoomShape(NewRoom(left, right, match)) /\ ~Playing(NewRoom(left, right, match))
<1> DEFINE new == NewRoom(left, right, match)
           s == SessionMarkReady(NewSession, "right")
<1>1. /\ s.state = "waiting" /\ s.ready = {"right"} /\ s.disconnected = {}
      /\ s.deadline = {} /\ s.resumeState = "waiting"
  BY DEF SessionMarkReady, NewSession, Sides
<1>2. WellFormedSession(s)
  BY <1>1 DEF WellFormedSession, Interrupted, Underlying, Sides
<1>3. /\ new.session = (IF right = NoConn THEN s ELSE NewSession) /\ new.ai = (right = NoConn)
      /\ new.away = {} /\ new.timer = FALSE /\ new.phase = "waiting" /\ new.calls = 0
      /\ new.finishing = FALSE
  BY DEF NewRoom
<1>4. /\ NewSession.state = "waiting" /\ NewSession.ready = {}
      /\ NewSession.disconnected = {} /\ NewSession.deadline = {}
  BY DEF NewSession
<1> HIDE DEF new, s
<1>5. CASE right = NoConn
  BY <1>1, <1>2, <1>3, <1>5 DEF RoomShape, Playing, Interrupted, new
<1>6. CASE right # NoConn
  BY <1>3, <1>4, <1>6, NewSessionFacts DEF RoomShape, Playing, Interrupted, new
<1> QED BY <1>5, <1>6

LEMMA UnusedRoomShape == RoomShape(UnusedRoom)
  BY DEF UnusedRoom, RoomShape, NewSession, SessionFinish, WellFormedSession, Interrupted,
         Underlying, Sides

LEMMA ReadyShape ==
  ASSUME NEW rm \in Room, RoomShape(rm), NEW side \in Sides
  PROVE  /\ RoomShape(ReadyRoom(rm, side))
         /\ Playing(ReadyRoom(rm, side)) =>
               Playing(rm) \/ ReadyRoom(rm, side).ready = Sides
         /\ Playing(rm) => Playing(ReadyRoom(rm, side))
<1> DEFINE new == ReadyRoom(rm, side)
           s == SessionMarkReady(rm.session, side)
<1>0. rm.session \in Session /\ 0 \in Int
  BY DEF Room
<1>1. WellFormedSession(s)
  BY <1>0, SessionShape DEF RoomShape
<1>2. /\ new.session = s /\ new.away = rm.away /\ new.timer = rm.timer
      /\ new.finishing = rm.finishing /\ new.ai = rm.ai /\ new.calls = rm.calls
      /\ new.ready = rm.ready \cup {side} \cup (IF rm.ai THEN {"right"} ELSE {})
      /\ new.phase = IF new.ready = Sides /\ s.state = "playing" THEN "playing" ELSE rm.phase
  BY DEF ReadyRoom, Room
<1>3. CASE rm.session.state # "waiting"
  <2>1. s = rm.session
    BY <1>3 DEF SessionMarkReady
  <2> QED BY <1>2, <2>1 DEF RoomShape, Playing, Interrupted
<1>4. CASE rm.session.state = "waiting"
  <2>1. /\ s.disconnected = rm.session.disconnected /\ s.deadline = rm.session.deadline
        /\ s.ready = rm.session.ready \cup {side}
        /\ s.state = IF s.ready = Sides THEN "playing" ELSE "waiting"
    BY <1>0, <1>4 DEF SessionMarkReady, Session
  <2>2. s.ready = Sides => new.ready = Sides
    BY <1>2, <2>1 DEF RoomShape, Room, Sides
  <2>3. s.ready \subseteq new.ready \cup (IF new.ai THEN {"right"} ELSE {})
    BY <1>2, <2>1 DEF RoomShape
  <2> QED BY <1>1, <1>2, <1>4, <2>1, <2>2, <2>3 DEF RoomShape, Playing, Interrupted
<1> QED BY <1>3, <1>4

LEMMA ReservedShape ==
  ASSUME NEW rm \in Room, RoomShape(rm), NEW side \in Sides
  PROVE  /\ RoomShape(ReservedRoom(rm, side))
         /\ ReservedRoom(rm, side) = rm \/ ~Playing(ReservedRoom(rm, side))
<1>0. rm.session \in Session /\ 0 \in Int
  BY DEF Room
<1>1. WellFormedSession(SessionDisconnect(rm.session, side, 0))
  BY <1>0, SessionShape DEF RoomShape
<1>2. CASE rm.finishing \/ rm.session.state = "finished"
  BY <1>2 DEF ReservedRoom
<1>3. CASE ~(rm.finishing \/ rm.session.state = "finished")
  <2> DEFINE s == SessionDisconnect(rm.session, side, 0)
             new == ReservedRoom(rm, side)
  <2>1. /\ new.session = s /\ new.away = rm.away \cup {side} /\ new.timer = TRUE
        /\ new.finishing = rm.finishing /\ new.ai = rm.ai /\ new.calls = rm.calls
        /\ new.ready = rm.ready /\ new.phase = "paused"
    BY <1>3 DEF ReservedRoom, Room
  <2>2. /\ s.disconnected = rm.session.disconnected \cup {side} /\ s.deadline # {}
        /\ s.ready = rm.session.ready /\ s.state = "reconnecting"
    BY <1>0, <1>3 DEF SessionDisconnect, Session
  <2> QED BY <1>1, <1>3, <2>1, <2>2 DEF RoomShape, Playing, Interrupted
<1> QED BY <1>2, <1>3

LEMMA RecoveredShape ==
  ASSUME NEW rm \in Room, RoomShape(rm), NEW side \in Sides, NEW c,
         SessionReconnects(rm.session, side, 0)
  PROVE  /\ RoomShape(RecoveredRoom(rm, side, c))
         /\ ~Playing(rm)
<1> DEFINE s == SessionReconnect(rm.session, side)
           new == RecoveredRoom(rm, side, c)
<1>0. rm.session \in Session /\ 0 \in Int /\ Interrupted(rm.session)
  BY DEF Room, SessionReconnects, Interrupted
<1>1. WellFormedSession(s)
  BY <1>0, SessionShape DEF RoomShape
<1>2. /\ new.session = s /\ new.away = rm.away \ {side}
      /\ new.timer = IF s.state # "reconnecting" THEN FALSE ELSE rm.timer
      /\ new.finishing = rm.finishing /\ new.ai = rm.ai /\ new.calls = rm.calls
      /\ new.ready = rm.ready
      /\ new.phase = IF s.state # "reconnecting" THEN s.state ELSE rm.phase
  BY DEF RecoveredRoom, Room
<1>3. s.disconnected = rm.session.disconnected \ {side} /\ s.ready = rm.session.ready
  BY <1>0 DEF SessionReconnect, Session
<1>4. rm.session.state = "reconnecting" /\ rm.phase = "paused" /\ ~rm.finishing /\ rm.calls = 0
  BY <1>0 DEF RoomShape, Interrupted
<1>5. CASE rm.session.disconnected \ {side} = {}
  <2>1. s.state = rm.session.resumeState /\ s.deadline = {}
    BY <1>0, <1>5 DEF SessionReconnect, Session
  <2>2. s.state # "reconnecting"
    BY <1>0, <2>1 DEF Session, ResumableStates
  <2> QED BY <1>1, <1>2, <1>3, <1>4, <2>1, <2>2 DEF RoomShape, Playing, Interrupted
<1>6. CASE rm.session.disconnected \ {side} # {}
  <2>1. s.state = "reconnecting" /\ s.deadline = rm.session.deadline
    BY <1>0, <1>6 DEF SessionReconnect, Session, Interrupted
  <2> QED BY <1>1, <1>2, <1>3, <1>4, <2>1 DEF RoomShape, Playing, Interrupted
<1> QED BY <1>5, <1>6

\* finalizeRoom on a room whose result was not asked for, the room as it is or
\* as expireReconnect leaves it.
LEMMA FinishedShape ==
  ASSUME NEW rm \in Room, RoomShape(rm), rm.calls = 0
  PROVE  LET over == [rm EXCEPT !.timer = FALSE, !.away = {},
                                !.session = SessionFinish(rm.session)]
         IN  RoomShape(FinishedRoom(rm)) /\ RoomShape(FinishedRoom(over))
<1> DEFINE s == SessionFinish(rm.session)
           over == [rm EXCEPT !.timer = FALSE, !.away = {}, !.session = s]
<1>0. rm.session \in Session /\ "left" \in Sides /\ 0 \in Int
  BY DEF Room, Sides
<1>1. s \in Session /\ WellFormedSession(s)
  BY <1>0, SessionTyped, SessionShape DEF RoomShape
<1>2. /\ s.state = "finished" /\ s.disconnected = {} /\ s.deadline = {}
      /\ s.ready = rm.session.ready
  BY <1>0 DEF SessionFinish, Session
<1>3. SessionFinish(s) = s
  BY <1>1, <1>2 DEF SessionFinish, Session
<1>4. /\ over.session = s /\ over.ready = rm.ready /\ over.ai = rm.ai /\ over.calls = 0
      /\ over \in Room
  BY <1>1 DEF Room
<1>5. ASSUME NEW x \in Room, x.session \in {rm.session, s}, x.calls = 0,
             x.ready = rm.ready, x.ai = rm.ai
      PROVE  RoomShape(FinishedRoom(x))
  <2>1. /\ FinishedRoom(x).session = s /\ FinishedRoom(x).away = {}
        /\ FinishedRoom(x).timer = FALSE /\ FinishedRoom(x).phase = "finished"
        /\ FinishedRoom(x).calls = 1 /\ FinishedRoom(x).ready = rm.ready
        /\ FinishedRoom(x).ai = rm.ai
    BY <1>3, <1>5 DEF FinishedRoom, Room
  <2> QED BY <1>1, <1>2, <2>1 DEF RoomShape, Interrupted
<1> HIDE DEF over, s
<1>6. RoomShape(FinishedRoom(rm)) /\ RoomShape(FinishedRoom(over))
  BY <1>4, <1>5
<1> QED BY <1>6 DEF over, s

LEMMA PausedShape ==
  ASSUME NEW rm \in Room, RoomShape(rm)
  PROVE  LET p == SessionPause(rm.session)
             q == SessionResume(rm.session)
         IN  /\ rm.phase = "playing" =>
                  /\ RoomShape([rm EXCEPT !.session = p,
                                          !.phase = IF p.state = "paused" THEN "paused"
                                                                          ELSE rm.phase])
                  /\ p.state # "playing"
             /\ q.state = "playing" => RoomShape([rm EXCEPT !.session = q, !.phase = "playing"])
<1> DEFINE p == SessionPause(rm.session)
           q == SessionResume(rm.session)
<1>0. rm.session \in Session /\ "left" \in Sides /\ 0 \in Int
  BY DEF Room, Sides
<1>1. WellFormedSession(p) /\ WellFormedSession(q)
  BY <1>0, SessionShape DEF RoomShape
<1>2. ASSUME rm.phase = "playing"
      PROVE  /\ RoomShape([rm EXCEPT !.session = p,
                                     !.phase = IF p.state = "paused" THEN "paused" ELSE rm.phase])
             /\ p.state # "playing"
  <2>1. rm.session.state = "playing"
    BY <1>2 DEF RoomShape
  <2>2. /\ p.state = "paused" /\ p.ready = rm.session.ready
        /\ p.disconnected = rm.session.disconnected /\ p.deadline = rm.session.deadline
    BY <1>0, <2>1 DEF SessionPause, Session
  <2> QED BY <1>1, <2>1, <2>2 DEF RoomShape, Room, Interrupted
<1>3. ASSUME q.state = "playing"
      PROVE  RoomShape([rm EXCEPT !.session = q, !.phase = "playing"])
  <2>1. /\ rm.session.state \in {"playing", "paused"} /\ q.ready = rm.session.ready
        /\ q.disconnected = rm.session.disconnected /\ q.deadline = rm.session.deadline
    BY <1>0, <1>3 DEF SessionResume, Session
  <2> QED BY <1>1, <1>3, <2>1 DEF RoomShape, Room, Interrupted
<1> QED BY <1>2, <1>3

\* The operations that leave the session's state alone.
LEMMA OtherShape ==
  ASSUME NEW rm \in Room, RoomShape(rm)
  PROVE  /\ RoomShape(RearmedRoom(rm)) /\ (Playing(RearmedRoom(rm)) <=> Playing(rm))
         /\ RoomShape(AgedRoom(rm)) /\ (Playing(AgedRoom(rm)) <=> Playing(rm))
         /\ \A side \in Sides, c \in Conns :
               /\ RoomShape([rm EXCEPT !.seats[side] = c])
               /\ Playing([rm EXCEPT !.seats[side] = c]) <=> Playing(rm)
         /\ RoomShape([rm EXCEPT !.finishing = FALSE])
         /\ rm.finishing => RoomShape([rm EXCEPT !.timer = FALSE])
<1>1. RoomShape(RearmedRoom(rm)) /\ (Playing(RearmedRoom(rm)) <=> Playing(rm))
  BY DEF RearmedRoom, RoomShape, Room, Playing
<1>2. RoomShape(AgedRoom(rm)) /\ (Playing(AgedRoom(rm)) <=> Playing(rm))
  <2> DEFINE D == {IF d < 0 THEN d ELSE d - 1 : d \in rm.session.deadline}
             s == [rm.session EXCEPT !.deadline = D]
  <2>1. rm.session \in Session
    BY DEF Room
  <2>2. (D = {} <=> rm.session.deadline = {}) /\ \A d, e \in D : d = e
    BY DEF RoomShape, WellFormedSession
  <2> HIDE DEF D
  <2>3. /\ s.state = rm.session.state /\ s.resumeState = rm.session.resumeState
        /\ s.ready = rm.session.ready /\ s.disconnected = rm.session.disconnected
        /\ s.deadline = D
    BY <2>1 DEF Session
  <2>4. WellFormedSession(s)
    BY <2>2, <2>3 DEF RoomShape, WellFormedSession, Interrupted, Underlying
  <2>5. AgedRoom(rm) = [rm EXCEPT !.session = s]
    BY DEF AgedRoom, D, Room
  <2> QED BY <2>2, <2>3, <2>4, <2>5 DEF RoomShape, Room, Playing, Interrupted
<1>3. ASSUME NEW side \in Sides, NEW c \in Conns
      PROVE  /\ RoomShape([rm EXCEPT !.seats[side] = c])
             /\ Playing([rm EXCEPT !.seats[side] = c]) <=> Playing(rm)
  BY DEF RoomShape, Room, Playing
<1>4. RoomShape([rm EXCEPT !.finishing = FALSE])
  BY DEF RoomShape, Room
<1>5. rm.finishing => RoomShape([rm EXCEPT !.timer = FALSE])
  BY DEF RoomShape, Room, WellFormedSession, Interrupted
<1> QED BY <1>1, <1>2, <1>3, <1>4, <1>5

\* A step that changes the record of one room and leaves this.rooms alone.
LEMMA OneRoomChanges ==
  ASSUME RoomTypes, RoomsInv, NEW r \in RoomIds, NEW rm, RoomShape(rm),
         rooms' = [rooms EXCEPT ![r] = rm], live' = live,
         scheduled' \subseteq scheduled \cup {r}, scheduled \subseteq scheduled' \cup {r},
         r \in scheduled' => r \in live,
         r \in live => (r \in scheduled' <=> Playing(rm))
  PROVE  RoomsInv'
<1>1. \A q \in RoomIds : RoomShape(rooms'[q])
  BY DEF RoomTypes, RoomsInv
<1>2. scheduled' \subseteq live'
  BY DEF RoomsInv
<1>3. ASSUME NEW q \in live' PROVE q \in scheduled' <=> Playing(rooms'[q])
  BY DEF RoomTypes, RoomsInv
<1> QED BY <1>1, <1>2, <1>3 DEF RoomsInv

LEMMA SameRooms == RoomsInv /\ UNCHANGED roomVars => RoomsInv'
  BY DEF RoomsInv, roomVars

LEMMA CreateRoomKeeps ==
  ASSUME RoomTypes, RoomsInv, NEW r \in RoomIds, NEW left, NEW right, NEW match,
         CreateRoom(r, left, right, match)
  PROVE  RoomsInv'
<1> DEFINE new == NewRoom(left, right, match)
<1>1. RoomShape(new) /\ ~Playing(new)
  BY NewRoomShape
<1>2. /\ r \notin live /\ live' = live \cup {r} /\ scheduled' = scheduled
      /\ rooms' = [rooms EXCEPT ![r] = new]
  BY DEF CreateRoom, FreeRoom
<1> HIDE DEF new
<1>3. \A q \in RoomIds : RoomShape(rooms'[q])
  BY <1>1, <1>2 DEF RoomTypes, RoomsInv
<1>4. \A q \in live' : q \in scheduled' <=> Playing(rooms'[q])
  BY <1>1, <1>2 DEF RoomTypes, RoomsInv
<1> QED BY <1>2, <1>3, <1>4 DEF RoomsInv

\* A room leaves this.rooms; its record stays only while finalizeMatch is
\* unanswered.
LEMMA RemoveRoomKeeps ==
  ASSUME RoomTypes, RoomsInv, NEW r \in RoomIds, NEW rm, rm.finishing => RoomShape(rm),
         RemoveRoom(r, rm)
  PROVE  RoomsInv'
<1>1. /\ live' = live \ {r} /\ scheduled' = scheduled \ {r}
      /\ rooms' = [rooms EXCEPT ![r] = IF rm.finishing THEN rm ELSE UnusedRoom]
  BY DEF RemoveRoom
<1>2. \A q \in RoomIds : RoomShape(rooms'[q])
  BY <1>1, UnusedRoomShape DEF RoomTypes, RoomsInv
<1>3. \A q \in live' : q \in scheduled' <=> Playing(rooms'[q])
  BY <1>1 DEF RoomTypes, RoomsInv
<1> QED BY <1>1, <1>2, <1>3 DEF RoomsInv

LEMMA FinishRoomKeeps ==
  ASSUME RoomTypes, RoomsInv, NEW r \in RoomIds, r \in live,
         NEW rm \in Room, RoomShape(FinishedRoom(rm)), FinishRoom(r, rm)
  PROVE  RoomsInv'
<1>1. CASE rm.guest
  <2> DEFINE gone == [FinishedRoom(rm) EXCEPT !.finishing = FALSE]
  <2>1. FinishedRoom(rm) \in Room
    BY RoomOpsTyped
  <2>2. gone.finishing = FALSE
    BY <2>1 DEF Room
  <2>3. RemoveRoom(r, gone)
    BY <1>1 DEF FinishRoom
  <2> HIDE DEF gone
  <2> QED BY <2>2, <2>3, RemoveRoomKeeps
<1>2. CASE ~rm.guest
  <2>1. FinishedRoom(rm).session.state = "finished"
    BY DEF FinishedRoom, SessionFinish, Room, Session
  <2>2. ~Playing(FinishedRoom(rm))
    BY <2>1 DEF Playing
  <2>3. /\ rooms' = [rooms EXCEPT ![r] = FinishedRoom(rm)] /\ live' = live
        /\ scheduled' = scheduled \ {r}
    BY <1>2 DEF FinishRoom
  <2> QED BY <2>2, <2>3, OneRoomChanges
<1> QED BY <1>1, <1>2

LEMMA ConnectionStepsKeepRooms ==
  ASSUME TypeInv, RoomsInv, NEW c \in Conns,
         Connecting(c) \/ SocketCloses(c) \/ Disconnect(c)
  PROVE  RoomsInv'
<1>0. RoomTypes /\ \A r \in RoomIds : rooms[r] \in Room /\ RoomShape(rooms[r])
  BY DEF TypeInv, RoomTypes, RoomsInv
<1>1. CASE ConnectReplacing(c)
  <2>1. CASE UNCHANGED rooms
    BY <1>1, <2>1, SameRooms DEF ConnectReplacing, roomVars
  <2>2. ASSUME NEW r \in RoomIds, NEW side \in Sides, r \in live,
               rooms' = [rooms EXCEPT ![r].seats[side] = c]
        PROVE  RoomsInv'
    <3> DEFINE new == [rooms[r] EXCEPT !.seats[side] = c]
    <3>1. RoomShape(new) /\ (Playing(new) <=> Playing(rooms[r]))
      BY <1>0, OtherShape
    <3>2. rooms' = [rooms EXCEPT ![r] = new]
      BY <2>2
    <3>3. live' = live /\ scheduled' = scheduled
      BY <1>1 DEF ConnectReplacing
    <3>4. r \in scheduled' <=> Playing(new)
      BY <2>2, <3>1, <3>3 DEF RoomsInv
    <3> HIDE DEF new
    <3> QED BY <1>0, <2>2, <3>1, <3>2, <3>3, <3>4, OneRoomChanges
  <2> QED BY <1>1, <2>1, <2>2 DEF ConnectReplacing, Holds
<1>2. CASE ConnectRecovering(c)
  <2>1. PICK r \in RoomIds, side \in Sides :
           LET rm == RecoveredRoom(rooms[r], side, c)
           IN  /\ Recoverable(UserOf[c], r, side)
               /\ rooms' = [rooms EXCEPT ![r] = rm]
               /\ scheduled' = IF Playing(rm) THEN scheduled \cup {r} ELSE scheduled
    BY <1>2 DEF ConnectRecovering
  <2> DEFINE rm == RecoveredRoom(rooms[r], side, c)
  <2>2. r \in live /\ SessionReconnects(rooms[r].session, side, 0)
    BY <2>1 DEF Recoverable
  <2>3. RoomShape(rm) /\ ~Playing(rooms[r])
    BY <1>0, <2>2, RecoveredShape
  <2>4. r \notin scheduled
    BY <2>2, <2>3 DEF RoomsInv
  <2>5. live' = live
    BY <1>2 DEF ConnectRecovering
  <2> HIDE DEF rm
  <2>6. rooms' = [rooms EXCEPT ![r] = rm]
    BY <2>1 DEF rm
  <2>7. scheduled' = IF Playing(rm) THEN scheduled \cup {r} ELSE scheduled
    BY <2>1 DEF rm
  <2> QED BY <1>0, <2>2, <2>3, <2>4, <2>5, <2>6, <2>7, OneRoomChanges
<1>3. CASE ConnectFresh(c) \/ SocketCloses(c)
  BY <1>3, SameRooms DEF ConnectFresh, SocketCloses
<1>4. CASE Disconnect(c)
  <2>1. CASE UNCHANGED <<rooms, scheduled>>
    BY <1>4, <2>1, SameRooms DEF Disconnect, roomVars
  <2>2. ASSUME NEW r \in RoomIds, NEW side \in Sides, r \in live,
               rooms' = [rooms EXCEPT ![r] = ReservedRoom(rooms[r], side)],
               scheduled' = IF ReservedRoom(rooms[r], side) = rooms[r]
                            THEN scheduled ELSE scheduled \ {r}
        PROVE  RoomsInv'
    <3> DEFINE rm == ReservedRoom(rooms[r], side)
    <3>1. RoomShape(rm) /\ (rm = rooms[r] \/ ~Playing(rm))
      BY <1>0, ReservedShape
    <3>2. r \in scheduled' <=> Playing(rm)
      BY <2>2, <3>1 DEF RoomsInv
    <3>3. live' = live
      BY <1>4 DEF Disconnect
    <3> QED BY <1>0, <2>2, <3>1, <3>2, <3>3, OneRoomChanges
  <2> QED BY <1>4, <2>1, <2>2 DEF Disconnect, Holds
<1> QED BY <1>1, <1>2, <1>3, <1>4 DEF Connecting

LEMMA PlayStepsKeepRooms ==
  ASSUME TypeInv, RoomsInv, NEW r \in RoomIds,
         (\E c \in Conns : Ready(c, r) \/ Pause(c, r) \/ Resume(c, r)) \/ RoomStep(r)
  PROVE  RoomsInv'
<1>0. /\ RoomTypes /\ rooms[r] \in Room /\ RoomShape(rooms[r])
      /\ r \in live => (r \in scheduled <=> Playing(rooms[r]))
      /\ rooms[r].session \in Session /\ rooms[r].calls \in Nat
  BY DEF TypeInv, RoomTypes, RoomsInv, Room
<1>1. ASSUME NEW c \in Conns, Ready(c, r) PROVE RoomsInv'
  <2>1. PICK side \in Sides :
           LET rm == ReadyRoom(rooms[r], side)
           IN  /\ rooms' = [rooms EXCEPT ![r] = rm]
               /\ scheduled' = IF rm.ready = Sides /\ Playing(rm)
                               THEN scheduled \cup {r} ELSE scheduled
    BY <1>1 DEF Ready, SidesOf
  <2> DEFINE rm == ReadyRoom(rooms[r], side)
  <2>2. /\ RoomShape(rm)
        /\ Playing(rm) => Playing(rooms[r]) \/ rm.ready = Sides
        /\ Playing(rooms[r]) => Playing(rm)
    BY <1>0, ReadyShape
  <2>3. r \in live /\ live' = live
    BY <1>1 DEF Ready
  <2> HIDE DEF rm
  <2>4. /\ rooms' = [rooms EXCEPT ![r] = rm]
        /\ scheduled' = IF rm.ready = Sides /\ Playing(rm) THEN scheduled \cup {r} ELSE scheduled
    BY <2>1 DEF rm
  <2> QED BY <1>0, <2>2, <2>3, <2>4, OneRoomChanges
<1>2. ASSUME NEW c \in Conns, Pause(c, r) PROVE RoomsInv'
  <2> DEFINE s == SessionPause(rooms[r].session)
             p == IF s.state = "paused" THEN "paused" ELSE rooms[r].phase
             rm == [rooms[r] EXCEPT !.session = s, !.phase = p]
  <2>1. rooms[r].phase = "playing" /\ live' = live /\ scheduled' = scheduled \ {r}
    BY <1>2 DEF Pause
  <2>2. RoomShape(rm) /\ s.state # "playing"
    BY <1>0, <2>1, PausedShape
  <2>3. rm.session = s
    BY <1>0 DEF Room
  <2>4. ~Playing(rm)
    BY <2>2, <2>3 DEF Playing
  <2>5. rooms' = [rooms EXCEPT ![r] = rm]
    BY <1>0, <1>2 DEF Pause, RoomTypes
  <2> HIDE DEF rm
  <2> QED BY <1>0, <2>1, <2>2, <2>4, <2>5, OneRoomChanges
<1>3. ASSUME NEW c \in Conns, Resume(c, r) PROVE RoomsInv'
  <2> DEFINE s == SessionResume(rooms[r].session)
             rm == [rooms[r] EXCEPT !.session = s, !.phase = "playing"]
  <2>1. s.state = "playing" /\ r \in live /\ live' = live /\ scheduled' = scheduled \cup {r}
    BY <1>3 DEF Resume
  <2>2. RoomShape(rm)
    BY <1>0, <2>1, PausedShape
  <2>3. rm.session = s
    BY <1>0 DEF Room
  <2>4. Playing(rm)
    BY <2>1, <2>3 DEF Playing
  <2>5. rooms' = [rooms EXCEPT ![r] = rm]
    BY <1>0, <1>3 DEF Resume, RoomTypes
  <2> HIDE DEF rm
  <2> QED BY <1>0, <2>1, <2>2, <2>4, <2>5, OneRoomChanges
<1>4. CASE GameEnds(r)
  <2>1. r \in live /\ rooms[r].phase = "playing" /\ FinishRoom(r, rooms[r])
    BY <1>4 DEF GameEnds, RoomsInv
  <2>2. rooms[r].calls = 0
    BY <1>0, <2>1 DEF RoomShape
  <2>3. RoomShape(FinishedRoom(rooms[r]))
    BY <1>0, <2>2, FinishedShape
  <2> QED BY <1>0, <2>1, <2>3, FinishRoomKeeps
<1>5. CASE ReconnectTimer(r)
  <2> DEFINE over == [rooms[r] EXCEPT !.timer = FALSE, !.away = {},
                                      !.session = SessionFinish(rooms[r].session)]
  <2>1. r \in live /\ ~rooms[r].finishing
    BY <1>5 DEF ReconnectTimer
  <2>2. over \in Room /\ over.finishing = rooms[r].finishing
    <3>1. over \in Room
      BY <1>0, RoomOpsTyped
    <3>2. over.finishing = rooms[r].finishing
      BY <1>0 DEF Room
    <3> QED BY <3>1, <3>2
  <2>3. CASE SessionExpires(rooms[r].session, 0)
    <3>1. rooms[r].calls = 0
      BY <1>0, <2>3 DEF RoomShape, SessionExpires
    <3>2. RoomShape(FinishedRoom(over))
      BY <1>0, <3>1, FinishedShape
    <3>3. RemoveRoom(r, over) \/ FinishRoom(r, over)
      BY <1>5, <2>3 DEF ReconnectTimer
    <3> HIDE DEF over
    <3> QED BY <1>0, <2>1, <2>2, <3>2, <3>3, RemoveRoomKeeps, FinishRoomKeeps
  <2>4. CASE ~SessionExpires(rooms[r].session, 0)
    <3> DEFINE rm == RearmedRoom(rooms[r])
    <3>1. rooms' = [rooms EXCEPT ![r] = rm] /\ live' = live /\ scheduled' = scheduled
      BY <1>5, <2>4 DEF ReconnectTimer
    <3>2. RoomShape(rm) /\ (Playing(rm) <=> Playing(rooms[r]))
      BY <1>0, OtherShape
    <3> HIDE DEF rm
    <3> QED BY <1>0, <2>1, <3>1, <3>2, OneRoomChanges
  <2> QED BY <2>3, <2>4
<1>6. CASE FinalizeSucceeds(r)
  <2> DEFINE rm == [rooms[r] EXCEPT !.finishing = FALSE]
  <2>1. RemoveRoom(r, rm) /\ rm.finishing = FALSE
    BY <1>0, <1>6 DEF FinalizeSucceeds, Room
  <2> HIDE DEF rm
  <2> QED BY <1>0, <2>1, RemoveRoomKeeps
<1>7. CASE FinalizeFails(r)
  <2> DEFINE rm == [rooms[r] EXCEPT !.finishing = FALSE]
  <2>1. rooms' = [rooms EXCEPT ![r] = rm] /\ live' = live /\ scheduled' = scheduled
    BY <1>7 DEF FinalizeFails
  <2>2. RoomShape(rm) /\ rm.session = rooms[r].session
    BY <1>0, OtherShape DEF Room
  <2>3. Playing(rm) <=> Playing(rooms[r])
    BY <2>2 DEF Playing
  <2>4. r \in scheduled => r \in live
    BY DEF RoomsInv
  <2> HIDE DEF rm
  <2> QED BY <1>0, <2>1, <2>2, <2>3, <2>4, OneRoomChanges
<1> QED BY <1>1, <1>2, <1>3, <1>4, <1>5, <1>6, <1>7 DEF RoomStep

LEMMA HubStepsKeepRooms ==
  ASSUME TypeInv, RoomsInv,
         TournamentStep \/ BeginDrain \/ DrainTimesOut \/ Close \/ Tick
  PROVE  RoomsInv'
<1>0. RoomTypes /\ \A r \in RoomIds : rooms[r] \in Room /\ RoomShape(rooms[r])
  BY DEF TypeInv, RoomTypes, RoomsInv
<1>1. ASSUME NEW j \in joins, TournamentRead(j) \/ TournamentSeats(j) PROVE RoomsInv'
  <2>1. CASE UNCHANGED roomVars
    BY <2>1, SameRooms
  <2>2. ASSUME NEW r \in RoomIds, NEW left, NEW right, NEW match,
               CreateRoom(r, left, right, match)
        PROVE  RoomsInv'
    BY <1>0, <2>2, CreateRoomKeeps
  <2> QED BY <1>1, <2>1, <2>2 DEF TournamentRead, TournamentSeats, WaitingOpponents, CreateRoomFails
<1>2. ASSUME NEW s \in starts, StartSucceeds(s) PROVE RoomsInv'
  BY <1>2, SameRooms DEF StartSucceeds
<1>3. ASSUME NEW s \in starts, StartFails(s) PROVE RoomsInv'
  <2> DEFINE rm == [rooms[s.room] EXCEPT !.timer = FALSE]
  <2>1. CASE s.room \in live
    <3>1. s.room \in RoomIds
      BY <1>0, <2>1 DEF RoomTypes
    <3>2. rm.finishing => RoomShape(rm)
      BY <1>0, <3>1, OtherShape DEF Room
    <3>3. RemoveRoom(s.room, rm)
      BY <1>3, <2>1 DEF StartFails
    <3> HIDE DEF rm
    <3> QED BY <1>0, <3>1, <3>2, <3>3, RemoveRoomKeeps
  <2>2. CASE s.room \notin live
    BY <1>3, <2>2, SameRooms DEF StartFails
  <2> QED BY <2>1, <2>2
<1>4. CASE BeginDrain \/ DrainTimesOut
  BY <1>4, SameRooms DEF BeginDrain, DrainTimesOut
<1>5. CASE Close
  <2>1. /\ live' = {} /\ scheduled' = {}
        /\ rooms' = [r \in RoomIds |-> IF rooms[r].finishing
                                       THEN [rooms[r] EXCEPT !.timer = FALSE] ELSE UnusedRoom]
    BY <1>5 DEF Close
  <2>2. \A r \in RoomIds : RoomShape(rooms'[r])
    BY <1>0, <2>1, OtherShape, UnusedRoomShape
  <2> QED BY <2>1, <2>2 DEF RoomsInv
<1>6. CASE Tick
  <2>1. live' = live /\ scheduled' = scheduled /\ rooms' = [r \in RoomIds |-> AgedRoom(rooms[r])]
    BY <1>6 DEF Tick
  <2>2. \A r \in RoomIds : RoomShape(rooms'[r]) /\ (Playing(rooms'[r]) <=> Playing(rooms[r]))
    BY <1>0, <2>1, OtherShape
  <2> QED BY <1>0, <2>1, <2>2 DEF RoomsInv, RoomTypes
<1> QED BY <1>1, <1>2, <1>3, <1>4, <1>5, <1>6 DEF TournamentStep

\* A step of the hub keeps the shape of every room.
LEMMA RoomsStep ==
  TypeInv /\ RoomsInv /\ [Next]_vars => RoomsInv'
<1> SUFFICES ASSUME TypeInv, RoomsInv, [Next]_vars PROVE RoomsInv'
  OBVIOUS
<1>0. RoomTypes
  BY DEF TypeInv
<1>1. ASSUME NEW r \in RoomIds, NEW left, NEW right, NEW match,
             CreateRoom(r, left, right, match)
      PROVE  RoomsInv'
  BY <1>0, <1>1, CreateRoomKeeps
<1>2. CASE UNCHANGED roomVars
  BY <1>2, SameRooms
<1>3. ASSUME NEW c \in Conns, ClientStep(c) PROVE RoomsInv'
  <2>1. CASE \/ QueueJoinWaits(c) \/ QueueJoinMatches(c) \/ QueueJoinAi(c) \/ QueueLeave(c)
             \/ \E m \in TMatches : TournamentJoin(c, m)
    BY <1>1, <1>2, <2>1 DEF QueueJoinWaits, QueueJoinMatches, QueueJoinAi, QueueLeave,
                            TournamentJoin, CreateRoomFails
  <2> QED BY <1>3, <2>1, ConnectionStepsKeepRooms, PlayStepsKeepRooms DEF ClientStep
<1>4. ASSUME NEW u \in Users, QueueStep(u) PROVE RoomsInv'
  BY <1>1, <1>2, <1>4 DEF QueueStep, FallbackDrops, FallbackAsksNpc, FallbackGuestRoom,
                          NpcFound, NpcMissing, StaleLookupReturns, CreateRoomFails
<1>5. ASSUME NEW r \in RoomIds, RoomStep(r) PROVE RoomsInv'
  BY <1>5, PlayStepsKeepRooms
<1>6. CASE TournamentStep \/ BeginDrain \/ DrainTimesOut \/ Close \/ Tick
  BY <1>6, HubStepsKeepRooms
<1>7. CASE UNCHANGED vars
  BY <1>2, <1>7 DEF vars
<1> QED BY <1>3, <1>4, <1>5, <1>6, <1>7 DEF Next

LEMMA RoomsInvKept == Spec => []RoomsInv
<1>1. Init => RoomsInv
  BY UnusedRoomShape DEF Init, RoomsInv
<1> QED BY <1>1, RoomsStep, TypesKept, PTL DEF Spec

\* The copies of the room state next to the session (disconnectedUsers,
\* reconnectTimer, the scheduler, the phase) follow it through every handler.
THEOREM MirrorsFollow == Spec => []RoomMirrorsSession
<1>1. RoomTypes /\ RoomsInv => RoomMirrorsSession
  BY DEF RoomTypes, RoomsInv, RoomShape, RoomMirrorsSession
<1>2. TypeInv => RoomTypes
  BY DEF TypeInv
<1> QED BY <1>1, <1>2, TypesKept, RoomsInvKept, PTL

\* finalizeMatch is called at most once for a room, on whichever path it ends.
THEOREM ResultsOnce == Spec => []FinalizedOnce
<1>1. RoomsInv => FinalizedOnce
  BY DEF RoomsInv, RoomShape, FinalizedOnce
<1> QED BY <1>1, RoomsInvKept, PTL

-----------------------------------------------------------------------------
(* Games that are over *)

\* A game that is over stays over while its room is kept, for as long as the
\* database takes and also when it refuses the result and the players keep
\* sending commands: it is neither resumed nor given to the scheduler again.
StaysOver(r) ==
    r \in live /\ rooms[r].session.state = "finished" =>
        rooms'[r].session.state = "finished" /\ r \notin scheduled'
GamesStayOver == [][\A r \in RoomIds : StaysOver(r)]_vars

\* The session of a room is over after the step if it was before.
OverKept(r) == rooms[r].session.state = "finished" => rooms'[r].session.state = "finished"

LEMMA SessionStaysOver ==
  ASSUME NEW s \in Session, s.state = "finished", NEW side \in Sides
  PROVE  /\ SessionMarkReady(s, side) = s /\ SessionPause(s) = s /\ SessionResume(s) = s
         /\ SessionDisconnect(s, side, 0) = s /\ ~SessionReconnects(s, side, 0)
         /\ SessionFinish(s).state = "finished"
  BY DEF SessionMarkReady, SessionPause, SessionResume, SessionDisconnect,
         SessionReconnects, SessionFinish, Session

LEMMA EndsOver ==
  ASSUME RoomTypes, NEW r \in RoomIds, NEW rm \in Room, NEW q \in RoomIds,
         rm.session.state = "finished" \/ FinishRoom(r, rm) \/ rm.session = rooms[r].session,
         RemoveRoom(r, rm) \/ FinishRoom(r, rm)
  PROVE  OverKept(q)
<1>1. UnusedRoom.session.state = "finished"
  BY NewSessionFacts DEF UnusedRoom, SessionFinish, Session
<1>2. FinishedRoom(rm).session.state = "finished"
  BY DEF FinishedRoom, SessionFinish, Room, Session
<1>3. [FinishedRoom(rm) EXCEPT !.finishing = FALSE].session.state = "finished"
  <2>1. FinishedRoom(rm) \in Room
    BY RoomOpsTyped
  <2> QED BY <1>2, <2>1 DEF Room
<1>4. ASSUME NEW room, RemoveRoom(r, room),
             room.session.state = "finished" \/ room.session = rooms[r].session
      PROVE  OverKept(q)
  BY <1>1, <1>4 DEF RemoveRoom, OverKept, RoomTypes
<1>5. CASE FinishRoom(r, rm)
  <2>1. CASE rm.guest
    BY <1>3, <1>4, <1>5, <2>1 DEF FinishRoom
  <2>2. CASE ~rm.guest
    BY <1>2, <1>5, <2>2 DEF FinishRoom, OverKept, RoomTypes
  <2> QED BY <2>1, <2>2
<1> QED BY <1>4, <1>5

LEMMA ClientStepsOver ==
  ASSUME RoomTypes, NEW c \in Conns, ClientStep(c), NEW q \in live
  PROVE  OverKept(q)
<1>0. /\ q \in RoomIds /\ rooms[q] \in Room /\ rooms[q].session \in Session
      /\ \A r, left, right, match : CreateRoom(r, left, right, match) => r # q
  BY DEF RoomTypes, Room, CreateRoom, FreeRoom
<1> SUFFICES ASSUME rooms[q].session.state = "finished"
             PROVE  rooms'[q].session.state = "finished"
  BY DEF OverKept
<1>1. CASE UNCHANGED rooms \/ \E r, left, right, match : CreateRoom(r, left, right, match)
  BY <1>0, <1>1 DEF CreateRoom, RoomTypes
<1>2. CASE ConnectReplacing(c)
  <2>1. \/ \E r \in RoomIds, side \in Sides : rooms' = [rooms EXCEPT ![r].seats[side] = c]
        \/ UNCHANGED rooms
    BY <1>2 DEF ConnectReplacing
  <2>2. ASSUME NEW r \in RoomIds, NEW side \in Sides,
               rooms' = [rooms EXCEPT ![r].seats[side] = c]
        PROVE  rooms'[q].session = rooms[q].session
    <3>1. CASE r = q
      BY <1>0, <2>2, <3>1 DEF RoomTypes, Room
    <3>2. CASE r # q
      BY <1>0, <2>2, <3>2 DEF RoomTypes
    <3> QED BY <3>1, <3>2
  <2> QED BY <2>1, <2>2
<1>3. CASE ConnectRecovering(c)
  <2>1. PICK r \in RoomIds, side \in Sides :
           /\ Recoverable(UserOf[c], r, side)
           /\ rooms' = [rooms EXCEPT ![r] = RecoveredRoom(rooms[r], side, c)]
    BY <1>3 DEF ConnectRecovering
  <2>2. r # q
    BY <1>0, <2>1, SessionStaysOver DEF Recoverable
  <2> QED BY <1>0, <2>1, <2>2 DEF RoomTypes
<1>4. CASE Disconnect(c)
  <2>1. \A side \in Sides : ReservedRoom(rooms[q], side) = rooms[q]
    BY DEF ReservedRoom
  <2>2. ASSUME NEW r \in RoomIds, NEW side \in Sides,
               rooms' = [rooms EXCEPT ![r] = ReservedRoom(rooms[r], side)]
        PROVE  rooms'[q] = rooms[q]
    BY <1>0, <2>1, <2>2 DEF RoomTypes
  <2> QED BY <1>1, <1>4, <2>2 DEF Disconnect
<1>5. ASSUME NEW r \in RoomIds, Ready(c, r) \/ Pause(c, r) \/ Resume(c, r)
      PROVE  rooms'[q].session.state = "finished"
  <2>1. CASE Ready(c, r)
    <3>1. \A side \in Sides : ReadyRoom(rooms[q], side).session = rooms[q].session
      BY <1>0, SessionStaysOver DEF ReadyRoom, Room
    <3>2. PICK side \in Sides : rooms' = [rooms EXCEPT ![r] = ReadyRoom(rooms[r], side)]
      BY <2>1 DEF Ready, SidesOf
    <3> QED BY <1>0, <3>1, <3>2 DEF RoomTypes
  <2>2. ASSUME NEW s, NEW p, rooms' = [rooms EXCEPT ![r].session = s, ![r].phase = p],
               r = q => s = rooms[q].session
        PROVE  rooms'[q].session = rooms[q].session
    BY <1>0, <2>2 DEF RoomTypes, Room
  <2>3. CASE Pause(c, r)
    BY <1>0, <2>2, <2>3, SessionStaysOver DEF Pause, Sides
  <2>4. CASE Resume(c, r)
    BY <1>0, <2>2, <2>4, SessionStaysOver DEF Resume, Sides
  <2> QED BY <1>5, <2>1, <2>3, <2>4
<1> QED BY <1>1, <1>2, <1>3, <1>4, <1>5
         DEF ClientStep, Connecting, ConnectFresh, SocketCloses, QueueJoinWaits,
             QueueJoinMatches, QueueJoinAi, QueueLeave, TournamentJoin, CreateRoomFails,
             roomVars

LEMMA RoomStepsOver ==
  ASSUME RoomTypes, NEW r \in RoomIds, RoomStep(r), NEW q \in live
  PROVE  OverKept(q)
<1> DEFINE over == [rooms[r] EXCEPT !.timer = FALSE, !.away = {}, !.session = SessionFinish(@)]
           stored == [rooms[r] EXCEPT !.finishing = FALSE]
<1>0. /\ q \in RoomIds /\ rooms[r] \in Room /\ rooms[q] \in Room
      /\ over \in Room /\ over.session.state = "finished"
      /\ stored \in Room /\ stored.session = rooms[r].session
  <2>1. q \in RoomIds /\ rooms[r] \in Room /\ rooms[q] \in Room
    BY DEF RoomTypes
  <2>2. rooms[r].session \in Session
    BY <2>1 DEF Room
  <2>3. SessionFinish(rooms[r].session) \in Session
    BY <2>2, SessionTyped DEF Sides
  <2>4. SessionFinish(rooms[r].session).state = "finished"
    BY <2>2 DEF SessionFinish, Session
  <2> QED BY <2>1, <2>3, <2>4 DEF Room
<1> HIDE DEF over, stored
<1>1. CASE GameEnds(r)
  BY <1>0, <1>1, EndsOver DEF GameEnds
<1>2. CASE ReconnectTimer(r)
  <2>1. CASE RemoveRoom(r, over) \/ FinishRoom(r, over)
    BY <1>0, <2>1, EndsOver
  <2>2. CASE rooms' = [rooms EXCEPT ![r] = RearmedRoom(rooms[r])]
    BY <1>0, <2>2 DEF RearmedRoom, OverKept, RoomTypes, Room
  <2> QED BY <1>2, <2>1, <2>2 DEF ReconnectTimer, over
<1>3. CASE FinalizeSucceeds(r)
  BY <1>0, <1>3, EndsOver DEF FinalizeSucceeds, stored
<1>4. CASE FinalizeFails(r)
  BY <1>0, <1>4 DEF FinalizeFails, OverKept, RoomTypes, Room
<1> QED BY <1>1, <1>2, <1>3, <1>4 DEF RoomStep

LEMMA OtherStepsOver ==
  ASSUME RoomTypes, NEW q \in live,
         (\E u \in Users : QueueStep(u)) \/ TournamentStep \/ BeginDrain \/ DrainTimesOut
            \/ Close \/ Tick \/ UNCHANGED vars
  PROVE  OverKept(q)
<1>0. /\ q \in RoomIds /\ rooms[q] \in Room
      /\ \A r, left, right, match : CreateRoom(r, left, right, match) => r # q
  BY DEF RoomTypes, CreateRoom, FreeRoom
<1>1. CASE UNCHANGED rooms \/ \E r, left, right, match : CreateRoom(r, left, right, match)
  BY <1>0, <1>1 DEF CreateRoom, RoomTypes, OverKept
<1>2. ASSUME NEW u \in Users, QueueStep(u) PROVE OverKept(q)
  BY <1>1, <1>2
     DEF QueueStep, FallbackDrops, FallbackAsksNpc, FallbackGuestRoom, NpcFound, NpcMissing,
         StaleLookupReturns, CreateRoomFails, roomVars
<1>3. ASSUME NEW j \in joins, TournamentRead(j) \/ TournamentSeats(j) PROVE OverKept(q)
  BY <1>1, <1>3 DEF TournamentRead, TournamentSeats, CreateRoomFails, roomVars
<1>4. ASSUME NEW s \in starts, StartSucceeds(s) \/ StartFails(s) PROVE OverKept(q)
  <2>1. CASE UNCHANGED roomVars
    BY <1>1, <2>1 DEF roomVars
  <2>2. CASE s.room \in live /\ RemoveRoom(s.room, [rooms[s.room] EXCEPT !.timer = FALSE])
    <3> DEFINE rm == [rooms[s.room] EXCEPT !.timer = FALSE]
    <3>0. s.room \in RoomIds /\ rooms[s.room] \in Room
      BY <2>2 DEF RoomTypes
    <3>1. /\ s.room \in RoomIds /\ rm \in Room /\ rm.session = rooms[s.room].session
      BY <3>0 DEF Room
    <3> HIDE DEF rm
    <3>2. RemoveRoom(s.room, rm)
      BY <2>2 DEF rm
    <3> QED BY <1>0, <3>1, <3>2, EndsOver
  <2> QED BY <1>4, <2>1, <2>2 DEF StartSucceeds, StartFails
<1>5. CASE BeginDrain \/ DrainTimesOut \/ UNCHANGED vars
  BY <1>1, <1>5 DEF BeginDrain, DrainTimesOut, vars, roomVars
<1>6. CASE Close
  <2>1. UnusedRoom.session.state = "finished"
    BY NewSessionFacts DEF UnusedRoom, SessionFinish, Session
  <2> QED BY <1>0, <1>6, <2>1 DEF Close, OverKept, Room
<1>7. CASE Tick
  BY <1>0, <1>7 DEF Tick, AgedRoom, OverKept, Room, Session
<1> QED BY <1>2, <1>3, <1>4, <1>5, <1>6, <1>7 DEF TournamentStep

\* Whatever the players send after the end of a game, and whatever the database
\* answers, the game does not go on.
THEOREM OverIsOver == Spec => GamesStayOver
<1>1. TypeInv /\ RoomsInv /\ [Next]_vars /\ RoomsInv' => [\A r \in RoomIds : StaysOver(r)]_vars
  <2> SUFFICES ASSUME TypeInv, RoomsInv', [Next]_vars, NEW q \in RoomIds, q \in live,
                      rooms[q].session.state = "finished"
               PROVE  rooms'[q].session.state = "finished" /\ q \notin scheduled'
    BY DEF StaysOver
  <2>1. RoomTypes
    BY DEF TypeInv
  <2>2. OverKept(q)
    BY <2>1, ClientStepsOver, RoomStepsOver, OtherStepsOver DEF Next
  <2>3. rooms'[q].session.state = "finished"
    BY <2>2 DEF OverKept
  <2>4. q \notin scheduled'
    BY <2>3 DEF RoomsInv, Playing
  <2> QED BY <2>3, <2>4
<1>2. Spec => [][\A r \in RoomIds : StaysOver(r)]_vars
  BY <1>1, RoomsInvKept, TypesKept, PTL DEF Spec
<1> QED BY <1>2 DEF GamesStayOver

-----------------------------------------------------------------------------
(* Tournament matches *)

\* A match that is over is never marked as running again.
THEOREM StatusForward == Spec => TournamentStatusForward
<1> DEFINE Forward == {<<t, t>> : t \in {"ready", "running", "finished"}}
                         \cup {<<"ready", "running">>, <<"ready", "finished">>,
                               <<"running", "finished">>}
           Step == \A m \in TMatches : <<tstatus[m], tstatus'[m]>> \in Forward
<1>1. TypeInv /\ [Next]_vars => [Step]_vars
  <2> SUFFICES ASSUME TypeInv, Next PROVE Step
    OBVIOUS
  <2>0. tstatus \in [TMatches -> {"ready", "running", "finished"}]
    BY DEF TypeInv, StatusTypes
  <2>1. CASE UNCHANGED tstatus
    BY <2>0, <2>1
  <2>2. ASSUME NEW m \in TMatches, MarkRunning(m) PROVE Step
    BY <2>0, <2>2 DEF MarkRunning
  <2>3. ASSUME NEW m \in TMatches \cup {NoMatch}, Decide(m) PROVE Step
    BY <2>0, <2>3 DEF Decide
  <2>4. ASSUME NEW c \in Conns, ClientStep(c) PROVE UNCHANGED tstatus
    BY <2>4 DEF ClientStep, Connecting, ConnectReplacing, ConnectRecovering, ConnectFresh,
                SocketCloses, Disconnect, QueueJoinWaits, QueueJoinMatches, QueueJoinAi,
                QueueLeave, TournamentJoin, Ready, Pause, Resume, tourVars
  <2>5. ASSUME NEW u \in Users, QueueStep(u) PROVE UNCHANGED tstatus
    BY <2>5 DEF QueueStep, FallbackDrops, FallbackAsksNpc, FallbackGuestRoom, NpcFound,
                NpcMissing, StaleLookupReturns, tourVars
  <2>6. ASSUME NEW r \in RoomIds, RoomStep(r) PROVE Step
    <3>1. rooms[r].tournament \in TMatches \cup {NoMatch}
      BY DEF TypeInv, RoomTypes, Room
    <3> QED BY <2>1, <2>3, <2>6, <3>1
            DEF RoomStep, GameEnds, ReconnectTimer, FinalizeSucceeds, FinalizeFails, tourVars
  <2>7. CASE TournamentStep
    <3>1. \A s \in starts : s.match \in TMatches
      BY DEF TypeInv, JoinTypes
    <3> QED BY <2>1, <2>2, <2>7, <3>1
            DEF TournamentStep, TournamentRead, TournamentSeats, StartSucceeds, StartFails
  <2>8. CASE BeginDrain \/ DrainTimesOut \/ Close \/ Tick
    BY <2>1, <2>8 DEF BeginDrain, DrainTimesOut, Close, Tick, tourVars
  <2> QED BY <2>1, <2>4, <2>5, <2>6, <2>7, <2>8 DEF Next
<1> QED BY <1>1, TypesKept, PTL DEF Spec, TournamentStatusForward

\* Nobody waits for an opponent who waits too.  The waiting connection is one
\* of a player of the match, so that the other player always finds it.
WaitersInv ==
    \A m \in TMatches :
        /\ \A c \in waiters[m] : \E side \in Sides : UserOf[c] = TPlayers[m][side]
        /\ \A c, d \in waiters[m] : c = d

THEOREM NobodyWaitsTwice == Spec => []OneWaiterPerMatch
<1>1. Init => WaitersInv
  BY DEF Init, WaitersInv
<1>2. TypeInv /\ WaitersInv /\ [Next]_vars => WaitersInv'
  <2> SUFFICES ASSUME TypeInv, WaitersInv, [Next]_vars PROVE WaitersInv'
    OBVIOUS
  <2>0. waiters \in [TMatches -> SUBSET Conns]
    BY DEF TypeInv, WaiterTypes
  <2>1. CASE \A m \in TMatches : waiters'[m] \subseteq waiters[m]
    BY <2>1 DEF WaitersInv
  <2>2. CASE UNCHANGED waiters
    BY <2>1, <2>2
  <2>3. ASSUME NEW c, LeaveWaiters(c) PROVE WaitersInv'
    BY <2>0, <2>1, <2>3 DEF LeaveWaiters
  <2>4. ASSUME NEW j \in joins, TournamentSeats(j) PROVE WaitersInv'
    <3> DEFINE c == j.conn
               m == j.match
               players == {TPlayers[m][side] : side \in Sides}
    <3>1. c \in Conns /\ m \in TMatches
      BY DEF TypeInv, JoinTypes
    <3>2. CASE waiters' = [waiters EXCEPT ![m] = {}]
      BY <2>0, <2>1, <3>1, <3>2
    <3>3. CASE /\ UserOf[c] \in players
               /\ {w \in waiters[m] : UserOf[w] \in players} = {}
               /\ waiters' = [waiters EXCEPT ![m] = @ \cup {c}]
      <4>1. waiters[m] = {}
        BY <3>1, <3>3 DEF WaitersInv
      <4>2. waiters' = [waiters EXCEPT ![m] = {c}]
        BY <3>3, <4>1
      <4>3. \E side \in Sides : UserOf[c] = TPlayers[m][side]
        BY <3>3
      <4> QED BY <2>0, <3>1, <4>2, <4>3 DEF WaitersInv
    <3> QED BY <2>2, <2>4, <3>2, <3>3 DEF TournamentSeats, WaitingOpponents
  <2>5. ASSUME NEW c \in Conns, ClientStep(c) PROVE WaitersInv'
    BY <2>2, <2>3, <2>5
       DEF ClientStep, Connecting, ConnectReplacing, ConnectRecovering, ConnectFresh,
           SocketCloses, Disconnect, QueueJoinWaits, QueueJoinMatches, QueueJoinAi,
           QueueLeave, TournamentJoin, Ready, Pause, Resume, tourVars
  <2>6. ASSUME NEW u \in Users, QueueStep(u) PROVE UNCHANGED waiters
    BY <2>6 DEF QueueStep, FallbackDrops, FallbackAsksNpc, FallbackGuestRoom, NpcFound,
                NpcMissing, StaleLookupReturns, tourVars
  <2>7. ASSUME NEW r \in RoomIds, RoomStep(r) PROVE UNCHANGED waiters
    BY <2>7 DEF RoomStep, GameEnds, ReconnectTimer, FinalizeSucceeds, FinalizeFails, tourVars
  <2>8. CASE TournamentStep
    BY <2>2, <2>4, <2>8 DEF TournamentStep, TournamentRead, StartSucceeds, StartFails
  <2>9. CASE BeginDrain \/ Close
    BY <2>1, <2>9 DEF BeginDrain, Close
  <2>10. CASE DrainTimesOut \/ Tick \/ UNCHANGED vars
    BY <2>2, <2>10 DEF DrainTimesOut, Tick, vars, tourVars
  <2> QED BY <2>2, <2>5, <2>6, <2>7, <2>8, <2>9, <2>10 DEF Next
<1>3. WaitersInv => OneWaiterPerMatch
  BY DEF WaitersInv, OneWaiterPerMatch
<1> QED BY <1>1, <1>2, <1>3, TypesKept, PTL DEF Spec

-----------------------------------------------------------------------------
(* Who meets whom *)

\* The players of a room, which no operation but createRoom and the return of
\* the same user changes.
SeatInv(rm) ==
    /\ SeatedUsers(rm) \subseteq Guests \/ SeatedUsers(rm) \cap Guests = {}
    /\ rm.tournament # NoMatch =>
          \A side \in Sides : /\ rm.seats[side] \in Conns
                              /\ UserOf[rm.seats[side]] = TPlayers[rm.tournament][side]
    /\ \A side \in rm.away : rm.seats[side] # NoConn

\* What createRoom relies on when it seats two players: the entry of a user holds
\* a connection of that user, and no guest is on the way into a tournament match.
EntriesOwn == \A u \in Users : entries[u] # NoConn => UserOf[entries[u]] = u
NoGuestsInTournaments ==
    /\ \A m \in TMatches : \A c \in waiters[m] : UserOf[c] \notin Guests
    /\ \A j \in joins : UserOf[j.conn] \notin Guests
SeatsInv == \A r \in RoomIds : SeatInv(rooms[r])
PeopleInv == EntriesOwn /\ NoGuestsInTournaments /\ SeatsInv

LEMMA AlikeSeats ==
  ASSUME NEW rm, NEW new, SeatInv(rm), new.seats = rm.seats, new.tournament = rm.tournament,
         \A side \in new.away : side \in rm.away \/ rm.seats[side] # NoConn
  PROVE  SeatInv(new)
  BY DEF SeatInv, SeatedUsers, Seated

LEMMA UnusedSeats == SeatInv(UnusedRoom)
<1>1. UnusedRoom.tournament = NoMatch /\ UnusedRoom.away = {} /\ \A side \in Sides : UnusedRoom.seats[side] = NoConn
  BY DEF UnusedRoom
<1>2. SeatedUsers(UnusedRoom) = {}
  BY <1>1 DEF SeatedUsers, Seated
<1> QED BY <1>1, <1>2 DEF SeatInv

\* The operations that leave the seats alone.
LEMMA OpsKeepSeats ==
  ASSUME NEW rm \in Room, SeatInv(rm)
  PROVE  /\ \A side \in Sides : /\ SeatInv(ReadyRoom(rm, side))
                                /\ rm.seats[side] # NoConn => SeatInv(ReservedRoom(rm, side))
         /\ SeatInv(FinishedRoom(rm)) /\ SeatInv(RearmedRoom(rm)) /\ SeatInv(AgedRoom(rm))
         /\ SeatInv([rm EXCEPT !.finishing = FALSE])
         /\ SeatInv([rm EXCEPT !.timer = FALSE])
         /\ \A s, phase : SeatInv([rm EXCEPT !.session = s, !.phase = phase])
         /\ \A s : SeatInv([rm EXCEPT !.timer = FALSE, !.away = {}, !.session = s])
<1>1. ASSUME NEW side \in Sides
      PROVE  /\ SeatInv(ReadyRoom(rm, side))
             /\ rm.seats[side] # NoConn => SeatInv(ReservedRoom(rm, side))
  <2>1. SeatInv(ReadyRoom(rm, side))
    <3>1. /\ ReadyRoom(rm, side).seats = rm.seats
          /\ ReadyRoom(rm, side).tournament = rm.tournament
          /\ ReadyRoom(rm, side).away = rm.away
      BY DEF ReadyRoom, Room
    <3> QED BY <3>1, AlikeSeats
  <2>2. ASSUME rm.seats[side] # NoConn PROVE SeatInv(ReservedRoom(rm, side))
    <3> DEFINE new == ReservedRoom(rm, side)
    <3>1. new.seats = rm.seats /\ new.tournament = rm.tournament
          /\ new.away \subseteq rm.away \cup {side}
      BY DEF ReservedRoom, Room
    <3> HIDE DEF new
    <3>2. SeatInv(new)
      BY <2>2, <3>1, AlikeSeats
    <3> QED BY <3>2 DEF new
  <2> QED BY <2>1, <2>2
<1>2. SeatInv(FinishedRoom(rm)) /\ SeatInv(RearmedRoom(rm)) /\ SeatInv(AgedRoom(rm))
  <2>1. /\ FinishedRoom(rm).seats = rm.seats /\ FinishedRoom(rm).tournament = rm.tournament
        /\ FinishedRoom(rm).away = {}
    BY DEF FinishedRoom, Room
  <2>2. /\ RearmedRoom(rm).seats = rm.seats /\ RearmedRoom(rm).tournament = rm.tournament
        /\ RearmedRoom(rm).away = rm.away
    BY DEF RearmedRoom, Room
  <2>3. /\ AgedRoom(rm).seats = rm.seats /\ AgedRoom(rm).tournament = rm.tournament
        /\ AgedRoom(rm).away = rm.away
    BY DEF AgedRoom, Room
  <2>4. SeatInv(FinishedRoom(rm))
    BY <2>1, AlikeSeats
  <2>5. SeatInv(RearmedRoom(rm))
    BY <2>2, AlikeSeats
  <2>6. SeatInv(AgedRoom(rm))
    BY <2>3, AlikeSeats
  <2> QED BY <2>4, <2>5, <2>6
<1>3. SeatInv([rm EXCEPT !.finishing = FALSE]) /\ SeatInv([rm EXCEPT !.timer = FALSE])
  BY AlikeSeats DEF Room
<1>4. ASSUME NEW s, NEW phase PROVE SeatInv([rm EXCEPT !.session = s, !.phase = phase])
  BY AlikeSeats DEF Room
<1>5. ASSUME NEW s PROVE SeatInv([rm EXCEPT !.timer = FALSE, !.away = {}, !.session = s])
  BY AlikeSeats DEF Room
<1> QED BY <1>1, <1>2, <1>3, <1>4, <1>5

\* The seat of a connection is taken by another one of the same user.
LEMMA SameUserSeats ==
  ASSUME NEW rm \in Room, SeatInv(rm), NEW side \in Sides, NEW c \in Conns,
         rm.seats[side] \in Conns, UserOf[c] = UserOf[rm.seats[side]],
         NEW new, new.seats = [rm.seats EXCEPT ![side] = c], new.tournament = rm.tournament,
         new.away \subseteq rm.away
  PROVE  SeatInv(new)
<1>1. rm.seats \in [Sides -> Conns \cup {NoConn}]
  BY DEF Room
<1>2. SeatedUsers(new) \subseteq SeatedUsers(rm)
  <2>1. ASSUME NEW other \in Sides, new.seats[other] # NoConn
        PROVE  UserOf[new.seats[other]] \in SeatedUsers(rm)
    BY <1>1, <2>1, GameHubAssumption DEF SeatedUsers, Seated
  <2> QED BY <2>1 DEF SeatedUsers, Seated
<1>3. new.tournament # NoMatch =>
        \A other \in Sides : /\ new.seats[other] \in Conns
                             /\ UserOf[new.seats[other]] = TPlayers[new.tournament][other]
  BY <1>1 DEF SeatInv
<1>4. \A other \in new.away : new.seats[other] # NoConn
  BY <1>1, GameHubAssumption DEF SeatInv, Room
<1> QED BY <1>2, <1>3, <1>4 DEF SeatInv

LEMMA NewSeats ==
  ASSUME NEW left \in Conns, NEW right \in Conns \cup {NoConn},
         right # NoConn => (UserOf[left] \in Guests <=> UserOf[right] \in Guests)
  PROVE  /\ SeatInv(NewRoom(left, right, NoMatch))
         /\ \A m \in TMatches :
               /\ right # NoConn
               /\ UserOf[left] = TPlayers[m]["left"] /\ UserOf[right] = TPlayers[m]["right"]
               => SeatInv(NewRoom(left, right, m))
<1>1. ASSUME NEW m
      PROVE  LET new == NewRoom(left, right, m)
             IN  /\ new.tournament = m /\ new.away = {} /\ new.seats["left"] = left /\ new.seats["right"] = right
                 /\ SeatedUsers(new) \subseteq Guests \/ SeatedUsers(new) \cap Guests = {}
  <2> DEFINE new == NewRoom(left, right, m)
  <2>1. /\ new.tournament = m /\ new.away = {}
        /\ new.seats = [side \in Sides |-> IF side = "left" THEN left ELSE right]
    BY DEF NewRoom
  <2>2. new.seats["left"] = left /\ new.seats["right"] = right
    BY <2>1 DEF Sides
  <2> HIDE DEF new
  <2>3. SeatedUsers(new) \subseteq {UserOf[c] : c \in {left, right} \ {NoConn}}
    BY <2>2 DEF SeatedUsers, Seated, Sides
  <2>4. SeatedUsers(new) \subseteq Guests \/ SeatedUsers(new) \cap Guests = {}
    BY <2>3
  <2> QED BY <2>1, <2>2, <2>4 DEF new
<1>2. SeatInv(NewRoom(left, right, NoMatch))
  BY <1>1 DEF SeatInv
<1>3. ASSUME NEW m \in TMatches, right # NoConn,
             UserOf[left] = TPlayers[m]["left"], UserOf[right] = TPlayers[m]["right"]
      PROVE  SeatInv(NewRoom(left, right, m))
  BY <1>1, <1>3 DEF SeatInv, Sides
<1> QED BY <1>2, <1>3

LEMMA OneRoomReseated ==
  ASSUME RoomTypes, SeatsInv, NEW r \in RoomIds, NEW rm, SeatInv(rm),
         rooms' = [rooms EXCEPT ![r] = rm]
  PROVE  SeatsInv'
  BY DEF RoomTypes, SeatsInv

LEMMA SamePeople ==
  /\ EntriesOwn /\ UNCHANGED entries => EntriesOwn'
  /\ NoGuestsInTournaments /\ UNCHANGED <<waiters, joins>> => NoGuestsInTournaments'
  /\ SeatsInv /\ UNCHANGED rooms => SeatsInv'
  BY DEF EntriesOwn, NoGuestsInTournaments, SeatsInv

LEMMA EntriesDropped ==
  /\ EntriesOwn /\ (\E U : DropEntries(U) \/ LeaveQueues(U)) => EntriesOwn'
  /\ EntryTypes /\ EntriesOwn /\ (\E u \in Users : ConsumeEntry(u)) => EntriesOwn'
<1>1. ASSUME EntriesOwn, NEW U, DropEntries(U) \/ LeaveQueues(U) PROVE EntriesOwn'
  BY <1>1 DEF EntriesOwn, DropEntries, LeaveQueues, EntriesAfterLeaving
<1>2. ASSUME EntryTypes, EntriesOwn, NEW u \in Users, ConsumeEntry(u) PROVE EntriesOwn'
  BY <1>2 DEF EntryTypes, EntriesOwn, ConsumeEntry
<1> QED BY <1>1, <1>2

LEMMA WaitersLeave ==
  ASSUME NoGuestsInTournaments, NEW c, LeaveWaiters(c), UNCHANGED joins
  PROVE  NoGuestsInTournaments'
  BY DEF NoGuestsInTournaments, LeaveWaiters

LEMMA RemoveRoomSeats ==
  ASSUME RoomTypes, SeatsInv, NEW r \in RoomIds, NEW rm, SeatInv(rm), RemoveRoom(r, rm)
  PROVE  SeatsInv'
<1>1. rooms' = [rooms EXCEPT ![r] = IF rm.finishing THEN rm ELSE UnusedRoom]
  BY DEF RemoveRoom
<1>2. SeatInv(IF rm.finishing THEN rm ELSE UnusedRoom)
  BY UnusedSeats
<1> QED BY <1>1, <1>2, OneRoomReseated

LEMMA FinishRoomSeats ==
  ASSUME RoomTypes, SeatsInv, NEW r \in RoomIds, NEW rm \in Room, SeatInv(rm),
         FinishRoom(r, rm)
  PROVE  SeatsInv'
<1>1. FinishedRoom(rm) \in Room /\ SeatInv(FinishedRoom(rm))
  BY RoomOpsTyped, OpsKeepSeats
<1>2. SeatInv([FinishedRoom(rm) EXCEPT !.finishing = FALSE])
  BY <1>1, OpsKeepSeats
<1> QED BY <1>1, <1>2, RemoveRoomSeats, OneRoomReseated DEF FinishRoom

\* createRoom with the players it may be given.
LEMMA CreateRoomSeats ==
  ASSUME RoomTypes, SeatsInv, NEW r \in RoomIds,
         NEW left \in Conns, NEW right \in Conns \cup {NoConn},
         right # NoConn => (UserOf[left] \in Guests <=> UserOf[right] \in Guests),
         NEW match \in TMatches \cup {NoMatch},
         match # NoMatch => /\ right # NoConn
                            /\ UserOf[left] = TPlayers[match]["left"]
                            /\ UserOf[right] = TPlayers[match]["right"],
         CreateRoom(r, left, right, match)
  PROVE  SeatsInv'
<1>1. SeatInv(NewRoom(left, right, match))
  BY NewSeats
<1> QED BY <1>1, OneRoomReseated DEF CreateRoom

LEMMA ConnectionStepsKeepPeople ==
  ASSUME TypeInv, OneConnectionPerUser, PeopleInv, NEW c \in Conns,
         Connecting(c) \/ SocketCloses(c) \/ Disconnect(c)
  PROVE  PeopleInv'
<1> USE DEF PeopleInv
<1>0. /\ RoomTypes /\ \A r \in RoomIds : rooms[r] \in Room /\ SeatInv(rooms[r])
      /\ UserOf[c] \in Users /\ ConnTypes /\ NoConn \notin Conns
  BY GameHubAssumption DEF TypeInv, RoomTypes, SeatsInv
<1>1. CASE ConnectReplacing(c)
  <2> DEFINE previous == byUser[UserOf[c]]
  <2>1. EntriesOwn' /\ NoGuestsInTournaments'
    BY <1>1, EntriesDropped, WaitersLeave DEF ConnectReplacing
  <2>2. previous \in Conns /\ UserOf[previous] = UserOf[c]
    BY <1>0, <1>1 DEF ConnectReplacing, OneConnectionPerUser, ConnTypes
  <2>3. ASSUME NEW r \in RoomIds, NEW side \in Sides, rooms[r].seats[side] = previous,
               rooms' = [rooms EXCEPT ![r].seats[side] = c]
        PROVE  SeatsInv'
    <3> DEFINE new == [rooms[r] EXCEPT !.seats[side] = c]
    <3>1. /\ new.seats = [rooms[r].seats EXCEPT ![side] = c]
          /\ new.tournament = rooms[r].tournament /\ new.away = rooms[r].away
      BY <1>0 DEF Room
    <3>2. rooms' = [rooms EXCEPT ![r] = new]
      BY <2>3
    <3> HIDE DEF new
    <3>3. SeatInv(new)
      BY <1>0, <2>2, <2>3, <3>1, SameUserSeats
    <3> QED BY <1>0, <3>2, <3>3, OneRoomReseated
  <2> QED BY <1>1, <2>1, <2>3, SamePeople DEF ConnectReplacing, Holds
<1>2. CASE ConnectRecovering(c)
  <2>1. EntriesOwn' /\ NoGuestsInTournaments'
    BY <1>2, SamePeople DEF ConnectRecovering, queueVars, tourVars
  <2>2. PICK r \in RoomIds, side \in Sides :
           /\ Recoverable(UserOf[c], r, side)
           /\ rooms' = [rooms EXCEPT ![r] = RecoveredRoom(rooms[r], side, c)]
           /\ roomOf' = [roomOf EXCEPT ![rooms[r].seats[side]] = NoRoom, ![c] = r]
    BY <1>2 DEF ConnectRecovering
  <2> DEFINE new == RecoveredRoom(rooms[r], side, c)
  <2>3. /\ new.seats = [rooms[r].seats EXCEPT ![side] = c]
        /\ new.tournament = rooms[r].tournament /\ new.away \subseteq rooms[r].away
    BY <1>0 DEF RecoveredRoom, Room
  <2>4. rooms[r].seats[side] \in Conns /\ UserOf[rooms[r].seats[side]] = UserOf[c]
    <3>1. side \in rooms[r].away /\ UserOf[rooms[r].seats[side]] = UserOf[c]
      BY <2>2 DEF Recoverable
    <3> QED BY <1>0, <3>1 DEF SeatInv, Room
  <2> HIDE DEF new
  <2>5. SeatInv(new)
    BY <1>0, <2>3, <2>4, SameUserSeats
  <2>6. rooms' = [rooms EXCEPT ![r] = new]
    BY <2>2 DEF new
  <2> QED BY <1>0, <2>1, <2>5, <2>6, OneRoomReseated
<1>3. CASE ConnectFresh(c) \/ SocketCloses(c)
  BY <1>3, SamePeople DEF ConnectFresh, SocketCloses, queueVars, roomVars, tourVars
<1>4. CASE Disconnect(c)
  <2>1. EntriesOwn' /\ NoGuestsInTournaments'
    BY <1>4, EntriesDropped, WaitersLeave DEF Disconnect
  <2>2. ASSUME NEW r \in RoomIds, NEW side \in Sides, rooms[r].seats[side] = c,
               rooms' = [rooms EXCEPT ![r] = ReservedRoom(rooms[r], side)]
        PROVE  SeatsInv'
    BY <1>0, <2>2, OpsKeepSeats, OneRoomReseated
  <2> QED BY <1>4, <2>1, <2>2, SamePeople DEF Disconnect, Holds
<1> QED BY <1>1, <1>2, <1>3, <1>4 DEF Connecting

LEMMA JoinStepsKeepPeople ==
  ASSUME TypeInv, PeopleInv, NEW c \in Conns,
         \/ QueueJoinWaits(c) \/ QueueJoinMatches(c) \/ QueueJoinAi(c) \/ QueueLeave(c)
         \/ \E m \in TMatches : TournamentJoin(c, m)
  PROVE  PeopleInv'
<1> USE DEF PeopleInv
<1>0. /\ RoomTypes /\ EntryTypes /\ UserOf[c] \in Users /\ c # NoConn
      /\ DeadEntries \in SUBSET Users
      /\ EntriesAfterLeaving(DeadEntries) \in [Users -> Conns \cup {NoConn}]
      /\ MmAfterLeaving(DeadEntries) \in MatchmakerState
  BY GameHubAssumption, LeavingTyped DEF TypeInv, DeadEntries
<1>1. CASE QueueJoinWaits(c)
  <2>1. CASE LeaveQueues(DeadEntries)
    BY <1>1, <2>1, EntriesDropped, SamePeople DEF QueueJoinWaits, roomVars, tourVars
  <2>2. CASE entries' = [EntriesAfterLeaving(DeadEntries) EXCEPT ![UserOf[c]] = c]
    <3>1. EntriesOwn'
      BY <1>0, <2>2 DEF EntriesOwn, EntriesAfterLeaving
    <3> QED BY <1>1, <3>1, SamePeople DEF QueueJoinWaits, roomVars, tourVars
  <2> QED BY <1>1, <2>1, <2>2 DEF QueueJoinWaits
<1>2. CASE QueueJoinMatches(c)
  <2> DEFINE u == UserOf[c]
             m == MmAfterLeaving(DeadEntries)
             opponent(v) == EntriesAfterLeaving(DeadEntries)[v]
  <2>1. PICK v \in m.queue :
           /\ IsClosest(m, u, v) /\ DropEntries(DeadEntries \cup {v})
           /\ \/ /\ opponent(v) # NoConn
                 /\ \E r \in RoomIds : CreateRoom(r, opponent(v), c, NoMatch)
              \/ UNCHANGED roomVars
    BY <1>2 DEF QueueJoinMatches
  <2>2. v \in Users /\ (u \in Guests <=> v \in Guests)
    BY <1>0, <2>1 DEF MatchmakerState, IsClosest, Opponents, Compatible
  <2>3. opponent(v) # NoConn => opponent(v) \in Conns /\ UserOf[opponent(v)] = v
    BY <1>0, <2>2 DEF EntriesOwn, EntriesAfterLeaving
  <2>4. SeatsInv'
    <3>1. ASSUME NEW r \in RoomIds, opponent(v) # NoConn,
                 CreateRoom(r, opponent(v), c, NoMatch)
          PROVE  SeatsInv'
      <4> HIDE DEF opponent
      <4> QED BY <1>0, <2>2, <2>3, <3>1, CreateRoomSeats
    <3> QED BY <2>1, <3>1, SamePeople DEF roomVars
  <2> QED BY <1>2, <2>1, <2>4, EntriesDropped, SamePeople DEF QueueJoinMatches, tourVars
<1>3. CASE QueueJoinAi(c)
  <2>1. SeatsInv'
    BY <1>0, <1>3, CreateRoomSeats, SamePeople DEF QueueJoinAi, CreateRoomFails, roomVars
  <2> QED BY <1>3, <2>1, EntriesDropped, SamePeople DEF QueueJoinAi, tourVars
<1>4. CASE QueueLeave(c)
  BY <1>4, EntriesDropped, SamePeople DEF QueueLeave, roomVars, tourVars
<1>5. ASSUME NEW m \in TMatches, TournamentJoin(c, m) PROVE PeopleInv'
  <2>1. NoGuestsInTournaments'
    BY <1>5 DEF TournamentJoin, LeaveWaiters, NoGuestsInTournaments
  <2> QED BY <1>5, <2>1, EntriesDropped, SamePeople DEF TournamentJoin, roomVars
<1> QED BY <1>1, <1>2, <1>3, <1>4, <1>5

LEMMA QueueStepsKeepPeople ==
  ASSUME TypeInv, PeopleInv, NEW u \in Users, QueueStep(u)
  PROVE  PeopleInv'
<1> USE DEF PeopleInv
<1>0. /\ RoomTypes /\ EntryTypes
      /\ fallback[u] # "off" => entries[u] \in Conns
  BY DEF TypeInv, EntryTypes
<1>1. NoGuestsInTournaments'
  <2>1. UNCHANGED <<waiters, joins>>
    BY DEF QueueStep, FallbackDrops, FallbackAsksNpc, FallbackGuestRoom, NpcFound,
           NpcMissing, StaleLookupReturns, tourVars
  <2> QED BY <2>1, SamePeople
<1>2. EntriesOwn'
  BY <1>0, EntriesDropped, SamePeople
     DEF QueueStep, FallbackDrops, FallbackAsksNpc, FallbackGuestRoom, NpcFound,
         NpcMissing, StaleLookupReturns
<1>3. SeatsInv'
  <2>1. CASE UNCHANGED roomVars
    BY <2>1, SamePeople DEF roomVars
  <2>2. ASSUME NEW r \in RoomIds, fallback[u] # "off", CreateRoom(r, entries[u], NoConn, NoMatch)
        PROVE  SeatsInv'
    BY <1>0, <2>2, CreateRoomSeats
  <2> QED BY <2>1, <2>2
          DEF QueueStep, FallbackDrops, FallbackAsksNpc, FallbackGuestRoom, FallbackReady,
              NpcFound, NpcMissing, StaleLookupReturns, CreateRoomFails
<1> QED BY <1>1, <1>2, <1>3

LEMMA TournamentStepsKeepPeople ==
  ASSUME TypeInv, PeopleInv, TournamentStep
  PROVE  PeopleInv'
<1> USE DEF PeopleInv
<1>0. RoomTypes /\ WaiterTypes /\ JoinTypes /\ \A r \in RoomIds : rooms[r] \in Room
  BY DEF TypeInv, RoomTypes
<1>1. ASSUME NEW j \in joins, TournamentRead(j) PROVE PeopleInv'
  <2>1. [j EXCEPT !.row = tstatus[j.match]].conn = j.conn
    BY <1>0 DEF JoinTypes
  <2>2. NoGuestsInTournaments'
    BY <1>1, <2>1 DEF TournamentRead, NoGuestsInTournaments
  <2> QED BY <1>1, <2>2, SamePeople DEF TournamentRead, queueVars, roomVars
<1>2. ASSUME NEW j \in joins, TournamentSeats(j) PROVE PeopleInv'
  <2> DEFINE c == j.conn
             m == j.match
             players == {TPlayers[m][side] : side \in Sides}
  <2>1. c \in Conns /\ m \in TMatches /\ UserOf[c] \notin Guests
    BY <1>0 DEF JoinTypes, NoGuestsInTournaments
  <2>2. NoGuestsInTournaments'
    BY <1>0, <1>2, <2>1 DEF TournamentSeats, WaitingOpponents, NoGuestsInTournaments, WaiterTypes
  <2>3. ASSUME NEW w \in waiters[m], NEW r \in RoomIds, UserOf[w] \in players,
               UserOf[c] \in players, ~AlreadyWaits(c, m),
               LET left == LeftOf(m, c, w)
               IN  CreateRoom(r, left, IF left = c THEN w ELSE c, m)
        PROVE  SeatsInv'
    <3> DEFINE left == LeftOf(m, c, w)
               right == IF left = c THEN w ELSE c
    <3>1. w \in Conns /\ UserOf[w] \notin Guests /\ UserOf[w] # UserOf[c]
      BY <1>0, <2>1, <2>3 DEF WaiterTypes, NoGuestsInTournaments, AlreadyWaits
    <3>2. /\ UserOf[c] = TPlayers[m]["left"] \/ UserOf[c] = TPlayers[m]["right"]
          /\ UserOf[w] = TPlayers[m]["left"] \/ UserOf[w] = TPlayers[m]["right"]
      BY <2>3 DEF Sides
    <3>3. /\ left \in Conns /\ right \in Conns /\ right # NoConn
          /\ UserOf[left] \notin Guests /\ UserOf[right] \notin Guests
          /\ UserOf[left] = TPlayers[m]["left"] /\ UserOf[right] = TPlayers[m]["right"]
      BY <2>1, <3>1, <3>2, GameHubAssumption DEF LeftOf
    <3>4. CreateRoom(r, left, right, m)
      BY <2>3
    <3> HIDE DEF left, right, m
    <3>5. m \in TMatches
      BY <2>1
    <3> QED BY <1>0, <3>3, <3>4, <3>5, CreateRoomSeats
  <2>4. SeatsInv'
    BY <1>2, <2>3, SamePeople DEF TournamentSeats, WaitingOpponents, CreateRoomFails, roomVars
  <2> QED BY <1>2, <2>2, <2>4, SamePeople DEF TournamentSeats, WaitingOpponents, queueVars
<1>3. ASSUME NEW s \in starts, StartSucceeds(s) PROVE PeopleInv'
  BY <1>3, SamePeople DEF StartSucceeds, queueVars, roomVars
<1>4. ASSUME NEW s \in starts, StartFails(s) PROVE PeopleInv'
  <2>1. s.room \in RoomIds
    BY <1>0 DEF JoinTypes
  <2>2. SeatInv([rooms[s.room] EXCEPT !.timer = FALSE])
    BY <1>0, <2>1, OpsKeepSeats DEF SeatsInv
  <2>3. SeatsInv'
    BY <1>0, <1>4, <2>1, <2>2, RemoveRoomSeats, SamePeople DEF StartFails, roomVars
  <2> QED BY <1>4, <2>3, SamePeople DEF StartFails
<1> QED BY <1>1, <1>2, <1>3, <1>4 DEF TournamentStep

LEMMA PlayStepsKeepPeople ==
  ASSUME TypeInv, PeopleInv, NEW r \in RoomIds,
         (\E c \in Conns : Ready(c, r) \/ Pause(c, r) \/ Resume(c, r)) \/ RoomStep(r)
  PROVE  PeopleInv'
<1> USE DEF PeopleInv
<1>0. RoomTypes /\ rooms[r] \in Room /\ SeatInv(rooms[r])
  BY DEF TypeInv, RoomTypes, SeatsInv
<1>1. EntriesOwn' /\ NoGuestsInTournaments'
  <2>1. UNCHANGED <<entries, waiters, joins>>
    BY DEF Ready, Pause, Resume, RoomStep, GameEnds, ReconnectTimer, FinalizeSucceeds,
           FinalizeFails, queueVars, tourVars
  <2> QED BY <2>1, SamePeople
<1>2. SeatsInv'
  <2>1. ASSUME NEW c \in Conns, Ready(c, r) PROVE SeatsInv'
    BY <1>0, <2>1, OpsKeepSeats, OneRoomReseated DEF Ready, SidesOf
  <2>2. ASSUME NEW c \in Conns, Pause(c, r) \/ Resume(c, r) PROVE SeatsInv'
    <3>1. CASE Pause(c, r)
      <4> DEFINE s == SessionPause(rooms[r].session)
                 p == IF s.state = "paused" THEN "paused" ELSE rooms[r].phase
      <4>1. rooms' = [rooms EXCEPT ![r] = [rooms[r] EXCEPT !.session = s, !.phase = p]]
        BY <1>0, <3>1 DEF Pause, RoomTypes
      <4> HIDE DEF s, p
      <4> QED BY <1>0, <4>1, OpsKeepSeats, OneRoomReseated
    <3>2. CASE Resume(c, r)
      <4> DEFINE s == SessionResume(rooms[r].session)
      <4>1. rooms' = [rooms EXCEPT ![r] = [rooms[r] EXCEPT !.session = s, !.phase = "playing"]]
        BY <1>0, <3>2 DEF Resume, RoomTypes
      <4> HIDE DEF s
      <4> QED BY <1>0, <4>1, OpsKeepSeats, OneRoomReseated
    <3> QED BY <2>2, <3>1, <3>2
  <2>3. CASE GameEnds(r)
    BY <1>0, <2>3, FinishRoomSeats DEF GameEnds
  <2>4. CASE ReconnectTimer(r)
    <3> DEFINE over == [rooms[r] EXCEPT !.timer = FALSE, !.away = {},
                                        !.session = SessionFinish(rooms[r].session)]
    <3>1. over \in Room /\ SeatInv(over) /\ SeatInv(RearmedRoom(rooms[r]))
      BY <1>0, RoomOpsTyped, OpsKeepSeats
    <3>2. \/ RemoveRoom(r, over) \/ FinishRoom(r, over)
          \/ rooms' = [rooms EXCEPT ![r] = RearmedRoom(rooms[r])]
      BY <2>4 DEF ReconnectTimer
    <3> HIDE DEF over
    <3> QED BY <1>0, <3>1, <3>2, RemoveRoomSeats, FinishRoomSeats, OneRoomReseated
  <2>5. CASE FinalizeSucceeds(r) \/ FinalizeFails(r)
    <3>1. SeatInv([rooms[r] EXCEPT !.finishing = FALSE])
      BY <1>0, OpsKeepSeats
    <3> QED BY <1>0, <2>5, <3>1, RemoveRoomSeats, OneRoomReseated
            DEF FinalizeSucceeds, FinalizeFails
  <2> QED BY <2>1, <2>2, <2>3, <2>4, <2>5 DEF RoomStep
<1> QED BY <1>1, <1>2

LEMMA HubStepsKeepPeople ==
  ASSUME TypeInv, PeopleInv, BeginDrain \/ DrainTimesOut \/ Close \/ Tick
  PROVE  PeopleInv'
<1> USE DEF PeopleInv
<1>0. RoomTypes /\ \A r \in RoomIds : rooms[r] \in Room /\ SeatInv(rooms[r])
  BY DEF TypeInv, RoomTypes, SeatsInv
<1>1. CASE BeginDrain
  <2>1. NoGuestsInTournaments'
    BY <1>1 DEF BeginDrain, NoGuestsInTournaments
  <2> QED BY <1>1, <2>1, EntriesDropped, SamePeople DEF BeginDrain, roomVars
<1>2. CASE DrainTimesOut
  BY <1>2, SamePeople DEF DrainTimesOut, queueVars, roomVars, tourVars
<1>3. CASE Close
  <2>1. NoGuestsInTournaments'
    BY <1>3 DEF Close, NoGuestsInTournaments
  <2>2. SeatsInv'
    BY <1>0, <1>3, OpsKeepSeats, UnusedSeats DEF Close, SeatsInv
  <2> QED BY <1>3, <2>1, <2>2, EntriesDropped DEF Close
<1>4. CASE Tick
  <2>1. SeatsInv'
    BY <1>0, <1>4, OpsKeepSeats DEF Tick, SeatsInv
  <2> QED BY <1>4, <2>1, SamePeople DEF Tick, tourVars
<1> QED BY <1>1, <1>2, <1>3, <1>4

\* A step of the hub seats nobody who may not sit there.
LEMMA PeopleStep ==
  TypeInv /\ OneConnectionPerUser /\ PeopleInv /\ [Next]_vars => PeopleInv'
<1> SUFFICES ASSUME TypeInv, OneConnectionPerUser, PeopleInv, [Next]_vars PROVE PeopleInv'
  OBVIOUS
<1>1. ASSUME NEW c \in Conns, ClientStep(c) PROVE PeopleInv'
  BY <1>1, ConnectionStepsKeepPeople, JoinStepsKeepPeople, PlayStepsKeepPeople DEF ClientStep
<1>2. ASSUME NEW u \in Users, QueueStep(u) PROVE PeopleInv'
  BY <1>2, QueueStepsKeepPeople
<1>3. ASSUME NEW r \in RoomIds, RoomStep(r) PROVE PeopleInv'
  BY <1>3, PlayStepsKeepPeople
<1>4. CASE TournamentStep
  BY <1>4, TournamentStepsKeepPeople
<1>5. CASE BeginDrain \/ DrainTimesOut \/ Close \/ Tick
  BY <1>5, HubStepsKeepPeople
<1>6. CASE UNCHANGED vars
  BY <1>6, SamePeople DEF vars, queueVars, roomVars, tourVars, PeopleInv
<1> QED BY <1>1, <1>2, <1>3, <1>4, <1>5, <1>6 DEF Next

LEMMA PeopleKept == Spec => []PeopleInv
<1>1. Init => PeopleInv
  BY UnusedSeats DEF Init, PeopleInv, EntriesOwn, NoGuestsInTournaments, SeatsInv
<1> QED BY <1>1, PeopleStep, TypesKept, SingleConnection, PTL DEF Spec

\* Guests and registered users never meet in a room, however rooms came about
\* and whoever replaced or recovered a seat.
THEOREM GuestsStayApart == Spec => []GuestsApart
<1>1. TypeInv /\ PeopleInv => GuestsApart
  BY DEF TypeInv, RoomTypes, PeopleInv, SeatsInv, SeatInv, GuestsApart
<1> QED BY <1>1, TypesKept, PeopleKept, PTL

\* The seats of a tournament room are those of the bracket, whoever came first
\* and whichever connection sits there now.
THEOREM BracketSeats == Spec => []TournamentSeating
<1>1. TypeInv /\ PeopleInv => TournamentSeating
  BY DEF TypeInv, RoomTypes, PeopleInv, SeatsInv, SeatInv, TournamentSeating
<1> QED BY <1>1, TypesKept, PeopleKept, PTL

\* The two players of a match find each other and nobody else.
THEOREM TournamentPaired == Spec => []TournamentPairs
BY NobodyWaitsTwice, BracketSeats, PTL DEF TournamentPairs

-----------------------------------------------------------------------------
(* Seats, connections and the queue *)

\* The tournament is the one way into a room that does not look at the others:
\* its handlers act on what they saw before an await.  A step keeps the seats in
\* order when this is true of the calls in flight, which the code does not see
\* to: HubTwoRooms shows what happens otherwise.  Where nobody may join a
\* tournament match there are no such calls.
TournamentsOrderly ==
    /\ \A m \in TMatches : \A c \in waiters[m] :
          roomOf[c] = NoRoom /\ entries[UserOf[c]] = NoConn
    /\ \A j \in joins : j.conn \in Registered /\ entries[UserOf[j.conn]] = NoConn
    /\ \A s \in starts : s.room \in live => ~rooms[s.room].finishing

\* What SeatsAgree needs to be inductive.  A seat of a room in this.rooms is
\* named by its connection whether the room is over or not, or its players could
\* enter another one; nobody sits twice in a room; a record outside this.rooms
\* has no players, but when the hub was closed with it.
LinkedSeats(r) ==
    /\ rooms[r].seats["left"] # rooms[r].seats["right"]
    /\ \A side \in Sides : rooms[r].seats[side] # NoConn =>
          /\ roomOf[rooms[r].seats[side]] = r
          /\ rooms[r].session.state # "finished" =>
                (side \in rooms[r].session.disconnected
                    <=> rooms[r].seats[side] \notin Registered)

LinkInv ==
    /\ \A r \in live : LinkedSeats(r)
    /\ \A c \in Registered : roomOf[c] # NoRoom =>
          roomOf[c] \in live /\ c \in Seated(rooms[roomOf[c]])
    /\ \A r \in RoomIds \ live : Seated(rooms[r]) # {} => drain = "closed"
    /\ drain = "closed" => live = {} /\ Registered = {}

\* Types and shapes already proved, in the form the steps need.
HubFacts == TypeInv /\ RoomsInv /\ PeopleInv /\ OneConnectionPerUser

LEMMA LinkFacts ==
  ASSUME HubFacts
  PROVE  /\ ConnTypes /\ EntryTypes /\ MmTypes /\ RoomTypes /\ WaiterTypes /\ JoinTypes
         /\ NoConn \notin Conns /\ NoRoom \notin RoomIds /\ UserOf \in [Conns -> Users]
         /\ Registered \subseteq Conns
         /\ \A r \in RoomIds :
               /\ rooms[r] \in Room /\ RoomShape(rooms[r]) /\ SeatInv(rooms[r])
               /\ rooms[r].seats \in [Sides -> Conns \cup {NoConn}]
               /\ \A c \in Seated(rooms[r]) :
                     c \in Conns /\ \E side \in Sides : rooms[r].seats[side] = c
<1>1. /\ ConnTypes /\ EntryTypes /\ MmTypes /\ RoomTypes /\ WaiterTypes /\ JoinTypes
      /\ NoConn \notin Conns /\ NoRoom \notin RoomIds /\ UserOf \in [Conns -> Users]
      /\ Registered \subseteq Conns
  BY GameHubAssumption DEF HubFacts, TypeInv, Registered
<1>2. ASSUME NEW r \in RoomIds
      PROVE  /\ rooms[r] \in Room /\ RoomShape(rooms[r]) /\ SeatInv(rooms[r])
             /\ rooms[r].seats \in [Sides -> Conns \cup {NoConn}]
             /\ \A c \in Seated(rooms[r]) :
                   c \in Conns /\ \E side \in Sides : rooms[r].seats[side] = c
  <2>1. rooms[r] \in Room /\ RoomShape(rooms[r]) /\ SeatInv(rooms[r])
    BY <1>1 DEF HubFacts, RoomTypes, RoomsInv, PeopleInv, SeatsInv
  <2>2. rooms[r].seats \in [Sides -> Conns \cup {NoConn}]
    BY <2>1 DEF Room
  <2> QED BY <2>1, <2>2 DEF Seated
<1> QED BY <1>1, <1>2

\* A connection that is seated in a room of the hub names it.
LEMMA SeatNamesRoom ==
  ASSUME HubFacts, LinkInv, NEW r \in live, NEW c \in Seated(rooms[r])
  PROVE  roomOf[c] = r /\ c \in Conns
<1>1. r \in RoomIds
  BY LinkFacts DEF RoomTypes
<1> QED BY <1>1, LinkFacts DEF LinkInv, LinkedSeats, Seated

\* A step that changes neither who is connected nor who sits where.
SameLinks ==
    /\ Registered' = Registered /\ roomOf' = roomOf /\ live' = live
    /\ drain' = "closed" <=> drain = "closed"
    /\ \A r \in RoomIds :
          /\ rooms'[r].seats = rooms[r].seats
          /\ rooms'[r].session.state # "finished" =>
                /\ rooms[r].session.state # "finished"
                /\ rooms'[r].session.disconnected = rooms[r].session.disconnected

LEMMA SameLinksKeep ==
  ASSUME HubFacts, LinkInv, SameLinks
  PROVE  LinkInv'
<1>1. \A r \in RoomIds : Seated(rooms'[r]) = Seated(rooms[r])
  BY DEF SameLinks, Seated
<1>2. \A r \in live' : LinkedSeats(r)'
  BY LinkFacts DEF SameLinks, LinkInv, LinkedSeats, RoomTypes
<1>3. \A c \in Registered' : roomOf'[c] # NoRoom =>
          roomOf'[c] \in live' /\ c \in Seated(rooms'[roomOf'[c]])
  BY <1>1, LinkFacts DEF SameLinks, LinkInv, RoomTypes
<1>4. \A r \in RoomIds \ live' : Seated(rooms'[r]) # {} => drain' = "closed"
  BY <1>1 DEF SameLinks, LinkInv
<1>5. drain' = "closed" => live' = {} /\ Registered' = {}
  BY DEF SameLinks, LinkInv
<1> QED BY <1>2, <1>3, <1>4, <1>5 DEF LinkInv

\* createRoom with players who are in the hub and in no room.
LEMMA CreateRoomLinks ==
  ASSUME HubFacts, LinkInv, NEW r \in RoomIds,
         NEW left \in Conns, NEW right \in Conns \cup {NoConn}, NEW match,
         left # right, left \in Registered, right # NoConn => right \in Registered,
         roomOf[left] = NoRoom, right # NoConn => roomOf[right] = NoRoom,
         CreateRoom(r, left, right, match)
  PROVE  LinkInv'
<1> DEFINE new == NewRoom(left, right, match)
<1>0. /\ new.seats["left"] = left /\ new.seats["right"] = right
      /\ new.session.disconnected = {}
  BY DEF NewRoom, Sides, NewSession, SessionMarkReady
<1> HIDE DEF new
<1>1. /\ r \notin live /\ \A c \in Conns : roomOf[c] # r
      /\ live' = live \cup {r} /\ rooms' = [rooms EXCEPT ![r] = new]
      /\ roomOf' = [c \in Conns |-> IF c \in {left, right} THEN r ELSE roomOf[c]]
      /\ Registered' = Registered /\ drain' = drain
  BY DEF CreateRoom, FreeRoom, new, Registered
<1>2. /\ rooms'[r] = new
      /\ \A q \in RoomIds \ {r} : rooms'[q] = rooms[q]
  BY <1>1, LinkFacts DEF RoomTypes
<1>3. Seated(rooms'[r]) = {left, right} \ {NoConn}
  BY <1>0, <1>2 DEF Seated, Sides
<1>4. LinkedSeats(r)'
  <2>1. \A side \in Sides : new.seats[side] # NoConn =>
           roomOf'[new.seats[side]] = r /\ new.seats[side] \in Registered
    BY <1>0, <1>1 DEF Sides
  <2> QED BY <1>0, <1>1, <1>2, <2>1 DEF LinkedSeats
<1>5. ASSUME NEW q \in live PROVE LinkedSeats(q)'
  <2>1. q # r /\ q \in RoomIds /\ rooms'[q] = rooms[q] /\ LinkedSeats(q)
    BY <1>1, <1>2, LinkFacts DEF LinkInv, RoomTypes
  <2>2. \A side \in Sides : rooms[q].seats[side] # NoConn =>
           roomOf'[rooms[q].seats[side]] = roomOf[rooms[q].seats[side]]
    BY <1>1, <2>1, LinkFacts DEF LinkedSeats
  <2> QED BY <1>1, <2>1, <2>2 DEF LinkedSeats
<1>6. ASSUME NEW c \in Registered', roomOf'[c] # NoRoom
      PROVE  roomOf'[c] \in live' /\ c \in Seated(rooms'[roomOf'[c]])
  <2>1. c \in Conns /\ c \in Registered
    BY <1>1, LinkFacts
  <2>2. CASE c \in {left, right}
    BY <1>1, <1>3, <2>1, <2>2, LinkFacts
  <2>3. CASE c \notin {left, right}
    <3>1. roomOf'[c] = roomOf[c] /\ roomOf[c] \in live /\ c \in Seated(rooms[roomOf[c]])
      BY <1>1, <1>6, <2>1, <2>3 DEF LinkInv
    <3> QED BY <1>1, <1>2, <2>1, <3>1, LinkFacts DEF RoomTypes
  <2> QED BY <2>2, <2>3
<1>7. \A q \in RoomIds \ live' : Seated(rooms'[q]) # {} => drain' = "closed"
  BY <1>1, <1>2 DEF LinkInv
<1>8. drain' # "closed"
  BY <1>1, LinkFacts DEF LinkInv
<1> QED BY <1>1, <1>4, <1>5, <1>6, <1>7, <1>8 DEF LinkInv

\* A room leaves this.rooms, and its players it; or, after close(), the record
\* of a room goes when finalizeMatch is answered.
LEMMA RemoveRoomLinks ==
  ASSUME HubFacts, LinkInv, NEW r \in RoomIds, NEW rm, Seated(rm) = Seated(rooms[r]),
         rm.finishing = FALSE, Registered' = Registered, RemoveRoom(r, rm)
  PROVE  LinkInv'
<1>1. /\ roomOf' = [c \in Conns |-> IF c \in Seated(rooms[r]) THEN NoRoom ELSE roomOf[c]]
      /\ live' = live \ {r} /\ rooms' = [rooms EXCEPT ![r] = UnusedRoom]
      /\ drain' = "closed" <=> drain = "closed"
  BY DEF RemoveRoom, DrainAfter
<1>2. /\ rooms'[r] = UnusedRoom /\ Seated(rooms'[r]) = {}
      /\ \A q \in RoomIds \ {r} : rooms'[q] = rooms[q]
  BY <1>1, LinkFacts DEF RoomTypes, UnusedRoom, Seated
<1>3. ASSUME NEW q \in live' PROVE LinkedSeats(q)'
  <2>1. q # r /\ q \in live /\ q \in RoomIds /\ rooms'[q] = rooms[q] /\ LinkedSeats(q)
    BY <1>1, <1>2, LinkFacts DEF LinkInv, RoomTypes
  <2>2. ASSUME NEW c \in Seated(rooms[r]) PROVE roomOf[c] # q
    <3>1. CASE r \in live
      BY <2>1, <2>2, <3>1, SeatNamesRoom
    <3>2. CASE r \notin live
      BY <2>1, <2>2, <3>2 DEF LinkInv
    <3> QED BY <3>1, <3>2
  <2>3. \A side \in Sides : rooms[q].seats[side] # NoConn =>
           roomOf'[rooms[q].seats[side]] = q
    BY <1>1, <2>1, <2>2, LinkFacts DEF LinkedSeats
  <2>4. Registered' = Registered
    OBVIOUS
  <2> QED BY <2>1, <2>3, <2>4 DEF LinkedSeats
<1>4. ASSUME NEW c \in Registered', roomOf'[c] # NoRoom
      PROVE  roomOf'[c] \in live' /\ c \in Seated(rooms'[roomOf'[c]])
  <2>1. c \in Conns /\ c \in Registered /\ c \notin Seated(rooms[r]) /\ roomOf'[c] = roomOf[c]
    BY <1>1, <1>4, LinkFacts
  <2>2. roomOf[c] \in live /\ c \in Seated(rooms[roomOf[c]])
    BY <1>4, <2>1 DEF LinkInv
  <2> QED BY <1>1, <1>2, <2>1, <2>2, LinkFacts DEF RoomTypes
<1>5. \A q \in RoomIds \ live' : Seated(rooms'[q]) # {} => drain' = "closed"
  BY <1>1, <1>2 DEF LinkInv
<1>6. drain' = "closed" => live' = {} /\ Registered' = {}
  BY <1>1 DEF LinkInv
<1>7. \A q \in live' : LinkedSeats(q)'
  BY <1>3
<1>8. (\A c \in Registered : roomOf[c] # NoRoom =>
          roomOf[c] \in live /\ c \in Seated(rooms[roomOf[c]]))'
  BY <1>4
<1> QED BY <1>5, <1>6, <1>7, <1>8 DEF LinkInv

\* finalizeRoom up to its await.
LEMMA FinishRoomLinks ==
  ASSUME HubFacts, LinkInv, NEW r \in RoomIds, NEW rm \in Room, rm.seats = rooms[r].seats,
         Registered' = Registered, FinishRoom(r, rm)
  PROVE  LinkInv'
<1>1. FinishedRoom(rm) \in Room /\ FinishedRoom(rm).seats = rm.seats
  BY RoomOpsTyped DEF FinishedRoom, Room
<1>2. CASE rm.guest
  <2> DEFINE gone == [FinishedRoom(rm) EXCEPT !.finishing = FALSE]
  <2>1. gone.finishing = FALSE /\ Seated(gone) = Seated(rooms[r])
    BY <1>1 DEF Room, Seated
  <2>2. RemoveRoom(r, gone)
    BY <1>2 DEF FinishRoom
  <2> HIDE DEF gone
  <2> QED BY <2>1, <2>2, RemoveRoomLinks
<1>3. CASE ~rm.guest
  <2>1. /\ rooms' = [rooms EXCEPT ![r] = FinishedRoom(rm)]
        /\ roomOf' = roomOf /\ live' = live /\ drain' = drain
    BY <1>3 DEF FinishRoom
  <2>2. FinishedRoom(rm).session.state = "finished"
    BY DEF FinishedRoom, SessionFinish, Room, Session
  <2>3. SameLinks
    BY <1>1, <2>1, <2>2, LinkFacts DEF SameLinks, RoomTypes
  <2> QED BY <2>3, SameLinksKeep
<1> QED BY <1>2, <1>3

\* The operations on a room between createRoom and its end.
LEMMA OpsKeepLinks ==
  ASSUME NEW rm \in Room
  PROVE  /\ \A side \in Sides :
               LET new == ReadyRoom(rm, side)
               IN  /\ new.seats = rm.seats
                   /\ new.session.state = "finished" <=> rm.session.state = "finished"
                   /\ new.session.disconnected = rm.session.disconnected
         /\ \A new \in {RearmedRoom(rm), AgedRoom(rm), [rm EXCEPT !.finishing = FALSE]} :
                   /\ new.seats = rm.seats
                   /\ new.session.state = "finished" <=> rm.session.state = "finished"
                   /\ new.session.disconnected = rm.session.disconnected
         /\ \A s \in {SessionPause(rm.session), SessionResume(rm.session)} :
                   /\ s.state = "finished" <=> rm.session.state = "finished"
                   /\ s.disconnected = rm.session.disconnected
<1>0. rm.session \in Session
  BY DEF Room
<1>1. ASSUME NEW side \in Sides
      PROVE  LET new == ReadyRoom(rm, side)
             IN  /\ new.seats = rm.seats
                 /\ new.session.state = "finished" <=> rm.session.state = "finished"
                 /\ new.session.disconnected = rm.session.disconnected
  <2> DEFINE s == SessionMarkReady(rm.session, side)
             new == ReadyRoom(rm, side)
  <2>1. new.seats = rm.seats /\ new.session = s
    BY DEF ReadyRoom, Room
  <2>2. /\ s.state = "finished" <=> rm.session.state = "finished"
        /\ s.disconnected = rm.session.disconnected
    BY <1>0 DEF SessionMarkReady, Session
  <2> QED BY <2>1, <2>2
<1>2. ASSUME NEW new \in {RearmedRoom(rm), AgedRoom(rm), [rm EXCEPT !.finishing = FALSE]}
      PROVE  /\ new.seats = rm.seats
             /\ new.session.state = "finished" <=> rm.session.state = "finished"
             /\ new.session.disconnected = rm.session.disconnected
  BY <1>0 DEF RearmedRoom, AgedRoom, Room, Session
<1>3. ASSUME NEW s \in {SessionPause(rm.session), SessionResume(rm.session)}
      PROVE  /\ s.state = "finished" <=> rm.session.state = "finished"
             /\ s.disconnected = rm.session.disconnected
  BY <1>0 DEF SessionPause, SessionResume, Session
<1> QED BY <1>1, <1>2, <1>3

\* A connection that names no room has no seat, and one in a room has one.
LEMMA SeatOrNoRoom ==
  ASSUME HubFacts, LinkInv, NEW c \in Registered
  PROVE  /\ ~HasSeat(c) => roomOf[c] = NoRoom
         /\ roomOf[c] = NoRoom => \A r \in live : c \notin Seated(rooms[r])
<1>1. c \in Conns
  BY LinkFacts
<1>2. ASSUME roomOf[c] # NoRoom PROVE HasSeat(c)
  <2> DEFINE r == roomOf[c]
  <2>1. r \in live /\ r \in RoomIds /\ c \in Seated(rooms[r])
    BY <1>2, LinkFacts DEF LinkInv, RoomTypes
  <2>2. PICK side \in Sides : rooms[r].seats[side] = c
    BY <2>1, LinkFacts
  <2> QED BY <2>1, <2>2 DEF HasSeat, Holds
<1>3. ASSUME roomOf[c] = NoRoom, NEW r \in live PROVE c \notin Seated(rooms[r])
  BY <1>3, SeatNamesRoom, LinkFacts DEF RoomTypes
<1> QED BY <1>2, <1>3

\* A seat passes from one connection to another, or its loss is recorded: the
\* four facts a change of connections has to bring about.
LEMMA ReseatedLinks ==
  ASSUME HubFacts, LinkInv, live' = live, drain' = drain, drain # "closed",
         NEW r \in live, NEW side \in Sides, NEW c \in Conns, NEW lost \in Conns,
         NEW new, rooms' = [rooms EXCEPT ![r] = new],
         rooms[r].seats[side] = lost, c # lost, \A q \in RoomIds : c \notin Seated(rooms[q]),
         new.seats = [rooms[r].seats EXCEPT ![side] = c],
         new.session.state # "finished" =>
            /\ rooms[r].session.state # "finished"
            /\ new.session.disconnected = rooms[r].session.disconnected \ {side},
         c \notin Registered,
         Registered' = (Registered \cup {c}) \ {lost},
         roomOf' = [roomOf EXCEPT ![c] = r, ![lost] = NoRoom]
  PROVE  LinkInv'
<1>0. r \in RoomIds
  BY LinkFacts DEF RoomTypes
<1>1. /\ rooms'[r] = new /\ \A q \in RoomIds \ {r} : rooms'[q] = rooms[q]
  BY <1>0, LinkFacts DEF RoomTypes
<1>2. /\ roomOf'[c] = r /\ roomOf'[lost] = NoRoom
      /\ \A d \in Conns \ {c, lost} : roomOf'[d] = roomOf[d]
  BY LinkFacts DEF ConnTypes
<1>3. LinkedSeats(r) /\ lost \in Seated(rooms[r])
  BY LinkFacts DEF LinkInv, Seated
<1>4. /\ new.seats[side] = c
      /\ \A other \in Sides \ {side} : /\ new.seats[other] = rooms[r].seats[other]
                                       /\ new.seats[other] # c /\ new.seats[other] # lost
  <2>1. new.seats[side] = c /\ \A other \in Sides \ {side} : new.seats[other] = rooms[r].seats[other]
    BY <1>0, LinkFacts
  <2>2. \A other \in Sides \ {side} : rooms[r].seats[other] # lost
    BY <1>3 DEF LinkedSeats, Sides
  <2>3. \A other \in Sides \ {side} : rooms[r].seats[other] # c
    BY <1>0, LinkFacts DEF Seated
  <2> QED BY <2>1, <2>2, <2>3
<1>5. LinkedSeats(r)'
  <2>1. new.seats["left"] # new.seats["right"]
    BY <1>4 DEF Sides
  <2>2. ASSUME NEW other \in Sides, new.seats[other] # NoConn
        PROVE  /\ roomOf'[new.seats[other]] = r
               /\ new.session.state # "finished" =>
                    (other \in new.session.disconnected <=> new.seats[other] \notin Registered')
    <3>1. CASE other = side
      BY <1>2, <1>4, <3>1
    <3>2. CASE other # side
      <4>1. /\ new.seats[other] = rooms[r].seats[other] /\ new.seats[other] \in Conns \ {c, lost}
        BY <1>0, <1>4, <2>2, <3>2, LinkFacts
      <4>2. new.seats[other] \in Registered' <=> rooms[r].seats[other] \in Registered
        BY <4>1
      <4> QED BY <1>2, <1>3, <2>2, <3>2, <4>1, <4>2 DEF LinkedSeats
    <3> QED BY <3>1, <3>2
  <2> QED BY <1>1, <2>1, <2>2 DEF LinkedSeats
<1>6. ASSUME NEW q \in live \ {r} PROVE LinkedSeats(q)'
  <2>1. q \in RoomIds /\ rooms'[q] = rooms[q] /\ LinkedSeats(q)
    BY <1>1, <1>6, LinkFacts DEF LinkInv, RoomTypes
  <2>2. ASSUME NEW other \in Sides, rooms[q].seats[other] # NoConn
        PROVE  /\ roomOf'[rooms[q].seats[other]] = q
               /\ rooms[q].seats[other] \in Registered' <=> rooms[q].seats[other] \in Registered
    <3>1. rooms[q].seats[other] \in Seated(rooms[q]) /\ rooms[q].seats[other] \in Conns
      BY <2>1, <2>2, LinkFacts DEF Seated
    <3>2. rooms[q].seats[other] # c
      BY <2>1, <3>1
    <3>3. rooms[q].seats[other] # lost
      BY <1>3, <1>6, <3>1, SeatNamesRoom
    <3>4. roomOf[rooms[q].seats[other]] = q
      BY <1>6, <3>1, SeatNamesRoom
    <3> QED BY <1>2, <3>1, <3>2, <3>3, <3>4
  <2> QED BY <2>1, <2>2 DEF LinkedSeats
<1>7. ASSUME NEW d \in Registered', roomOf'[d] # NoRoom
      PROVE  roomOf'[d] \in live' /\ d \in Seated(rooms'[roomOf'[d]])
  <2>1. CASE d = c
    <3>1. c \in Seated(new)
      BY <1>4, LinkFacts DEF Seated
    <3>2. roomOf'[d] = r /\ rooms'[roomOf'[d]] = new
      BY <1>1, <1>2, <2>1
    <3> QED BY <2>1, <3>1, <3>2
  <2>2. CASE d # c
    <3>1. d \in Registered /\ d \in Conns /\ d # lost /\ roomOf'[d] = roomOf[d]
      BY <1>2, <1>7, <2>2, LinkFacts
    <3>2. roomOf[d] \in live /\ roomOf[d] \in RoomIds /\ d \in Seated(rooms[roomOf[d]])
      BY <1>7, <3>1, LinkFacts DEF LinkInv, RoomTypes
    <3>3. CASE roomOf[d] = r
      <4>1. PICK other \in Sides : rooms[r].seats[other] = d
        BY <3>2, <3>3, LinkFacts
      <4>2. other # side /\ new.seats[other] = d
        BY <1>4, <3>1, <4>1
      <4>3. d \in Seated(new)
        BY <3>1, <4>2, LinkFacts DEF Seated
      <4>4. roomOf'[d] = r /\ rooms'[roomOf'[d]] = new
        BY <1>1, <3>1, <3>3
      <4> QED BY <4>3, <4>4
    <3>4. CASE roomOf[d] # r
      <4>1. rooms'[roomOf[d]] = rooms[roomOf[d]]
        BY <1>1, <3>2, <3>4
      <4> QED BY <3>1, <3>2, <4>1
    <3> QED BY <3>3, <3>4
  <2> QED BY <2>1, <2>2
<1>8. \A q \in RoomIds \ live' : Seated(rooms'[q]) # {} => drain' = "closed"
  BY <1>1 DEF LinkInv
<1> QED BY <1>5, <1>6, <1>7, <1>8 DEF LinkInv

\* Connections without a seat come and go.
LEMMA UnseatedLinks ==
  ASSUME HubFacts, LinkInv, live' = live, drain' = drain, drain # "closed", rooms' = rooms,
         Registered' \subseteq Conns,
         \A d \in Conns :
            \/ roomOf'[d] = roomOf[d] /\ (d \in Registered' <=> d \in Registered)
            \/ roomOf'[d] = NoRoom /\ \A q \in live : d \notin Seated(rooms[q])
  PROVE  LinkInv'
<1>1. ASSUME NEW q \in live PROVE LinkedSeats(q)'
  <2>1. q \in RoomIds /\ LinkedSeats(q)
    BY LinkFacts DEF LinkInv, RoomTypes
  <2>2. ASSUME NEW side \in Sides, rooms[q].seats[side] # NoConn
        PROVE  /\ roomOf'[rooms[q].seats[side]] = roomOf[rooms[q].seats[side]]
               /\ rooms[q].seats[side] \in Registered' <=> rooms[q].seats[side] \in Registered
    <3>1. rooms[q].seats[side] \in Seated(rooms[q]) /\ rooms[q].seats[side] \in Conns
      BY <2>1, <2>2, LinkFacts DEF Seated
    <3> QED BY <3>1
  <2> QED BY <2>1, <2>2 DEF LinkedSeats
<1>2. \A d \in Registered' : roomOf'[d] # NoRoom =>
          roomOf'[d] \in live' /\ d \in Seated(rooms'[roomOf'[d]])
  BY DEF LinkInv
<1>3. \A q \in RoomIds \ live' : Seated(rooms'[q]) # {} => drain' = "closed"
  BY DEF LinkInv
<1> QED BY <1>1, <1>2, <1>3 DEF LinkInv

\* A connection with a seat is lost.
LEMMA LostLinks ==
  ASSUME HubFacts, LinkInv, live' = live, drain' = drain, drain # "closed", roomOf' = roomOf,
         NEW r \in live, NEW side \in Sides, NEW c \in Conns, rooms[r].seats[side] = c,
         rooms' = [rooms EXCEPT ![r] = ReservedRoom(rooms[r], side)],
         Registered' = Registered \ {c}
  PROVE  LinkInv'
<1> DEFINE new == ReservedRoom(rooms[r], side)
<1>0. r \in RoomIds /\ rooms[r] \in Room /\ rooms[r].session \in Session
  BY LinkFacts DEF RoomTypes, Room
<1>1. /\ new.seats = rooms[r].seats
      /\ new.session.state # "finished" =>
            /\ rooms[r].session.state # "finished"
            /\ new.session.disconnected = rooms[r].session.disconnected \cup {side}
  <2>1. CASE rooms[r].finishing \/ rooms[r].session.state = "finished"
    BY <1>0, <2>1, LinkFacts DEF ReservedRoom, RoomShape
  <2>2. CASE ~(rooms[r].finishing \/ rooms[r].session.state = "finished")
    <3>1. /\ new.seats = rooms[r].seats
          /\ new.session = SessionDisconnect(rooms[r].session, side, 0)
      BY <1>0, <2>2 DEF ReservedRoom, Room
    <3>2. SessionDisconnect(rooms[r].session, side, 0).disconnected
             = rooms[r].session.disconnected \cup {side}
      BY <1>0, <2>2 DEF SessionDisconnect, Session
    <3> QED BY <2>2, <3>1, <3>2
  <2> QED BY <2>1, <2>2
<1> HIDE DEF new
<1>2. /\ rooms'[r] = new /\ \A q \in RoomIds \ {r} : rooms'[q] = rooms[q]
  BY <1>0, LinkFacts DEF RoomTypes, new
<1>3. LinkedSeats(r) /\ c \in Seated(rooms[r])
  BY LinkFacts DEF LinkInv, Seated
<1>4. \A other \in Sides \ {side} : rooms[r].seats[other] # c
  BY <1>3 DEF LinkedSeats, Sides
<1>5. LinkedSeats(r)'
  <2>1. new.seats["left"] # new.seats["right"]
    BY <1>1, <1>3 DEF LinkedSeats
  <2>2. ASSUME NEW other \in Sides, new.seats[other] # NoConn
        PROVE  /\ roomOf'[new.seats[other]] = r
               /\ new.session.state # "finished" =>
                    (other \in new.session.disconnected <=> new.seats[other] \notin Registered')
    <3>1. CASE other = side
      BY <1>1, <1>3, <2>2, <3>1 DEF LinkedSeats
    <3>2. CASE other # side
      <4>1. new.seats[other] = rooms[r].seats[other] /\ new.seats[other] # c
        BY <1>1, <1>4, <3>2
      <4> QED BY <1>1, <1>3, <2>2, <3>2, <4>1 DEF LinkedSeats
    <3> QED BY <3>1, <3>2
  <2> QED BY <1>2, <2>1, <2>2 DEF LinkedSeats
<1>6. ASSUME NEW q \in live \ {r} PROVE LinkedSeats(q)'
  <2>1. q \in RoomIds /\ rooms'[q] = rooms[q] /\ LinkedSeats(q)
    BY <1>2, <1>6, LinkFacts DEF LinkInv, RoomTypes
  <2>2. ASSUME NEW other \in Sides, rooms[q].seats[other] # NoConn
        PROVE  rooms[q].seats[other] \in Registered' <=> rooms[q].seats[other] \in Registered
    <3>1. rooms[q].seats[other] \in Seated(rooms[q])
      BY <2>2 DEF Seated
    <3>2. rooms[q].seats[other] # c
      BY <1>3, <1>6, <3>1, SeatNamesRoom
    <3> QED BY <3>2
  <2> QED BY <2>1, <2>2 DEF LinkedSeats
<1>7. \A q \in RoomIds : Seated(rooms'[q]) = Seated(rooms[q])
  BY <1>1, <1>2 DEF Seated
<1>8. ASSUME NEW d \in Registered', roomOf'[d] # NoRoom
      PROVE  roomOf'[d] \in live' /\ d \in Seated(rooms'[roomOf'[d]])
  BY <1>7, <1>8, LinkFacts DEF LinkInv, RoomTypes
<1>9. \A q \in RoomIds \ live' : Seated(rooms'[q]) # {} => drain' = "closed"
  BY <1>7 DEF LinkInv
<1> QED BY <1>5, <1>6, <1>8, <1>9 DEF LinkInv

LEMMA ConnectionStepsLinks ==
  ASSUME HubFacts, LinkInv, NEW c \in Conns,
         Connecting(c) \/ SocketCloses(c) \/ Disconnect(c)
  PROVE  LinkInv'
<1>0. /\ ConnTypes /\ RoomTypes /\ UserOf[c] \in Users /\ UserOf \in [Conns -> Users]
      /\ Registered' = {d \in Conns : socket'[d] # "gone"}
  BY LinkFacts DEF Registered
<1>1. CASE ConnectReplacing(c)
  <2> DEFINE previous == byUser[UserOf[c]]
  <2>1. /\ previous \in Registered /\ previous \in Conns /\ UserOf[previous] = UserOf[c]
        /\ socket[c] = "gone" /\ c # previous /\ c \notin Registered
        /\ \A q \in RoomIds : c \notin Seated(rooms[q])
    BY <1>0, <1>1 DEF ConnectReplacing, FreeConn, HubFacts, OneConnectionPerUser, Registered
  <2>2. /\ live' = live /\ drain' = drain /\ drain # "closed"
        /\ Registered' = (Registered \cup {c}) \ {previous}
    <3>1. socket' = [socket EXCEPT ![c] = "open", ![previous] = "gone"]
      BY <1>1 DEF ConnectReplacing, SocketsReplaced
    <3>2. Registered' = (Registered \cup {c}) \ {previous}
      BY <1>0, <2>1, <3>1 DEF Registered, ConnTypes
    <3> QED BY <1>1, <3>2 DEF ConnectReplacing, hubVars
  <2>3. ASSUME NEW r \in RoomIds, NEW side \in Sides, Holds(previous, r, side),
               rooms' = [rooms EXCEPT ![r].seats[side] = c],
               roomOf' = [roomOf EXCEPT ![c] = r, ![previous] = NoRoom]
        PROVE  LinkInv'
    <3> DEFINE new == [rooms[r] EXCEPT !.seats[side] = c]
    <3>1. r \in live /\ rooms[r].seats[side] = previous
      BY <2>3 DEF Holds
    <3>2. /\ new.seats = [rooms[r].seats EXCEPT ![side] = c]
          /\ new.session = rooms[r].session /\ rooms' = [rooms EXCEPT ![r] = new]
      BY <2>3, LinkFacts DEF Room
    <3>3. new.session.state # "finished" =>
             rooms[r].session.disconnected = rooms[r].session.disconnected \ {side}
      BY <2>1, <3>1, <3>2, LinkFacts DEF LinkInv, LinkedSeats
    <3>4. new.session.state # "finished" =>
             /\ rooms[r].session.state # "finished"
             /\ new.session.disconnected = rooms[r].session.disconnected \ {side}
      BY <3>2, <3>3
    <3> HIDE DEF new, previous
    <3>5. roomOf' = [roomOf EXCEPT ![c] = r, ![previous] = NoRoom]
      BY <2>3
    <3> QED BY <2>1, <2>2, <3>1, <3>2, <3>4, <3>5, ReseatedLinks
  <2>4. ASSUME ~HasSeat(previous), roomOf' = [roomOf EXCEPT ![c] = NoRoom], UNCHANGED rooms
        PROVE  LinkInv'
    <3>1. roomOf[previous] = NoRoom /\ \A q \in live : previous \notin Seated(rooms[q])
      BY <2>1, <2>4, SeatOrNoRoom
    <3>2. Registered' \subseteq Conns
      BY <1>0
    <3>3. ASSUME NEW d \in Conns
          PROVE  \/ roomOf'[d] = roomOf[d] /\ (d \in Registered' <=> d \in Registered)
                 \/ roomOf'[d] = NoRoom /\ \A q \in live : d \notin Seated(rooms[q])
      <4>1. CASE d \in {c, previous}
        BY <1>0, <2>1, <2>4, <3>1, <4>1 DEF ConnTypes, RoomTypes
      <4>2. CASE d \notin {c, previous}
        BY <1>0, <2>2, <2>4, <4>2 DEF ConnTypes
      <4> QED BY <4>1, <4>2
    <3> QED BY <2>2, <2>4, <3>2, <3>3, UnseatedLinks
  <2> QED BY <1>1, <2>3, <2>4 DEF ConnectReplacing
<1>2. CASE ConnectRecovering(c)
  <2>1. PICK r \in RoomIds, side \in Sides :
           /\ Recoverable(UserOf[c], r, side)
           /\ rooms' = [rooms EXCEPT ![r] = RecoveredRoom(rooms[r], side, c)]
           /\ roomOf' = [roomOf EXCEPT ![rooms[r].seats[side]] = NoRoom, ![c] = r]
    BY <1>2 DEF ConnectRecovering
  <2> DEFINE new == RecoveredRoom(rooms[r], side, c)
             lost == rooms[r].seats[side]
  <2>2. /\ r \in live /\ side \in rooms[r].away
        /\ SessionReconnects(rooms[r].session, side, 0)
    BY <2>1 DEF Recoverable
  <2>3. rooms[r] \in Room /\ rooms[r].session \in Session
    BY LinkFacts DEF Room
  <2>4. lost \in Conns
    BY <2>2, LinkFacts DEF SeatInv
  <2>5. /\ side \in rooms[r].session.disconnected /\ rooms[r].session.state # "finished"
    BY <2>2 DEF SessionReconnects
  <2>6. lost \notin Registered
    BY <2>2, <2>4, <2>5, LinkFacts DEF LinkInv, LinkedSeats
  <2>7. /\ c \notin Registered /\ \A q \in RoomIds : c \notin Seated(rooms[q])
    BY <1>2 DEF ConnectRecovering, FreeConn, Registered
  <2>8. c # lost
    BY <2>4, <2>7, LinkFacts DEF Seated
  <2>9. /\ new.seats = [rooms[r].seats EXCEPT ![side] = c]
        /\ new.session = SessionReconnect(rooms[r].session, side)
    BY <2>3 DEF RecoveredRoom, Room
  <2>10. new.session.disconnected = rooms[r].session.disconnected \ {side}
    BY <2>3, <2>9 DEF SessionReconnect, Session
  <2>11. Registered' = (Registered \cup {c}) \ {lost}
    <3>1. socket' = [socket EXCEPT ![c] = "open"]
      BY <1>2 DEF ConnectRecovering
    <3> QED BY <1>0, <2>6, <2>8, <3>1 DEF Registered, ConnTypes
  <2>12. live' = live /\ drain' = drain /\ drain # "closed"
    BY <1>2 DEF ConnectRecovering, hubVars
  <2> HIDE DEF new, lost
  <2>13. /\ rooms' = [rooms EXCEPT ![r] = new]
         /\ roomOf' = [roomOf EXCEPT ![c] = r, ![lost] = NoRoom]
    <3>1. rooms' = [rooms EXCEPT ![r] = new]
      BY <2>1 DEF new
    <3>2. roomOf' = [roomOf EXCEPT ![lost] = NoRoom, ![c] = r]
      BY <2>1 DEF lost
    <3>3. roomOf' = [roomOf EXCEPT ![c] = r, ![lost] = NoRoom]
      BY <1>0, <2>4, <2>8, <3>2 DEF ConnTypes
    <3> QED BY <3>1, <3>3
  <2>14. rooms[r].seats[side] = lost
    BY DEF lost
  <2> QED BY <2>2, <2>4, <2>5, <2>7, <2>8, <2>9, <2>10, <2>11, <2>12, <2>13, <2>14, ReseatedLinks
<1>3. CASE ConnectFresh(c)
  <2>1. /\ live' = live /\ drain' = drain /\ drain # "closed" /\ rooms' = rooms
        /\ socket' = [socket EXCEPT ![c] = "open"] /\ roomOf' = [roomOf EXCEPT ![c] = NoRoom]
        /\ \A q \in RoomIds : c \notin Seated(rooms[q])
    BY <1>3 DEF ConnectFresh, FreeConn, hubVars, roomVars
  <2>2. Registered' \subseteq Conns
    BY <1>0
  <2>3. ASSUME NEW d \in Conns
        PROVE  \/ roomOf'[d] = roomOf[d] /\ (d \in Registered' <=> d \in Registered)
               \/ roomOf'[d] = NoRoom /\ \A q \in live : d \notin Seated(rooms[q])
    BY <1>0, <2>1 DEF Registered, ConnTypes, RoomTypes
  <2> QED BY <2>1, <2>2, <2>3, UnseatedLinks
<1>4. CASE SocketCloses(c)
  <2>1. Registered' = Registered
    BY <1>0, <1>4 DEF SocketCloses, Registered, ConnTypes
  <2>2. SameLinks
    BY <1>4, <2>1 DEF SocketCloses, SameLinks, hubVars, roomVars
  <2> QED BY <2>2, SameLinksKeep
<1>5. CASE Disconnect(c)
  <2>1. c \in Registered /\ Registered' = Registered \ {c}
    BY <1>0, <1>5 DEF Disconnect, Registered, ConnTypes
  <2>2. live' = live /\ drain' = drain /\ drain # "closed" /\ roomOf' = roomOf
    BY <1>5, <2>1 DEF Disconnect, hubVars, LinkInv
  <2>3. ASSUME NEW r \in RoomIds, NEW side \in Sides, Holds(c, r, side),
               rooms' = [rooms EXCEPT ![r] = ReservedRoom(rooms[r], side)]
        PROVE  LinkInv'
    <3>1. r \in live /\ rooms[r].seats[side] = c
      BY <2>3 DEF Holds
    <3> QED BY <2>1, <2>2, <2>3, <3>1, LostLinks
  <2>4. ASSUME ~HasSeat(c), UNCHANGED rooms PROVE LinkInv'
    <3>1. roomOf[c] = NoRoom /\ \A q \in live : c \notin Seated(rooms[q])
      BY <2>1, <2>4, SeatOrNoRoom
    <3>2. Registered' \subseteq Conns
      BY <1>0
    <3>3. ASSUME NEW d \in Conns
          PROVE  \/ roomOf'[d] = roomOf[d] /\ (d \in Registered' <=> d \in Registered)
                 \/ roomOf'[d] = NoRoom /\ \A q \in live : d \notin Seated(rooms[q])
      BY <2>1, <2>2, <3>1
    <3> QED BY <2>2, <2>4, <3>2, <3>3, UnseatedLinks
  <2> QED BY <1>5, <2>3, <2>4 DEF Disconnect
<1> QED BY <1>1, <1>2, <1>3, <1>4, <1>5 DEF Connecting

-----------------------------------------------------------------------------
(* Reservations *)

\* The array and the status map of the matchmaker tell the same.
QueueStatus(m) == m.queue = {u \in Users : m.status[u] = "queued"}

\* The first half of MatchmakerBacked.
ReservationsBacked ==
    \A u \in Users : mm.status[u] = "matched" =>
        \/ \E r \in live : u \in SeatedUsers(rooms[r])
        \/ fallback[u] = "lookup"

ReservationInv == QueueStatus(mm) /\ ReservationsBacked

LEMMA ReassignStatus ==
  ASSUME NEW m \in MatchmakerState, QueueStatus(m), NEW U \in SUBSET Users
  PROVE  \A st \in {"none", "matched"} :
           /\ QueueStatus(Reassign(m, U, st)) /\ Reassign(m, U, st).queue = m.queue \ U
           /\ \A u \in Users : Reassign(m, U, st).status[u] = IF u \in U THEN st ELSE m.status[u]
<1> TAKE st \in {"none", "matched"}
<1>1. /\ Reassign(m, U, st).queue = m.queue \ U
      /\ \A u \in Users : Reassign(m, U, st).status[u] = IF u \in U THEN st ELSE m.status[u]
  BY ReassignFacts
<1> HIDE DEF Reassign
<1> QED BY <1>1 DEF QueueStatus

\* What the matchmaker keeps after leaveQueue() of the users U: none of them is
\* queued, and none of them is matched who had an entry.
LEMMA LeavingStatus ==
  ASSUME EntryTypes, MmTypes, QueueStatus(mm), NEW U \in SUBSET Users
  PROVE  LET m == MmAfterLeaving(U)
         IN  /\ m \in MatchmakerState /\ QueueStatus(m) /\ m.queue = mm.queue \ U
             /\ \A u \in Users : m.status[u] = "matched" =>
                   mm.status[u] = "matched" /\ (u \in U => fallback[u] = "off")
<1> DEFINE gone == {u \in U : mm.status[u] = "queued"}
           held == {u \in U : mm.status[u] = "matched" /\ entries[u] # NoConn}
           n == Left(mm, gone)
           m == MmAfterLeaving(U)
<1>1. mm \in MatchmakerState /\ gone \in SUBSET Users /\ held \in SUBSET Users
  BY DEF MmTypes
<1>2. n = Reassign(mm, gone, "none")
  <2>1. {u \in gone : mm.status[u] = "queued"} = gone
    OBVIOUS
  <2> QED BY <2>1 DEF Left
<1>3. m = Reassign(n, held, "none")
  BY DEF MmAfterLeaving, Released
<1> HIDE DEF gone, held, n, m
<1>4. /\ n \in MatchmakerState /\ QueueStatus(n) /\ n.queue = mm.queue \ gone
      /\ \A u \in Users : n.status[u] = IF u \in gone THEN "none" ELSE mm.status[u]
  BY <1>1, <1>2, ReassignStatus, ReassignFacts
<1>5. /\ m \in MatchmakerState /\ QueueStatus(m) /\ m.queue = n.queue \ held
      /\ \A u \in Users : m.status[u] = IF u \in held THEN "none" ELSE n.status[u]
  BY <1>1, <1>3, <1>4, ReassignStatus, ReassignFacts
<1>6. m.queue = mm.queue \ U
  BY <1>4, <1>5 DEF gone, held, QueueStatus
<1>7. ASSUME NEW u \in Users, m.status[u] = "matched"
      PROVE  mm.status[u] = "matched" /\ (u \in U => fallback[u] = "off")
  <2>1. u \notin held /\ u \notin gone /\ mm.status[u] = "matched"
    BY <1>4, <1>5, <1>7
  <2>2. u \in U => entries[u] = NoConn
    BY <2>1 DEF held
  <2> QED BY <2>1, <2>2 DEF EntryTypes
<1> QED BY <1>5, <1>6, <1>7 DEF m

\* Nobody loses the last seat.
UsersStay ==
    \A r \in live : \A u \in SeatedUsers(rooms[r]) :
        \E q \in live' : u \in SeatedUsers(rooms'[q])

LEMMA ReservationsKept ==
  ASSUME ReservationsBacked, UsersStay,
         \A u \in Users : mm'.status[u] = "matched" =>
            \/ mm.status[u] = "matched" /\ (fallback[u] = "lookup" => fallback'[u] = "lookup")
            \/ \E r \in live' : u \in SeatedUsers(rooms'[r])
            \/ fallback'[u] = "lookup"
  PROVE  ReservationsBacked'
  BY DEF ReservationsBacked, UsersStay

LEMMA SameUsersStay ==
  ASSUME live \subseteq live', \A r \in live : rooms'[r].seats = rooms[r].seats
  PROVE  UsersStay
  BY DEF UsersStay, SeatedUsers, Seated

LEMMA LeaveQueuesReservations ==
  ASSUME EntryTypes, MmTypes, ReservationInv, UsersStay,
         NEW U \in SUBSET Users, LeaveQueues(U)
  PROVE  ReservationInv'
<1>1. /\ QueueStatus(mm')
      /\ \A u \in Users : mm'.status[u] = "matched" =>
            mm.status[u] = "matched" /\ (u \in U => fallback[u] = "off")
  BY LeavingStatus DEF LeaveQueues, ReservationInv
<1>2. \A u \in Users \ U : fallback'[u] = fallback[u]
  BY DEF LeaveQueues, DropEntries, FallbackAfterLeaving
<1>3. ReservationsBacked'
  BY <1>1, <1>2, ReservationsKept DEF ReservationInv
<1> QED BY <1>1, <1>3 DEF ReservationInv

LEMMA SameReservations ==
  ASSUME ReservationInv, UsersStay, mm' = mm, fallback' = fallback
  PROVE  ReservationInv'
<1>1. ReservationsBacked'
  BY ReservationsKept DEF ReservationInv
<1> QED BY <1>1 DEF ReservationInv, QueueStatus

\* Users are released, those whose seat or query goes among them.
LEMMA ReleasedReservations ==
  ASSUME MmTypes, ReservationInv, NEW U \in SUBSET Users, mm' = Released(mm, U),
         \A r \in live : \A u \in SeatedUsers(rooms[r]) :
            u \in U \/ \E q \in live' : u \in SeatedUsers(rooms'[q]),
         \A u \in Users \ U : fallback[u] = "lookup" => fallback'[u] = "lookup"
  PROVE  ReservationInv'
<1>1. /\ QueueStatus(mm')
      /\ \A u \in Users : mm'.status[u] = IF u \in U THEN "none" ELSE mm.status[u]
  BY ReassignStatus DEF Released, MmTypes, ReservationInv
<1>2. ReservationsBacked'
  BY <1>1 DEF ReservationInv, ReservationsBacked
<1> QED BY <1>1, <1>2 DEF ReservationInv

LEMMA RemoveRoomReservations ==
  ASSUME RoomTypes, MmTypes, ReservationInv, NEW r \in RoomIds, NEW rm,
         rm.seats = rooms[r].seats, RemoveRoom(r, rm), fallback' = fallback
  PROVE  ReservationInv'
<1>1. SeatedUsers(rm) = SeatedUsers(rooms[r]) /\ SeatedUsers(rm) \in SUBSET Users
  <2>1. rooms[r] \in Room
    BY DEF RoomTypes
  <2>2. SeatedUsers(rm) = SeatedUsers(rooms[r])
    BY DEF SeatedUsers, Seated
  <2> QED BY <2>1, <2>2, SeatedFacts
<1>2. /\ mm' = Released(mm, SeatedUsers(rm)) /\ live' = live \ {r}
      /\ \A q \in live \ {r} : rooms'[q] = rooms[q]
  BY DEF RemoveRoom, RoomTypes
<1>3. \A q \in live : \A u \in SeatedUsers(rooms[q]) :
         u \in SeatedUsers(rm) \/ \E p \in live' : u \in SeatedUsers(rooms'[p])
  BY <1>1, <1>2
<1> DEFINE U == SeatedUsers(rm)
<1>4. U \in SUBSET Users /\ mm' = Released(mm, U)
  BY <1>1, <1>2
<1>5. /\ \A q \in live : \A u \in SeatedUsers(rooms[q]) :
            u \in U \/ \E p \in live' : u \in SeatedUsers(rooms'[p])
      /\ \A u \in Users \ U : fallback[u] = "lookup" => fallback'[u] = "lookup"
  BY <1>3
<1> HIDE DEF U
<1> QED BY <1>4, <1>5, ReleasedReservations

LEMMA FinishRoomReservations ==
  ASSUME RoomTypes, MmTypes, ReservationInv, NEW r \in RoomIds, NEW rm \in Room,
         rm.seats = rooms[r].seats, FinishRoom(r, rm), fallback' = fallback
  PROVE  ReservationInv'
<1>1. FinishedRoom(rm) \in Room /\ FinishedRoom(rm).seats = rm.seats
  BY RoomOpsTyped DEF FinishedRoom, Room
<1>2. CASE rm.guest
  <2>1. [FinishedRoom(rm) EXCEPT !.finishing = FALSE].seats = rooms[r].seats
    BY <1>1 DEF Room
  <2> QED BY <1>2, <2>1, RemoveRoomReservations DEF FinishRoom
<1>3. CASE ~rm.guest
  <2>1. rooms' = [rooms EXCEPT ![r] = FinishedRoom(rm)] /\ live' = live /\ mm' = mm
    BY <1>3 DEF FinishRoom
  <2>2. UsersStay
    BY <1>1, <2>1, SameUsersStay DEF RoomTypes
  <2> QED BY <2>1, <2>2, SameReservations
<1> QED BY <1>2, <1>3

\* Who sits in a new room, and that the others keep their seats.
LEMMA CreateRoomUsers ==
  ASSUME RoomTypes, NEW r \in RoomIds, NEW left \in Conns, NEW right, NEW match,
         CreateRoom(r, left, right, match)
  PROVE  /\ UsersStay /\ r \in live'
         /\ UserOf[left] \in SeatedUsers(rooms'[r])
         /\ right \in Conns => UserOf[right] \in SeatedUsers(rooms'[r])
<1> DEFINE new == NewRoom(left, right, match)
<1>1. new.seats["left"] = left /\ new.seats["right"] = right
  BY DEF NewRoom, Sides
<1> HIDE DEF new
<1>2. /\ r \notin live /\ live' = live \cup {r} /\ rooms' = [rooms EXCEPT ![r] = new]
  BY DEF CreateRoom, FreeRoom, new
<1>3. rooms'[r] = new /\ \A q \in live : rooms'[q].seats = rooms[q].seats
  BY <1>2 DEF RoomTypes
<1>4. UsersStay
  BY <1>2, <1>3, SameUsersStay
<1>5. Seated(rooms'[r]) = {left, right} \ {NoConn}
  BY <1>1, <1>3 DEF Seated, Sides
<1> QED BY <1>2, <1>4, <1>5, GameHubAssumption DEF SeatedUsers

LEMMA ConnectionStepsReservations ==
  ASSUME HubFacts, ReservationInv, NEW c \in Conns,
         Connecting(c) \/ SocketCloses(c) \/ Disconnect(c)
  PROVE  ReservationInv'
<1>0. /\ ConnTypes /\ EntryTypes /\ MmTypes /\ RoomTypes /\ {UserOf[c]} \in SUBSET Users
      /\ \A r \in live : r \in RoomIds /\ rooms[r].seats \in [Sides -> Conns \cup {NoConn}]
  BY LinkFacts DEF RoomTypes
\* One seat of the room r goes to another connection of the same user.
<1>1. ASSUME NEW r \in RoomIds, NEW side \in Sides, NEW new, live' = live,
             rooms' = [rooms EXCEPT ![r] = new],
             new.seats = [rooms[r].seats EXCEPT ![side] = c],
             UserOf[rooms[r].seats[side]] = UserOf[c]
      PROVE  UsersStay
  <2>1. ASSUME NEW q \in live, NEW u \in SeatedUsers(rooms[q])
        PROVE  u \in SeatedUsers(rooms'[q])
    <3>1. PICK other \in Sides : rooms[q].seats[other] # NoConn /\ u = UserOf[rooms[q].seats[other]]
      BY <1>0, <2>1 DEF SeatedUsers, Seated
    <3>2. CASE q = r
      <4>1. rooms'[q].seats = [rooms[r].seats EXCEPT ![side] = c]
        BY <1>0, <1>1, <3>2 DEF RoomTypes
      <4>2. rooms'[q].seats[other] # NoConn /\ u = UserOf[rooms'[q].seats[other]]
        BY <1>0, <1>1, <3>1, <3>2, <4>1, LinkFacts
      <4> QED BY <4>2 DEF SeatedUsers, Seated
    <3>3. CASE q # r
      <4>1. rooms'[q] = rooms[q]
        BY <1>0, <1>1, <3>3 DEF RoomTypes
      <4> QED BY <4>1
    <3> QED BY <3>2, <3>3
  <2> QED BY <1>1, <2>1 DEF UsersStay
<1>2. CASE ConnectReplacing(c)
  <2>1. live' = live /\ LeaveQueues({UserOf[c]})
    BY <1>2 DEF ConnectReplacing
  <2>2. UsersStay
    <3>1. ASSUME NEW r \in RoomIds, NEW side \in Sides, rooms[r].seats[side] = byUser[UserOf[c]],
                 rooms' = [rooms EXCEPT ![r].seats[side] = c]
          PROVE  UsersStay
      <4> DEFINE new == [rooms[r] EXCEPT !.seats[side] = c]
      <4>1. rooms' = [rooms EXCEPT ![r] = new] /\ new.seats = [rooms[r].seats EXCEPT ![side] = c]
        BY <3>1, LinkFacts DEF Room
      <4>2. UserOf[rooms[r].seats[side]] = UserOf[c]
        BY <1>2, <3>1, LinkFacts DEF ConnectReplacing, HubFacts, OneConnectionPerUser
      <4> HIDE DEF new
      <4> QED BY <1>1, <2>1, <4>1, <4>2
    <3>2. CASE UNCHANGED rooms
      BY <2>1, <3>2, SameUsersStay
    <3> QED BY <1>2, <3>1, <3>2 DEF ConnectReplacing, Holds
  <2> QED BY <1>0, <2>1, <2>2, LeaveQueuesReservations
<1>3. CASE ConnectRecovering(c)
  <2>1. PICK r \in RoomIds, side \in Sides :
           /\ Recoverable(UserOf[c], r, side)
           /\ rooms' = [rooms EXCEPT ![r] = RecoveredRoom(rooms[r], side, c)]
    BY <1>3 DEF ConnectRecovering
  <2> DEFINE new == RecoveredRoom(rooms[r], side, c)
  <2>2. new.seats = [rooms[r].seats EXCEPT ![side] = c] /\ UserOf[rooms[r].seats[side]] = UserOf[c]
    BY <2>1, LinkFacts DEF RecoveredRoom, Recoverable, Room
  <2>3. live' = live /\ mm' = mm /\ fallback' = fallback
    BY <1>3 DEF ConnectRecovering, queueVars
  <2>4. UsersStay
    BY <1>1, <2>1, <2>2, <2>3
  <2> QED BY <2>3, <2>4, SameReservations
<1>4. CASE ConnectFresh(c) \/ SocketCloses(c)
  <2>1. live' = live /\ rooms' = rooms /\ mm' = mm /\ fallback' = fallback
    BY <1>4 DEF ConnectFresh, SocketCloses, queueVars, roomVars
  <2> QED BY <2>1, SameUsersStay, SameReservations
<1>5. CASE Disconnect(c)
  <2>1. live' = live /\ LeaveQueues({UserOf[c]})
    BY <1>5 DEF Disconnect
  <2>2. UsersStay
    <3>1. ASSUME NEW r \in RoomIds, NEW side \in Sides,
                 rooms' = [rooms EXCEPT ![r] = ReservedRoom(rooms[r], side)]
          PROVE  UsersStay
      <4>1. ReservedRoom(rooms[r], side).seats = rooms[r].seats
        BY LinkFacts DEF ReservedRoom, Room
      <4> QED BY <1>0, <2>1, <3>1, <4>1, SameUsersStay DEF RoomTypes
    <3>2. CASE UNCHANGED rooms
      BY <2>1, <3>2, SameUsersStay
    <3> QED BY <1>5, <3>1, <3>2 DEF Disconnect
  <2> QED BY <1>0, <2>1, <2>2, LeaveQueuesReservations
<1> QED BY <1>2, <1>3, <1>4, <1>5 DEF Connecting

LEMMA JoinStepsReservations ==
  ASSUME HubFacts, ReservationInv, NEW c \in Conns,
         \/ QueueJoinWaits(c) \/ QueueJoinMatches(c) \/ QueueJoinAi(c) \/ QueueLeave(c)
         \/ \E m \in TMatches : TournamentJoin(c, m)
  PROVE  ReservationInv'
<1> DEFINE u == UserOf[c]
           m == MmAfterLeaving(DeadEntries)
<1>0. /\ EntryTypes /\ MmTypes /\ RoomTypes /\ u \in Users /\ {u} \in SUBSET Users
      /\ DeadEntries \in SUBSET Users
  BY LinkFacts DEF DeadEntries
<1>1. /\ m \in MatchmakerState /\ QueueStatus(m) /\ m.queue = mm.queue \ DeadEntries
      /\ \A v \in Users : m.status[v] = "matched" =>
            mm.status[v] = "matched" /\ (v \in DeadEntries => fallback[v] = "off")
  BY <1>0, LeavingStatus DEF ReservationInv
<1> HIDE DEF u, m
<1>2. ASSUME UNCHANGED roomVars PROVE UsersStay
  BY <1>2, SameUsersStay DEF roomVars
<1>3. CASE QueueJoinWaits(c)
  <2>1. CASE LeaveQueues(DeadEntries)
    BY <1>0, <1>2, <1>3, <2>1, LeaveQueuesReservations DEF QueueJoinWaits
  <2>2. CASE /\ m.status[u] = "none" /\ mm' = Enqueued(m, u, 0)
             /\ fallback' = [FallbackAfterLeaving(DeadEntries) EXCEPT ![u] = "armed"]
    <3>1. /\ mm'.queue = m.queue \cup {u}
          /\ \A v \in Users : mm'.status[v] = IF v = u THEN "queued" ELSE m.status[v]
      BY <1>0, <1>1, <2>2 DEF Enqueued, MatchmakerState
    <3>2. QueueStatus(mm')
      BY <1>0, <1>1, <3>1 DEF QueueStatus
    <3>3. \A v \in Users \ {u} : v \notin DeadEntries => fallback'[v] = fallback[v]
      BY <2>2 DEF FallbackAfterLeaving
    <3>4. ReservationsBacked'
      <4>1. UsersStay
        BY <1>2, <1>3 DEF QueueJoinWaits
      <4>2. ASSUME NEW v \in Users, mm'.status[v] = "matched"
            PROVE  mm.status[v] = "matched" /\ (fallback[v] = "lookup" => fallback'[v] = "lookup")
        BY <1>1, <3>1, <3>3, <4>2
      <4> QED BY <4>1, <4>2, ReservationsKept DEF ReservationInv
    <3> QED BY <3>2, <3>4 DEF ReservationInv
  <2> QED BY <1>3, <2>1, <2>2 DEF QueueJoinWaits, u, m
<1>4. CASE QueueJoinMatches(c)
  <2> DEFINE opponent(v) == EntriesAfterLeaving(DeadEntries)[v]
  <2>1. PICK v \in m.queue :
          /\ DropEntries(DeadEntries \cup {v})
          /\ \/ /\ opponent(v) # NoConn /\ mm' = Paired(m, u, v)
                /\ \E r \in RoomIds : CreateRoom(r, opponent(v), c, NoMatch)
             \/ mm' = Released(m, {u, v}) /\ UNCHANGED roomVars
    BY <1>4 DEF QueueJoinMatches, u, m
  <2>2. v \in Users /\ {u, v} \in SUBSET Users
    BY <1>0, <1>1 DEF MatchmakerState
  <2>3. \A w \in Users \ {v} : w \notin DeadEntries => fallback'[w] = fallback[w]
    BY <2>1 DEF DropEntries, FallbackAfterLeaving
  <2>4. CASE mm' = Paired(m, u, v) /\ opponent(v) # NoConn /\
             \E r \in RoomIds : CreateRoom(r, opponent(v), c, NoMatch)
    <3>1. PICK r \in RoomIds : CreateRoom(r, opponent(v), c, NoMatch)
      BY <2>4
    <3>2. opponent(v) \in Conns /\ UserOf[opponent(v)] = v
      BY <1>0, <2>2, <2>4 DEF EntriesAfterLeaving, EntryTypes, HubFacts, PeopleInv, EntriesOwn
    <3> HIDE DEF opponent
    <3>3. UsersStay /\ r \in live' /\ v \in SeatedUsers(rooms'[r]) /\ u \in SeatedUsers(rooms'[r])
      BY <1>0, <3>1, <3>2, CreateRoomUsers DEF u
    <3>4. /\ QueueStatus(mm')
          /\ \A w \in Users : mm'.status[w] = IF w \in {u, v} THEN "matched" ELSE m.status[w]
      BY <1>1, <2>2, <2>4, ReassignStatus DEF Paired
    <3>5. ASSUME NEW w \in Users, mm'.status[w] = "matched"
          PROVE  \/ mm.status[w] = "matched" /\ (fallback[w] = "lookup" => fallback'[w] = "lookup")
                 \/ \E q \in live' : w \in SeatedUsers(rooms'[q])
      BY <1>1, <2>3, <3>3, <3>4, <3>5
    <3>6. ReservationsBacked'
      BY <3>3, <3>5, ReservationsKept DEF ReservationInv
    <3> QED BY <3>4, <3>6 DEF ReservationInv
  <2>5. CASE mm' = Released(m, {u, v}) /\ UNCHANGED roomVars
    <3>1. /\ QueueStatus(mm')
          /\ \A w \in Users : mm'.status[w] = IF w \in {u, v} THEN "none" ELSE m.status[w]
      BY <1>1, <2>2, <2>5, ReassignStatus DEF Released
    <3>2. ASSUME NEW w \in Users, mm'.status[w] = "matched"
          PROVE  mm.status[w] = "matched" /\ (fallback[w] = "lookup" => fallback'[w] = "lookup")
      BY <1>1, <2>3, <3>1, <3>2
    <3>3. ReservationsBacked'
      BY <1>2, <2>5, <3>2, ReservationsKept DEF ReservationInv
    <3> QED BY <3>1, <3>3 DEF ReservationInv
  <2> QED BY <2>1, <2>4, <2>5
<1>5. CASE QueueJoinAi(c)
  <2>1. LeaveQueues(DeadEntries \cup {u}) /\ DeadEntries \cup {u} \in SUBSET Users
    BY <1>0, <1>5 DEF QueueJoinAi, u
  <2>2. UsersStay
    BY <1>0, <1>2, <1>5, CreateRoomUsers DEF QueueJoinAi, CreateRoomFails
  <2> QED BY <1>0, <2>1, <2>2, LeaveQueuesReservations
<1>6. CASE QueueLeave(c) \/ \E t \in TMatches : TournamentJoin(c, t)
  <2>1. LeaveQueues({u}) /\ UNCHANGED roomVars
    BY <1>6 DEF QueueLeave, TournamentJoin, u
  <2> QED BY <1>0, <1>2, <2>1, LeaveQueuesReservations
<1> QED BY <1>3, <1>4, <1>5, <1>6

LEMMA QueueStepsReservations ==
  ASSUME HubFacts, ReservationInv, NEW u \in Users, QueueStep(u)
  PROVE  ReservationInv'
<1>0. EntryTypes /\ MmTypes /\ RoomTypes /\ {u} \in SUBSET Users /\ \A r \in live : r \in RoomIds
  BY LinkFacts DEF RoomTypes
<1>1. ASSUME UNCHANGED roomVars PROVE UsersStay
  BY <1>1, SameUsersStay DEF roomVars
<1>2. ASSUME ConsumeEntry(u)
      PROVE  \A v \in Users \ {u} : fallback'[v] = fallback[v]
  BY <1>2 DEF ConsumeEntry
\* The user is released with the entry.
<1>3. ASSUME mm' = Released(mm, {u}), UsersStay,
             \A v \in Users \ {u} : fallback'[v] = fallback[v]
      PROVE  ReservationInv'
  BY <1>0, <1>3, ReleasedReservations DEF UsersStay
\* The user is claimed for a query or for a room.
<1>4. ASSUME mm' = Claimed(mm, u), UsersStay,
             \A v \in Users \ {u} : fallback'[v] = fallback[v],
             fallback'[u] = "lookup" \/ \E r \in live' : u \in SeatedUsers(rooms'[r])
      PROVE  ReservationInv'
  <2>1. /\ QueueStatus(mm')
        /\ \A v \in Users : mm'.status[v] = IF v \in {u} THEN "matched" ELSE mm.status[v]
    BY <1>0, <1>4, ReassignStatus DEF Claimed, MmTypes, ReservationInv
  <2>2. ReservationsBacked'
    BY <1>4, <2>1, ReservationsKept DEF ReservationInv
  <2> QED BY <2>1, <2>2 DEF ReservationInv
\* A room against the AI for the connection of the entry.
<1>5. ASSUME NEW r \in RoomIds, fallback[u] # "off", CreateRoom(r, entries[u], NoConn, NoMatch)
      PROVE  UsersStay /\ r \in live' /\ u \in SeatedUsers(rooms'[r])
  <2>1. entries[u] \in Conns /\ UserOf[entries[u]] = u
    BY <1>0, <1>5 DEF EntryTypes, HubFacts, PeopleInv, EntriesOwn
  <2> QED BY <1>0, <1>5, <2>1, CreateRoomUsers
<1>6. CASE FallbackDrops(u)
  <2>1. CASE LeaveQueues({u})
    BY <1>0, <1>1, <1>6, <2>1, LeaveQueuesReservations DEF FallbackDrops
  <2>2. CASE ConsumeEntry(u) /\ UNCHANGED mm
    <3>1. UsersStay /\ fallback[u] = "armed"
      BY <1>1, <1>6 DEF FallbackDrops
    <3>2. ReservationsBacked'
      BY <1>2, <2>2, <3>1, ReservationsKept DEF ReservationInv
    <3> QED BY <2>2, <3>2 DEF ReservationInv, QueueStatus
  <2> QED BY <1>6, <2>1, <2>2 DEF FallbackDrops
<1>7. CASE FallbackAsksNpc(u)
  <2>1. mm' = Claimed(mm, u) /\ fallback' = [fallback EXCEPT ![u] = "lookup"] /\ UsersStay
    BY <1>1, <1>7 DEF FallbackAsksNpc
  <2> QED BY <1>0, <1>4, <2>1 DEF EntryTypes
<1>8. CASE FallbackGuestRoom(u)
  <2>1. ConsumeEntry(u) /\ fallback[u] # "off"
    BY <1>8 DEF FallbackGuestRoom, FallbackReady
  <2>2. ASSUME mm' = Claimed(mm, u), NEW r \in RoomIds, CreateRoom(r, entries[u], NoConn, NoMatch)
        PROVE  ReservationInv'
    BY <1>2, <1>4, <1>5, <2>1, <2>2
  <2>3. ASSUME mm' = Released(mm, {u}), CreateRoomFails PROVE ReservationInv'
    BY <1>1, <1>2, <1>3, <2>1, <2>3 DEF CreateRoomFails
  <2> QED BY <1>8, <2>2, <2>3 DEF FallbackGuestRoom
<1>9. CASE NpcFound(u)
  <2>1. CASE /\ mm' = Released(mm, {u}) /\ fallback' = [fallback EXCEPT ![u] = "off"]
             /\ UNCHANGED roomVars
    BY <1>1, <1>3, <2>1
  <2>2. CASE ConsumeEntry(u) /\ mm' = Released(mm, {u}) /\ CreateRoomFails
    BY <1>1, <1>2, <1>3, <2>2 DEF CreateRoomFails
  <2>3. ASSUME ConsumeEntry(u), UNCHANGED mm, NEW r \in RoomIds,
               CreateRoom(r, entries[u], NoConn, NoMatch)
        PROVE  ReservationInv'
    <3>1. UsersStay /\ r \in live' /\ u \in SeatedUsers(rooms'[r])
      BY <1>5, <1>9, <2>3 DEF NpcFound
    <3>2. ReservationsBacked'
      BY <1>2, <2>3, <3>1, ReservationsKept DEF ReservationInv
    <3> QED BY <2>3, <3>2 DEF ReservationInv, QueueStatus
  <2> QED BY <1>9, <2>1, <2>2, <2>3 DEF NpcFound
<1>10. CASE NpcMissing(u)
  BY <1>1, <1>2, <1>3, <1>10 DEF NpcMissing
<1>11. CASE StaleLookupReturns(u)
  BY <1>1, <1>3, <1>11 DEF StaleLookupReturns
<1> QED BY <1>6, <1>7, <1>8, <1>9, <1>10, <1>11 DEF QueueStep

LEMMA TournamentStepsReservations ==
  ASSUME HubFacts, ReservationInv, TournamentStep
  PROVE  ReservationInv'
<1>0. /\ EntryTypes /\ MmTypes /\ RoomTypes /\ JoinTypes /\ WaiterTypes
  BY LinkFacts
<1>1. ASSUME UNCHANGED roomVars PROVE UsersStay
  BY <1>1, SameUsersStay DEF roomVars
<1>2. ASSUME NEW j \in joins, TournamentRead(j) PROVE ReservationInv'
  BY <1>1, <1>2, SameReservations DEF TournamentRead, queueVars
<1>3. ASSUME NEW j \in joins, TournamentSeats(j) PROVE ReservationInv'
  <2> DEFINE c == j.conn
             m == j.match
  <2>1. mm' = mm /\ fallback' = fallback
    BY <1>3 DEF TournamentSeats, queueVars
  <2>2. c \in Conns /\ m \in TMatches
    BY <1>0 DEF JoinTypes
  <2>3. ASSUME NEW w \in waiters[m], NEW r \in RoomIds,
               LET left == LeftOf(m, c, w)
               IN  CreateRoom(r, left, IF left = c THEN w ELSE c, m)
        PROVE  UsersStay
    <3> DEFINE left == LeftOf(m, c, w)
               right == IF left = c THEN w ELSE c
    <3>1. left \in Conns /\ CreateRoom(r, left, right, m)
      BY <1>0, <2>2, <2>3 DEF WaiterTypes, LeftOf
    <3> HIDE DEF left, right, m
    <3> QED BY <1>0, <3>1, CreateRoomUsers
  <2>4. UsersStay
    BY <1>1, <1>3, <2>3 DEF TournamentSeats, WaitingOpponents, CreateRoomFails
  <2> QED BY <2>1, <2>4, SameReservations
<1>4. ASSUME NEW s \in starts, StartSucceeds(s) PROVE ReservationInv'
  BY <1>1, <1>4, SameReservations DEF StartSucceeds, queueVars
<1>5. ASSUME NEW s \in starts, StartFails(s) PROVE ReservationInv'
  <2> DEFINE rm == [rooms[s.room] EXCEPT !.timer = FALSE]
  <2>1. s.room \in RoomIds /\ fallback' = fallback
    BY <1>0, <1>5 DEF JoinTypes, StartFails
  <2>2. CASE s.room \in live
    <3>1. rm.seats = rooms[s.room].seats
      BY <2>1, LinkFacts DEF Room
    <3>2. RemoveRoom(s.room, rm)
      BY <1>5, <2>2 DEF StartFails
    <3> HIDE DEF rm
    <3> QED BY <1>0, <2>1, <3>1, <3>2, RemoveRoomReservations
  <2>3. CASE s.room \notin live
    BY <1>1, <1>5, <2>1, <2>3, SameReservations DEF StartFails
  <2> QED BY <2>2, <2>3
<1> QED BY <1>2, <1>3, <1>4, <1>5 DEF TournamentStep

LEMMA PlayStepsReservations ==
  ASSUME HubFacts, ReservationInv, NEW r \in RoomIds,
         (\E c \in Conns : Ready(c, r) \/ Pause(c, r) \/ Resume(c, r)) \/ RoomStep(r)
  PROVE  ReservationInv'
<1>0. EntryTypes /\ MmTypes /\ RoomTypes /\ rooms[r] \in Room
  BY LinkFacts
<1>1. ASSUME NEW new, new.seats = rooms[r].seats, live' = live, mm' = mm, fallback' = fallback,
             rooms' = [rooms EXCEPT ![r] = new]
      PROVE  ReservationInv'
  <2>1. UsersStay
    BY <1>0, <1>1, SameUsersStay DEF RoomTypes
  <2> QED BY <1>1, <2>1, SameReservations
<1>2. ASSUME NEW c \in Conns, Ready(c, r) PROVE ReservationInv'
  <2>1. PICK side \in Sides : rooms' = [rooms EXCEPT ![r] = ReadyRoom(rooms[r], side)]
    BY <1>2 DEF Ready, SidesOf
  <2>2. ReadyRoom(rooms[r], side).seats = rooms[r].seats
    BY <1>0, OpsKeepLinks
  <2> QED BY <1>1, <1>2, <2>1, <2>2 DEF Ready, queueVars
<1>3. ASSUME NEW c \in Conns, Pause(c, r) \/ Resume(c, r) PROVE ReservationInv'
  <2>1. live' = live /\ mm' = mm /\ fallback' = fallback
    BY <1>3 DEF Pause, Resume, queueVars
  <2>2. rooms'[r].seats = rooms[r].seats /\ \A q \in RoomIds \ {r} : rooms'[q] = rooms[q]
    BY <1>0, <1>3 DEF Pause, Resume, RoomTypes, Room
  <2>3. UsersStay
    BY <1>0, <2>1, <2>2, SameUsersStay DEF RoomTypes
  <2> QED BY <2>1, <2>3, SameReservations
<1>4. CASE GameEnds(r)
  BY <1>0, <1>4, FinishRoomReservations DEF GameEnds
<1>5. CASE ReconnectTimer(r)
  <2> DEFINE over == [rooms[r] EXCEPT !.timer = FALSE, !.away = {},
                                      !.session = SessionFinish(rooms[r].session)]
  <2>1. over \in Room /\ over.seats = rooms[r].seats
    BY <1>0, RoomOpsTyped DEF Room
  <2>2. RearmedRoom(rooms[r]).seats = rooms[r].seats
    BY <1>0, OpsKeepLinks
  <2>3. \/ RemoveRoom(r, over) \/ FinishRoom(r, over)
        \/ /\ rooms' = [rooms EXCEPT ![r] = RearmedRoom(rooms[r])]
           /\ live' = live /\ mm' = mm
    BY <1>5 DEF ReconnectTimer
  <2>4. fallback' = fallback
    BY <1>5 DEF ReconnectTimer
  <2> HIDE DEF over
  <2> QED BY <1>0, <1>1, <2>1, <2>2, <2>3, <2>4, RemoveRoomReservations, FinishRoomReservations
<1>6. CASE FinalizeSucceeds(r)
  <2> DEFINE rm == [rooms[r] EXCEPT !.finishing = FALSE]
  <2>1. rm.seats = rooms[r].seats
    BY <1>0 DEF Room
  <2>2. RemoveRoom(r, rm) /\ fallback' = fallback
    BY <1>6 DEF FinalizeSucceeds
  <2> HIDE DEF rm
  <2> QED BY <1>0, <2>1, <2>2, RemoveRoomReservations
<1>7. CASE FinalizeFails(r)
  <2>1. /\ rooms' = [rooms EXCEPT ![r].finishing = FALSE] /\ live' = live /\ fallback' = fallback
        /\ mm' = Released(mm, SeatedUsers(rooms[r])) /\ SeatedUsers(rooms[r]) \in SUBSET Users
    BY <1>0, <1>7, SeatedFacts DEF FinalizeFails
  <2>2. \A q \in live : rooms'[q].seats = rooms[q].seats
    BY <1>0, <2>1 DEF RoomTypes, Room
  <2>3. UsersStay
    BY <2>1, <2>2, SameUsersStay
  <2> QED BY <1>0, <2>1, <2>3, ReleasedReservations DEF UsersStay
<1> QED BY <1>2, <1>3, <1>4, <1>5, <1>6, <1>7 DEF RoomStep

LEMMA HubStepsReservations ==
  ASSUME HubFacts, ReservationInv, BeginDrain \/ DrainTimesOut \/ Close \/ Tick
  PROVE  ReservationInv'
<1>0. EntryTypes /\ MmTypes /\ RoomTypes /\ Entered \in SUBSET Users
  BY LinkFacts DEF Entered
<1>1. CASE BeginDrain
  <2>1. UsersStay
    BY <1>1, SameUsersStay DEF BeginDrain, roomVars
  <2> QED BY <1>0, <1>1, <2>1, LeaveQueuesReservations DEF BeginDrain
<1>2. CASE DrainTimesOut
  BY <1>2, SameUsersStay, SameReservations DEF DrainTimesOut, queueVars, roomVars
<1>3. CASE Close
  <2> DEFINE m == MmAfterLeaving(Entered)
             U == UNION {SeatedUsers(rooms[r]) : r \in live}
  <2>1. U \in SUBSET Users
    BY <1>0, SeatedFacts DEF RoomTypes
  <2>2. /\ m \in MatchmakerState /\ QueueStatus(m)
        /\ \A u \in Users : m.status[u] = "matched" =>
              mm.status[u] = "matched" /\ (u \in Entered => fallback[u] = "off")
    BY <1>0, LeavingStatus DEF ReservationInv
  <2>3. mm' = Released(m, U)
    BY <1>3 DEF Close
  <2> HIDE DEF m
  <2>4. /\ QueueStatus(mm')
        /\ \A u \in Users : mm'.status[u] = IF u \in U THEN "none" ELSE m.status[u]
    <3> HIDE DEF U
    <3> QED BY <2>1, <2>2, <2>3, ReassignStatus DEF Released
  <2>5. ASSUME NEW u \in Users PROVE mm'.status[u] # "matched"
    <3>1. SUFFICES ASSUME mm'.status[u] = "matched" PROVE FALSE
      OBVIOUS
    <3>2. u \notin U /\ m.status[u] = "matched" /\ mm.status[u] = "matched"
      BY <2>2, <2>4, <3>1
    <3>3. fallback[u] = "lookup"
      BY <3>2 DEF ReservationInv, ReservationsBacked
    <3>4. u \in Entered
      BY <1>0, <3>3 DEF Entered, EntryTypes
    <3> QED BY <2>2, <3>2, <3>3, <3>4
  <2> QED BY <2>4, <2>5 DEF ReservationInv, ReservationsBacked
<1>4. CASE Tick
  <2>1. /\ mm'.queue = mm.queue /\ mm'.status = mm.status
        /\ live' = live /\ fallback' = fallback
        /\ rooms' = [r \in RoomIds |-> AgedRoom(rooms[r])]
    BY <1>0, <1>4 DEF Tick, MmTypes, MatchmakerState
  <2>2. \A r \in live : rooms'[r].seats = rooms[r].seats
    BY <1>0, <2>1, OpsKeepLinks, LinkFacts DEF RoomTypes
  <2>3. UsersStay
    BY <2>1, <2>2, SameUsersStay
  <2>4. ReservationsBacked'
    BY <2>1, <2>3, ReservationsKept DEF ReservationInv
  <2> QED BY <2>1, <2>4 DEF ReservationInv, QueueStatus
<1> QED BY <1>1, <1>2, <1>3, <1>4

LEMMA HubFactsKept == Spec => []HubFacts
<1>1. TypeInv /\ RoomsInv /\ PeopleInv /\ OneConnectionPerUser => HubFacts
  BY DEF HubFacts
<1> QED BY <1>1, TypesKept, RoomsInvKept, PeopleKept, SingleConnection, PTL

\* A step of the hub leaks no reservation.
LEMMA ReservationsStep ==
  HubFacts /\ ReservationInv /\ [Next]_vars => ReservationInv'
<1> SUFFICES ASSUME HubFacts, ReservationInv, [Next]_vars PROVE ReservationInv'
  OBVIOUS
<1>1. ASSUME NEW c \in Conns, ClientStep(c) PROVE ReservationInv'
  BY <1>1, ConnectionStepsReservations, JoinStepsReservations, PlayStepsReservations
     DEF ClientStep
<1>2. ASSUME NEW u \in Users, QueueStep(u) PROVE ReservationInv'
  BY <1>2, QueueStepsReservations
<1>3. ASSUME NEW r \in RoomIds, RoomStep(r) PROVE ReservationInv'
  BY <1>3, PlayStepsReservations
<1>4. CASE TournamentStep
  BY <1>4, TournamentStepsReservations
<1>5. CASE BeginDrain \/ DrainTimesOut \/ Close \/ Tick
  BY <1>5, HubStepsReservations
<1>6. CASE UNCHANGED vars
  BY <1>6, SameUsersStay, SameReservations DEF vars, queueVars, roomVars
<1> QED BY <1>1, <1>2, <1>3, <1>4, <1>5, <1>6 DEF Next

LEMMA ReservationsInvKept == Spec => []ReservationInv
<1>1. Init => ReservationInv
  BY DEF Init, ReservationInv, QueueStatus, ReservationsBacked, NewMatchmaker
<1> QED BY <1>1, ReservationsStep, HubFactsKept, PTL DEF Spec

\* A reservation is never leaked, whatever the players, the tournament and the
\* database do: it is held for a room the user sits in or an unanswered NPC query.
THEOREM NoReservationLeaks == Spec => []ReservationsBacked
<1>1. ReservationInv => ReservationsBacked
  BY DEF ReservationInv
<1> QED BY <1>1, ReservationsInvKept, PTL

-----------------------------------------------------------------------------
(* Who waits in the queue or for a tournament opponent *)

\* The second half of MatchmakerBacked.
QueueBacked ==
    \A u \in mm.queue :
        /\ fallback[u] = "armed"
        /\ entries[u] # NoConn /\ entries[u] = byUser[u]
        /\ roomOf[entries[u]] = NoRoom

WaitersPresent == \A m \in TMatches : waiters[m] \subseteq Registered

SeatingInv == LinkInv /\ QueueBacked /\ WaitersPresent
SeatingFacts == HubFacts /\ ReservationInv /\ SeatingInv /\ TournamentsOrderly

LEMMA SeatingInvKept ==
  ASSUME SeatingFacts, LinkInv', QueueBacked', WaitersPresent'
  PROVE  SeatingInv'
  BY DEF SeatingInv

\* A queued player's entry is a connection of that player in the hub.
LEMMA QueuedFacts ==
  ASSUME SeatingFacts, NEW u \in mm.queue
  PROVE  /\ u \in Users /\ mm.status[u] = "queued"
         /\ entries[u] \in Conns /\ entries[u] \in Registered /\ UserOf[entries[u]] = u
<1>1. u \in Users /\ mm.status[u] = "queued"
  BY DEF SeatingFacts, ReservationInv, QueueStatus
<1>2. entries[u] # NoConn /\ entries[u] = byUser[u]
  BY DEF SeatingFacts, SeatingInv, QueueBacked
<1>3. byUser[u] \in Registered /\ UserOf[byUser[u]] = u
  BY <1>1, <1>2 DEF SeatingFacts, HubFacts, OneConnectionPerUser
<1> QED BY <1>1, <1>2, <1>3 DEF Registered

\* Players leave the queue; the entries of the others stay, and no room is given
\* to their connections.
LEMMA QueueShrinks ==
  ASSUME SeatingFacts, mm'.queue \subseteq mm.queue,
         \A u \in mm'.queue :
            /\ fallback'[u] = fallback[u] /\ entries'[u] = entries[u] /\ byUser'[u] = byUser[u]
            /\ roomOf'[entries[u]] \in {roomOf[entries[u]], NoRoom}
  PROVE  QueueBacked'
  BY DEF SeatingFacts, SeatingInv, QueueBacked

LEMMA LeaveQueuesFacts ==
  ASSUME SeatingFacts, NEW U \in SUBSET Users, LeaveQueues(U)
  PROVE  /\ mm'.queue = mm.queue \ U
         /\ \A u \in Users \ U : fallback'[u] = fallback[u] /\ entries'[u] = entries[u]
<1>1. EntryTypes /\ MmTypes
  BY LinkFacts DEF SeatingFacts
<1>2. mm'.queue = mm.queue \ U
  BY <1>1, LeavingStatus DEF SeatingFacts, ReservationInv, LeaveQueues
<1> QED BY <1>2 DEF LeaveQueues, DropEntries, FallbackAfterLeaving, EntriesAfterLeaving

\* Users leave the queue, and nothing else of it changes.
LEMMA LeaversOnly ==
  ASSUME SeatingFacts, NEW U \in SUBSET Users, LeaveQueues(U),
         \A u \in mm.queue \ U : /\ byUser'[u] = byUser[u]
                                 /\ roomOf'[entries[u]] \in {roomOf[entries[u]], NoRoom}
  PROVE  QueueBacked'
<1>1. \A u \in mm.queue : u \in Users
  BY QueuedFacts
<1> QED BY <1>1, LeaveQueuesFacts, QueueShrinks

\* createRoom takes no connection from the queue.
LEMMA CreateRoomQueue ==
  ASSUME SeatingFacts, NEW r \in RoomIds, NEW left, NEW right, NEW match,
         CreateRoom(r, left, right, match), NEW u \in mm.queue,
         entries[u] # left, entries[u] # right
  PROVE  byUser'[u] = byUser[u] /\ roomOf'[entries[u]] = roomOf[entries[u]]
<1>1. entries[u] \in Conns
  BY QueuedFacts
<1> QED BY <1>1 DEF CreateRoom

LEMMA SameWaiters ==
  ASSUME SeatingFacts, Registered' = Registered,
         \A m \in TMatches : waiters'[m] \subseteq waiters[m]
  PROVE  WaitersPresent'
  BY DEF SeatingFacts, SeatingInv, WaitersPresent

\* What a step that seats nobody leaves as it is.
LEMMA QuietLinks ==
  ASSUME SeatingFacts, UNCHANGED <<connVars, roomVars>>,
         drain' = "closed" <=> drain = "closed"
  PROVE  LinkInv' /\ Registered' = Registered
<1>1. Registered' = Registered
  BY DEF connVars, Registered
<1>2. SameLinks
  BY <1>1 DEF SameLinks, connVars, roomVars
<1> QED BY <1>1, <1>2, SameLinksKeep DEF SeatingFacts, SeatingInv

\* The room of a connection in no room and another one, or of one against the AI.
LEMMA SeatsTaken ==
  ASSUME SeatingFacts, NEW r \in RoomIds,
         NEW left \in Registered, NEW right \in Registered \cup {NoConn}, NEW match,
         left # right, roomOf[left] = NoRoom, right # NoConn => roomOf[right] = NoRoom,
         CreateRoom(r, left, right, match)
  PROVE  LinkInv' /\ Registered' = Registered
<1>1. HubFacts /\ LinkInv /\ Registered \subseteq Conns
  BY LinkFacts DEF SeatingFacts, SeatingInv
<1>2. left \in Conns /\ right \in Conns \cup {NoConn}
  BY <1>1
<1>3. Registered' = Registered
  BY DEF CreateRoom, Registered
<1> QED BY <1>1, <1>2, <1>3, CreateRoomLinks

LEMMA ConnectionStepsSeating ==
  ASSUME SeatingFacts, NEW c \in Conns, Connecting(c) \/ SocketCloses(c) \/ Disconnect(c)
  PROVE  SeatingInv'
<1>0. /\ ConnTypes /\ UserOf[c] \in Users /\ {UserOf[c]} \in SUBSET Users
      /\ HubFacts /\ LinkInv /\ WaitersPresent /\ WaiterTypes
      /\ Registered' = {d \in Conns : socket'[d] # "gone"}
  BY LinkFacts DEF SeatingFacts, SeatingInv, Registered
<1>1. LinkInv'
  BY <1>0, ConnectionStepsLinks
<1>2. CASE ConnectReplacing(c)
  <2> DEFINE previous == byUser[UserOf[c]]
  <2>1. /\ previous \in Conns /\ UserOf[previous] = UserOf[c] /\ previous # c
    BY <1>0, <1>2 DEF ConnectReplacing, FreeConn, HubFacts, OneConnectionPerUser, Registered
  <2>2. /\ LeaveQueues({UserOf[c]}) /\ LeaveWaiters(previous)
        /\ byUser' = [byUser EXCEPT ![UserOf[c]] = c]
        /\ socket' = [socket EXCEPT ![c] = "open", ![previous] = "gone"]
    BY <1>2 DEF ConnectReplacing, SocketsReplaced
  <2>3. \A d \in Conns \ {c, previous} : roomOf'[d] = roomOf[d]
    BY <1>0, <1>2 DEF ConnectReplacing, ConnTypes
  <2>4. ASSUME NEW u \in mm.queue \ {UserOf[c]}
        PROVE  byUser'[u] = byUser[u] /\ roomOf'[entries[u]] = roomOf[entries[u]]
    BY <1>0, <2>1, <2>2, <2>3, QueuedFacts DEF ConnTypes
  <2>5. QueueBacked'
    BY <1>0, <2>2, <2>4, LeaversOnly
  <2>6. WaitersPresent'
    BY <1>0, <2>1, <2>2 DEF LeaveWaiters, WaitersPresent, Registered, ConnTypes
  <2> QED BY <1>1, <2>5, <2>6, SeatingInvKept
<1>3. CASE ConnectRecovering(c) \/ ConnectFresh(c)
  <2>1. /\ mm' = mm /\ fallback' = fallback /\ entries' = entries /\ waiters' = waiters
        /\ byUser[UserOf[c]] = NoConn /\ byUser' = [byUser EXCEPT ![UserOf[c]] = c]
        /\ socket' = [socket EXCEPT ![c] = "open"]
    BY <1>3 DEF ConnectRecovering, ConnectFresh, queueVars, tourVars
  <2>2. \A d \in Conns \ {c} : roomOf'[d] \in {roomOf[d], NoRoom}
    <3>1. CASE ConnectRecovering(c)
      <4>1. PICK r \in RoomIds, side \in Sides :
               roomOf' = [roomOf EXCEPT ![rooms[r].seats[side]] = NoRoom, ![c] = r]
        BY <3>1 DEF ConnectRecovering
      <4> QED BY <1>0, <4>1 DEF ConnTypes
    <3>2. CASE ConnectFresh(c)
      BY <1>0, <3>2 DEF ConnectFresh, ConnTypes
    <3> QED BY <1>3, <3>1, <3>2
  <2>3. ASSUME NEW u \in mm.queue PROVE u # UserOf[c]
    BY <2>1 DEF SeatingFacts, SeatingInv, QueueBacked
  <2>4. QueueBacked'
    BY <1>0, <2>1, <2>2, <2>3, QueuedFacts, QueueShrinks DEF ConnTypes
  <2>5. WaitersPresent'
    BY <1>0, <2>1 DEF WaitersPresent, Registered, ConnTypes
  <2> QED BY <1>1, <2>4, <2>5, SeatingInvKept
<1>4. CASE SocketCloses(c)
  <2>1. /\ mm' = mm /\ fallback' = fallback /\ entries' = entries /\ waiters' = waiters
        /\ byUser' = byUser /\ roomOf' = roomOf /\ Registered' = Registered
    BY <1>0, <1>4 DEF SocketCloses, queueVars, tourVars, Registered, ConnTypes
  <2>2. QueueBacked'
    BY <2>1, QueueShrinks
  <2> QED BY <1>1, <2>1, <2>2, SameWaiters, SeatingInvKept
<1>5. CASE Disconnect(c)
  <2>1. /\ LeaveQueues({UserOf[c]}) /\ LeaveWaiters(c) /\ roomOf' = roomOf
        /\ \A u \in Users \ {UserOf[c]} : byUser'[u] = byUser[u]
        /\ socket' = [socket EXCEPT ![c] = "gone"]
    BY <1>5 DEF Disconnect
  <2>2. QueueBacked'
    BY <1>0, <2>1, QueuedFacts, LeaversOnly
  <2>3. WaitersPresent'
    BY <1>0, <2>1 DEF LeaveWaiters, WaitersPresent, Registered, ConnTypes
  <2> QED BY <1>1, <2>2, <2>3, SeatingInvKept
<1> QED BY <1>2, <1>3, <1>4, <1>5 DEF Connecting

LEMMA JoinStepsSeating ==
  ASSUME SeatingFacts, NEW c \in Conns,
         \/ QueueJoinWaits(c) \/ QueueJoinMatches(c) \/ QueueJoinAi(c) \/ QueueLeave(c)
         \/ \E m \in TMatches : TournamentJoin(c, m)
  PROVE  SeatingInv'
<1> DEFINE u == UserOf[c]
           m == MmAfterLeaving(DeadEntries)
<1>0. /\ ConnTypes /\ EntryTypes /\ MmTypes /\ u \in Users /\ DeadEntries \in SUBSET Users
      /\ NoConn \notin Conns /\ NoRoom \notin RoomIds /\ UserOf \in [Conns -> Users]
      /\ c \in Registered => byUser[u] = c
  BY LinkFacts DEF SeatingFacts, HubFacts, OneConnectionPerUser, DeadEntries
<1>1. /\ m \in MatchmakerState /\ QueueStatus(m) /\ m.queue = mm.queue \ DeadEntries
  BY <1>0, LeavingStatus DEF SeatingFacts, ReservationInv
<1> HIDE DEF u, m
<1>2. CASE QueueJoinWaits(c)
  <2>1. /\ UNCHANGED <<connVars, roomVars>> /\ drain' = drain /\ waiters' = waiters
        /\ byUser' = byUser /\ roomOf' = roomOf /\ byUser[u] = c /\ roomOf[c] = NoRoom
    BY <1>0, <1>2 DEF QueueJoinWaits, MayJoin, connVars, hubVars, tourVars
  <2>2. LinkInv' /\ WaitersPresent'
    BY <2>1, QuietLinks, SameWaiters
  <2>3. QueueBacked'
    <3>1. CASE LeaveQueues(DeadEntries)
      BY <1>0, <2>1, <3>1, LeaversOnly
    <3>2. CASE /\ mm' = Enqueued(m, u, 0)
               /\ entries' = [EntriesAfterLeaving(DeadEntries) EXCEPT ![u] = c]
               /\ fallback' = [FallbackAfterLeaving(DeadEntries) EXCEPT ![u] = "armed"]
      <4>1. mm'.queue = (mm.queue \ DeadEntries) \cup {u}
        BY <1>1, <3>2 DEF Enqueued
      <4>2. entries'[u] = c /\ fallback'[u] = "armed"
        BY <1>0, <3>2 DEF EntriesAfterLeaving, FallbackAfterLeaving
      <4>3. \A v \in Users \ (DeadEntries \cup {u}) :
               entries'[v] = entries[v] /\ fallback'[v] = fallback[v]
        BY <3>2 DEF EntriesAfterLeaving, FallbackAfterLeaving
      <4>4. ASSUME NEW v \in mm'.queue
            PROVE  /\ fallback'[v] = "armed"
                   /\ entries'[v] # NoConn /\ entries'[v] = byUser'[v]
                   /\ roomOf'[entries'[v]] = NoRoom
        <5>1. CASE v = u
          BY <1>0, <2>1, <4>2, <5>1
        <5>2. CASE v # u
          <6>1. v \in mm.queue /\ v \notin DeadEntries /\ v \in Users
            BY <4>1, <4>4, <5>2, QueuedFacts
          <6> QED BY <2>1, <4>3, <5>2, <6>1 DEF SeatingFacts, SeatingInv, QueueBacked
        <5> QED BY <5>1, <5>2
      <4> QED BY <4>4 DEF QueueBacked
    <3> QED BY <1>2, <3>1, <3>2 DEF QueueJoinWaits, u, m
  <2> QED BY <2>2, <2>3, SeatingInvKept
<1>3. CASE QueueJoinMatches(c)
  <2>1. PICK v \in m.queue :
          LET opponent == EntriesAfterLeaving(DeadEntries)[v] IN
          /\ DropEntries(DeadEntries \cup {v})
          /\ \/ /\ mm' = Paired(m, u, v)
                /\ \E r \in RoomIds : CreateRoom(r, opponent, c, NoMatch)
             \/ /\ mm' = Released(m, {u, v})
                /\ UNCHANGED <<connVars, roomVars>>
                /\ drain' = IF opponent = NoConn THEN drain ELSE DrainAfter(live)
    BY <1>3 DEF QueueJoinMatches, u, m
  <2>2. /\ v \in mm.queue /\ v \in Users /\ v \notin DeadEntries /\ v # u
        /\ entries[v] \in Conns /\ entries[v] \in Registered /\ UserOf[entries[v]] = v
        /\ EntriesAfterLeaving(DeadEntries)[v] = entries[v] /\ roomOf[entries[v]] = NoRoom
    <3>1. v \in mm.queue /\ v \notin DeadEntries
      BY <1>1
    <3>2. v # u
      BY <1>1, <1>3 DEF QueueJoinMatches, QueueStatus, u, m
    <3>3. roomOf[entries[v]] = NoRoom
      BY <3>1 DEF SeatingFacts, SeatingInv, QueueBacked
    <3> QED BY <3>1, <3>2, <3>3, QueuedFacts DEF EntriesAfterLeaving
  <2>3. c \in Registered /\ roomOf[c] = NoRoom /\ waiters' = waiters /\ entries[v] # c
    BY <1>3, <2>2 DEF QueueJoinMatches, MayJoin, tourVars, u
  <2>4. LinkInv' /\ Registered' = Registered
    <3>1. ASSUME NEW r \in RoomIds, CreateRoom(r, entries[v], c, NoMatch)
          PROVE  LinkInv' /\ Registered' = Registered
      BY <2>2, <2>3, <3>1, SeatsTaken
    <3>2. ASSUME UNCHANGED <<connVars, roomVars>>, drain' = drain \/ drain' = DrainAfter(live)
          PROVE  LinkInv' /\ Registered' = Registered
      BY <3>2, QuietLinks DEF DrainAfter
    <3> QED BY <2>1, <2>2, <3>1, <3>2
  <2>5. mm'.queue = mm.queue \ (DeadEntries \cup {u, v})
    BY <1>1, <2>1 DEF Paired, Released, Reassign
  <2>6. ASSUME NEW w \in mm'.queue
        PROVE  /\ fallback'[w] = fallback[w] /\ entries'[w] = entries[w] /\ byUser'[w] = byUser[w]
               /\ roomOf'[entries[w]] \in {roomOf[entries[w]], NoRoom}
    <3>1. /\ w \in mm.queue /\ w \in Users /\ w \notin DeadEntries \cup {v} /\ w # u
          /\ entries[w] # c /\ entries[w] # entries[v]
      BY <2>2, <2>5, <2>6, QueuedFacts DEF u
    <3>2. fallback'[w] = fallback[w] /\ entries'[w] = entries[w]
      BY <2>1, <3>1 DEF DropEntries, FallbackAfterLeaving, EntriesAfterLeaving
    <3>3. byUser'[w] = byUser[w] /\ roomOf'[entries[w]] = roomOf[entries[w]]
      BY <2>1, <2>2, <3>1, CreateRoomQueue DEF connVars
    <3> QED BY <3>2, <3>3
  <2>7. QueueBacked'
    BY <2>5, <2>6, QueueShrinks
  <2> QED BY <2>3, <2>4, <2>7, SameWaiters, SeatingInvKept
<1>4. CASE QueueJoinAi(c)
  <2>1. /\ LeaveQueues(DeadEntries \cup {u}) /\ DeadEntries \cup {u} \in SUBSET Users
        /\ c \in Registered /\ roomOf[c] = NoRoom /\ waiters' = waiters
    BY <1>0, <1>4 DEF QueueJoinAi, MayJoin, tourVars, u
  <2>2. ASSUME NEW r \in RoomIds, CreateRoom(r, c, NoConn, NoMatch)
        PROVE  LinkInv' /\ Registered' = Registered /\ QueueBacked'
    <3>1. LinkInv' /\ Registered' = Registered
      BY <1>0, <2>1, <2>2, SeatsTaken
    <3>2. ASSUME NEW w \in mm.queue \ (DeadEntries \cup {u})
          PROVE  byUser'[w] = byUser[w] /\ roomOf'[entries[w]] = roomOf[entries[w]]
      <4>1. entries[w] # c /\ entries[w] # NoConn
        BY <1>0, <3>2, QueuedFacts DEF u
      <4> QED BY <2>2, <4>1, CreateRoomQueue
    <3> QED BY <2>1, <3>1, <3>2, LeaversOnly
  <2>3. ASSUME CreateRoomFails
        PROVE  LinkInv' /\ Registered' = Registered /\ QueueBacked'
    <3>1. UNCHANGED <<connVars, roomVars>> /\ (drain' = "closed" <=> drain = "closed")
      BY <2>3 DEF CreateRoomFails, DrainAfter
    <3>2. LinkInv' /\ Registered' = Registered
      BY <3>1, QuietLinks
    <3>3. byUser' = byUser /\ roomOf' = roomOf
      BY <3>1 DEF connVars
    <3> QED BY <2>1, <3>2, <3>3, LeaversOnly
  <2>4. LinkInv' /\ Registered' = Registered /\ QueueBacked'
    BY <1>4, <2>2, <2>3 DEF QueueJoinAi
  <2> QED BY <2>1, <2>4, SameWaiters, SeatingInvKept
<1>5. CASE QueueLeave(c) \/ \E t \in TMatches : TournamentJoin(c, t)
  <2>1. /\ LeaveQueues({u}) /\ {u} \in SUBSET Users /\ UNCHANGED <<connVars, roomVars>>
        /\ drain' = drain /\ byUser' = byUser /\ roomOf' = roomOf
        /\ \A t \in TMatches : waiters'[t] \subseteq waiters[t]
    BY <1>0, <1>5 DEF QueueLeave, TournamentJoin, LeaveWaiters, connVars, hubVars, tourVars, u
  <2>2. LinkInv' /\ Registered' = Registered
    BY <2>1, QuietLinks
  <2>3. QueueBacked'
    BY <2>1, LeaversOnly
  <2> QED BY <2>1, <2>2, <2>3, SameWaiters, SeatingInvKept
<1> QED BY <1>2, <1>3, <1>4, <1>5

LEMMA QueueStepsSeating ==
  ASSUME SeatingFacts, NEW u \in Users, QueueStep(u)
  PROVE  SeatingInv'
<1> DEFINE c == entries[u]
<1>0. /\ ConnTypes /\ EntryTypes /\ MmTypes /\ {u} \in SUBSET Users
      /\ NoConn \notin Conns /\ UserOf \in [Conns -> Users]
  BY LinkFacts DEF SeatingFacts
<1>1. fallback[u] # "off" => c \in Conns /\ UserOf[c] = u
  BY <1>0 DEF SeatingFacts, HubFacts, PeopleInv, EntriesOwn, EntryTypes
<1>2. u \in mm.queue <=> mm.status[u] = "queued"
  BY DEF SeatingFacts, ReservationInv, QueueStatus
<1>3. u \in mm.queue => fallback[u] = "armed"
  BY DEF SeatingFacts, SeatingInv, QueueBacked
<1>4. /\ Released(mm, {u}).queue = mm.queue \ {u}
      /\ Claimed(mm, u).queue = mm.queue \ {u}
  BY DEF Released, Claimed, Reassign
<1> DEFINE OthersStay == \A v \in Users \ {u} : fallback'[v] = fallback[v] /\ entries'[v] = entries[v]
           QueueLeft == mm'.queue \subseteq mm.queue \ {u}
<1>5. ConsumeEntry(u) => OthersStay
  BY <1>0 DEF ConsumeEntry, EntryTypes
\* A step that only takes u out of the queue.
<1>6. ASSUME OthersStay, QueueLeft, UNCHANGED <<connVars, roomVars, waiters>>,
             drain' = "closed" <=> drain = "closed"
      PROVE  SeatingInv'
  <2>1. LinkInv' /\ Registered' = Registered
    BY <1>6, QuietLinks
  <2>2. byUser' = byUser /\ roomOf' = roomOf
    BY <1>6 DEF connVars
  <2>3. QueueBacked'
    BY <1>6, <2>2, QueuedFacts, QueueShrinks
  <2> QED BY <1>6, <2>1, <2>3, SameWaiters, SeatingInvKept
\* A room against the AI for the connection of the entry.
<1>7. ASSUME OthersStay, QueueLeft, UNCHANGED waiters, fallback[u] # "off",
             socket[c] = "open", roomOf[c] = NoRoom,
             NEW r \in RoomIds, CreateRoom(r, c, NoConn, NoMatch)
      PROVE  SeatingInv'
  <2>1. c \in Registered /\ c # NoConn
    BY <1>0, <1>1, <1>7 DEF Registered
  <2>2. LinkInv' /\ Registered' = Registered
    BY <1>7, <2>1, SeatsTaken
  <2>3. ASSUME NEW w \in mm'.queue
        PROVE  /\ fallback'[w] = fallback[w] /\ entries'[w] = entries[w] /\ byUser'[w] = byUser[w]
               /\ roomOf'[entries[w]] \in {roomOf[entries[w]], NoRoom}
    <3>1. w \in mm.queue /\ w \in Users /\ w # u /\ entries[w] # c /\ entries[w] # NoConn
      BY <1>0, <1>1, <1>7, <2>3, QueuedFacts
    <3>2. byUser'[w] = byUser[w] /\ roomOf'[entries[w]] = roomOf[entries[w]]
      BY <1>7, <3>1, CreateRoomQueue
    <3> QED BY <1>7, <3>1, <3>2
  <2>4. QueueBacked'
    BY <1>7, <2>3, QueueShrinks
  <2> QED BY <1>7, <2>2, <2>4, SameWaiters, SeatingInvKept
<1> HIDE DEF OthersStay, QueueLeft
<1>8. CASE FallbackDrops(u)
  <2>1. UNCHANGED <<connVars, roomVars, waiters, drain>>
    BY <1>8 DEF FallbackDrops, tourVars, hubVars
  <2>2. CASE LeaveQueues({u})
    <3>1. mm'.queue = mm.queue \ {u}
      BY <1>0, <2>2, LeaveQueuesFacts
    <3>2. OthersStay
      BY <1>0, <2>2, LeaveQueuesFacts DEF OthersStay
    <3> QED BY <1>6, <2>1, <3>1, <3>2 DEF QueueLeft
  <2>3. CASE ConsumeEntry(u) /\ UNCHANGED mm /\ ClaimAnswer(mm, u, 0) = "unavailable"
    <3>1. u \notin mm.queue
      BY <1>0, <1>2, <2>3 DEF ClaimAnswer
    <3> QED BY <1>5, <1>6, <2>1, <2>3, <3>1 DEF QueueLeft
  <2> QED BY <1>8, <2>2, <2>3 DEF FallbackDrops
<1>9. CASE FallbackAsksNpc(u)
  <2>1. UNCHANGED <<connVars, roomVars, waiters, drain>> /\ OthersStay /\ QueueLeft
    BY <1>0, <1>4, <1>9 DEF FallbackAsksNpc, tourVars, hubVars, OthersStay, QueueLeft, EntryTypes
  <2> QED BY <1>6, <2>1
<1>10. CASE FallbackGuestRoom(u)
  <2>1. /\ OthersStay /\ UNCHANGED waiters /\ fallback[u] # "off"
        /\ socket[c] = "open" /\ roomOf[c] = NoRoom
    BY <1>5, <1>10 DEF FallbackGuestRoom, FallbackReady, tourVars
  <2>2. CASE mm' = Claimed(mm, u) /\ \E r \in RoomIds : CreateRoom(r, c, NoConn, NoMatch)
    BY <1>4, <1>7, <2>1, <2>2 DEF QueueLeft
  <2>3. CASE mm' = Released(mm, {u}) /\ CreateRoomFails
    BY <1>4, <1>6, <2>1, <2>3 DEF QueueLeft, CreateRoomFails, DrainAfter
  <2> QED BY <1>10, <2>2, <2>3 DEF FallbackGuestRoom
<1>11. CASE NpcFound(u)
  <2>1. fallback[u] = "lookup" /\ u \notin mm.queue /\ UNCHANGED waiters
    BY <1>3, <1>11 DEF NpcFound, tourVars
  <2>2. CASE ~accepting \/ socket[c] # "open" \/ roomOf[c] # NoRoom
    <3>1. UNCHANGED <<connVars, roomVars, drain>> /\ OthersStay /\ QueueLeft
      BY <1>0, <1>4, <1>11, <2>2 DEF NpcFound, hubVars, OthersStay, QueueLeft, EntryTypes
    <3> QED BY <1>6, <2>1, <3>1
  <2>3. CASE ~(~accepting \/ socket[c] # "open" \/ roomOf[c] # NoRoom)
    <3>1. OthersStay
      BY <1>5, <1>11, <2>3 DEF NpcFound
    <3>2. CASE UNCHANGED mm /\ \E r \in RoomIds : CreateRoom(r, c, NoConn, NoMatch)
      BY <1>7, <2>1, <2>3, <3>1, <3>2 DEF QueueLeft
    <3>3. CASE mm' = Released(mm, {u}) /\ CreateRoomFails
      BY <1>4, <1>6, <2>1, <3>1, <3>3 DEF QueueLeft, CreateRoomFails, DrainAfter
    <3> QED BY <1>11, <2>3, <3>2, <3>3 DEF NpcFound
  <2> QED BY <2>2, <2>3
<1>12. CASE NpcMissing(u)
  <2>1. UNCHANGED <<connVars, roomVars, waiters, drain>> /\ OthersStay /\ QueueLeft
    BY <1>4, <1>5, <1>12 DEF NpcMissing, tourVars, hubVars, QueueLeft
  <2> QED BY <1>6, <2>1
<1>13. CASE StaleLookupReturns(u)
  <2>1. UNCHANGED <<connVars, roomVars, waiters, drain>> /\ OthersStay /\ QueueLeft
    BY <1>4, <1>13 DEF StaleLookupReturns, tourVars, hubVars, OthersStay, QueueLeft
  <2> QED BY <1>6, <2>1
<1> QED BY <1>8, <1>9, <1>10, <1>11, <1>12, <1>13 DEF QueueStep

LEMMA TournamentStepsSeating ==
  ASSUME SeatingFacts, TournamentStep
  PROVE  SeatingInv'
<1>0. /\ ConnTypes /\ EntryTypes /\ MmTypes /\ RoomTypes /\ WaiterTypes /\ JoinTypes
      /\ NoConn \notin Conns /\ UserOf \in [Conns -> Users]
      /\ HubFacts /\ LinkInv /\ QueueBacked /\ WaitersPresent /\ TournamentsOrderly
  BY LinkFacts DEF SeatingFacts, SeatingInv
\* A step that seats nobody.
<1>1. ASSUME UNCHANGED <<connVars, queueVars, roomVars>>, drain' = "closed" <=> drain = "closed",
             \A m \in TMatches : waiters'[m] \subseteq Registered
      PROVE  SeatingInv'
  <2>1. LinkInv' /\ Registered' = Registered
    BY <1>1, QuietLinks
  <2>2. QueueBacked'
    BY <1>1, QueueShrinks DEF connVars, queueVars
  <2>3. WaitersPresent'
    BY <1>1, <2>1 DEF WaitersPresent
  <2> QED BY <2>1, <2>2, <2>3, SeatingInvKept
<1>2. ASSUME NEW j \in joins, TournamentRead(j) PROVE SeatingInv'
  BY <1>0, <1>1, <1>2 DEF TournamentRead, hubVars, WaitersPresent
<1>3. ASSUME NEW s \in starts, StartSucceeds(s) PROVE SeatingInv'
  BY <1>0, <1>1, <1>3 DEF StartSucceeds, hubVars, WaitersPresent
<1>4. ASSUME NEW j \in joins, TournamentSeats(j) PROVE SeatingInv'
  <2> DEFINE c == j.conn
             m == j.match
  <2>1. /\ c \in Registered /\ c \in Conns /\ m \in TMatches /\ entries[UserOf[c]] = NoConn
        /\ UNCHANGED queueVars
    BY <1>0, <1>4 DEF TournamentsOrderly, JoinTypes, TournamentSeats
  <2>2. ASSUME UNCHANGED <<connVars, roomVars>>, drain' = "closed" <=> drain = "closed",
               waiters' \in {waiters, [waiters EXCEPT ![m] = @ \cup {c}],
                                      [waiters EXCEPT ![m] = {}]}
        PROVE  SeatingInv'
    <3>1. \A t \in TMatches : waiters'[t] \subseteq Registered
      <4> HIDE DEF c, m
      <4> QED BY <1>0, <2>1, <2>2 DEF WaitersPresent, WaiterTypes
    <3> QED BY <1>1, <2>1, <2>2, <3>1
  <2>3. ASSUME roomOf[c] = NoRoom, ~AlreadyWaits(c, m), waiters' = [waiters EXCEPT ![m] = {}],
               NEW w \in WaitingOpponents(m), NEW r \in RoomIds,
               LET left == LeftOf(m, c, w)
               IN  CreateRoom(r, left, IF left = c THEN w ELSE c, m)
        PROVE  SeatingInv'
    <3> DEFINE left == LeftOf(m, c, w)
               right == IF left = c THEN w ELSE c
    <3> HIDE DEF c, m
    <3>1. /\ w \in waiters[m] /\ w \in Conns /\ w \in Registered /\ UserOf[w] # UserOf[c] /\ w # c
          /\ roomOf[w] = NoRoom /\ entries[UserOf[w]] = NoConn
      BY <1>0, <2>1, <2>3 DEF WaitingOpponents, AlreadyWaits, WaitersPresent, TournamentsOrderly,
                              WaiterTypes
    <3>2. left \in {c, w} /\ right \in {c, w} /\ left # right
      BY <3>1 DEF LeftOf
    <3>3. CreateRoom(r, left, right, m)
      BY <2>3
    <3> HIDE DEF left, right
    <3>4. /\ left \in Registered /\ right \in Registered \cup {NoConn}
          /\ roomOf[left] = NoRoom /\ roomOf[right] = NoRoom
      BY <2>1, <2>3, <3>1, <3>2
    <3>5. LinkInv' /\ Registered' = Registered
      BY <3>2, <3>3, <3>4, SeatsTaken
    <3>6. ASSUME NEW v \in mm.queue
          PROVE  byUser'[v] = byUser[v] /\ roomOf'[entries[v]] = roomOf[entries[v]]
      <4>1. entries[v] \in Conns /\ UserOf[entries[v]] = v
        BY QueuedFacts
      <4>2. entries[v] # left /\ entries[v] # right
        BY <1>0, <2>1, <3>1, <3>2, <4>1
      <4> QED BY <3>3, <4>2, CreateRoomQueue
    <3>7. QueueBacked'
      BY <2>1, <3>6, QueueShrinks DEF queueVars
    <3>8. \A t \in TMatches : waiters'[t] \subseteq waiters[t]
      BY <1>0, <2>1, <2>3 DEF WaiterTypes
    <3> QED BY <3>5, <3>7, <3>8, SameWaiters, SeatingInvKept
  <2> QED BY <1>4, <2>2, <2>3 DEF TournamentSeats, CreateRoomFails, DrainAfter, hubVars
<1>5. ASSUME NEW s \in starts, StartFails(s) PROVE SeatingInv'
  <2> DEFINE rm == [rooms[s.room] EXCEPT !.timer = FALSE]
  <2>1. /\ s.room \in RoomIds /\ Registered' = Registered /\ waiters' = waiters
        /\ entries' = entries /\ fallback' = fallback /\ byUser' = byUser
    BY <1>0, <1>5 DEF JoinTypes, StartFails, Registered
  <2>2. CASE s.room \in live
    <3>1. rm.seats = rooms[s.room].seats /\ rm.finishing = FALSE
      BY <1>0, <2>1, <2>2, <1>5, LinkFacts DEF Room, TournamentsOrderly
    <3>2. RemoveRoom(s.room, rm)
      BY <1>5, <2>2 DEF StartFails
    <3> HIDE DEF rm
    <3>3. LinkInv'
      BY <1>0, <2>1, <3>1, <3>2, RemoveRoomLinks DEF Seated
    <3>4. QueueBacked'
      BY <1>0, <2>1, <3>2, QueuedFacts, QueueShrinks DEF RemoveRoom, Released, Reassign
    <3> QED BY <2>1, <3>3, <3>4, SameWaiters, SeatingInvKept
  <2>3. CASE s.room \notin live
    <3>1. UNCHANGED <<mm, roomOf, roomVars, drain>> /\ UNCHANGED connVars
      BY <1>5, <2>3 DEF StartFails, connVars
    <3>2. LinkInv'
      BY <3>1, QuietLinks
    <3>3. QueueBacked'
      BY <2>1, <3>1, QueueShrinks
    <3> QED BY <2>1, <3>2, <3>3, SameWaiters, SeatingInvKept
  <2> QED BY <2>2, <2>3
<1> QED BY <1>2, <1>3, <1>4, <1>5 DEF TournamentStep

\* A room that ends releases its players and takes no connection from the queue.
LEMMA RoomEndsQueue ==
  ASSUME SeatingFacts, NEW r, NEW rm, RemoveRoom(r, rm) \/ FinishRoom(r, rm),
         UNCHANGED <<byUser, entries, fallback>>
  PROVE  QueueBacked'
<1>1. /\ mm'.queue \subseteq mm.queue
      /\ \A c \in Conns : roomOf'[c] \in {roomOf[c], NoRoom}
  BY DEF RemoveRoom, FinishRoom, Released, Reassign
<1> QED BY <1>1, QueuedFacts, QueueShrinks

LEMMA PlayStepsSeating ==
  ASSUME SeatingFacts, NEW r \in RoomIds,
         (\E c \in Conns : Ready(c, r) \/ Pause(c, r) \/ Resume(c, r)) \/ RoomStep(r)
  PROVE  SeatingInv'
<1>0. /\ RoomTypes /\ rooms[r] \in Room /\ rooms[r].session \in Session
      /\ HubFacts /\ LinkInv /\ SeatedUsers(rooms[r]) \in SUBSET Users
  BY LinkFacts, SeatedFacts DEF SeatingFacts, SeatingInv, Room
<1>1. /\ Registered' = Registered
      /\ \A m \in TMatches : waiters'[m] \subseteq waiters[m]
      /\ UNCHANGED <<byUser, entries, fallback>>
  BY DEF Ready, Pause, Resume, RoomStep, GameEnds, ReconnectTimer, FinalizeSucceeds,
         FinalizeFails, connVars, queueVars, tourVars, Registered
\* A step that changes a room and nobody's seat.
<1>2. ASSUME NEW new, rooms' = [rooms EXCEPT ![r] = new],
             new.seats = rooms[r].seats,
             new.session.state = "finished" <=> rooms[r].session.state = "finished",
             new.session.disconnected = rooms[r].session.disconnected,
             UNCHANGED <<roomOf, live, drain>>, mm'.queue \subseteq mm.queue
      PROVE  SeatingInv'
  <2>1. SameLinks
    BY <1>0, <1>1, <1>2 DEF SameLinks, RoomTypes
  <2>2. LinkInv'
    BY <1>0, <2>1, SameLinksKeep
  <2>3. QueueBacked'
    BY <1>1, <1>2, QueueShrinks
  <2> QED BY <1>1, <2>2, <2>3, SameWaiters, SeatingInvKept
\* A step that ends the room.
<1>3. ASSUME NEW rm \in Room, rm.seats = rooms[r].seats,
             \/ FinishRoom(r, rm)
             \/ rm.finishing = FALSE /\ RemoveRoom(r, rm)
      PROVE  SeatingInv'
  <2>1. LinkInv'
    BY <1>0, <1>1, <1>3, RemoveRoomLinks, FinishRoomLinks DEF Seated
  <2>2. QueueBacked'
    BY <1>1, <1>3, RoomEndsQueue
  <2> QED BY <1>1, <2>1, <2>2, SameWaiters, SeatingInvKept
<1>4. ASSUME NEW c \in Conns, Ready(c, r) PROVE SeatingInv'
  <2>1. PICK side \in Sides : rooms' = [rooms EXCEPT ![r] = ReadyRoom(rooms[r], side)]
    BY <1>4 DEF Ready, SidesOf
  <2>2. UNCHANGED <<roomOf, live, drain, mm>>
    BY <1>4 DEF Ready, connVars, hubVars, queueVars
  <2> QED BY <1>0, <1>2, <2>1, <2>2, OpsKeepLinks
<1>5. ASSUME NEW c \in Conns, Pause(c, r) \/ Resume(c, r) PROVE SeatingInv'
  <2>1. UNCHANGED <<roomOf, live, drain, mm>>
    BY <1>5 DEF Pause, Resume, connVars, hubVars, queueVars
  <2>2. PICK s \in {SessionPause(rooms[r].session), SessionResume(rooms[r].session)},
           phase \in {"playing", "paused", rooms[r].phase} :
           rooms' = [rooms EXCEPT ![r].session = s, ![r].phase = phase]
    BY <1>5 DEF Pause, Resume
  <2> DEFINE new == [rooms[r] EXCEPT !.session = s, !.phase = phase]
  <2>3. /\ rooms' = [rooms EXCEPT ![r] = new]
        /\ new.seats = rooms[r].seats /\ new.session = s
    BY <1>0, <2>2 DEF RoomTypes, Room
  <2>4. /\ s.state = "finished" <=> rooms[r].session.state = "finished"
        /\ s.disconnected = rooms[r].session.disconnected
    BY <1>0, OpsKeepLinks
  <2> HIDE DEF new
  <2> QED BY <1>2, <2>1, <2>3, <2>4
<1>6. CASE GameEnds(r)
  <2>1. rooms[r] \in Room /\ FinishRoom(r, rooms[r])
    BY <1>0, <1>6 DEF GameEnds
  <2> QED BY <1>3, <2>1
<1>7. CASE ReconnectTimer(r)
  <2> DEFINE over == [rooms[r] EXCEPT !.timer = FALSE, !.away = {},
                                      !.session = SessionFinish(rooms[r].session)]
  <2>1. over \in Room /\ over.seats = rooms[r].seats /\ over.finishing = FALSE
    <3>1. over \in Room
      BY <1>0, RoomOpsTyped
    <3>2. ~rooms[r].finishing
      BY <1>7 DEF ReconnectTimer
    <3>3. over.seats = rooms[r].seats /\ over.finishing = FALSE
      BY <1>0, <3>2 DEF Room
    <3> QED BY <3>1, <3>3
  <2>2. CASE RemoveRoom(r, over) \/ FinishRoom(r, over)
    <3> HIDE DEF over
    <3> QED BY <1>3, <2>1, <2>2
  <2>3. CASE /\ rooms' = [rooms EXCEPT ![r] = RearmedRoom(rooms[r])]
             /\ UNCHANGED <<mm, roomOf, live, drain>>
    BY <1>0, <1>2, <2>3, OpsKeepLinks
  <2> QED BY <1>7, <2>2, <2>3 DEF ReconnectTimer
<1>8. CASE FinalizeSucceeds(r)
  <2> DEFINE rm == [rooms[r] EXCEPT !.finishing = FALSE]
  <2>1. rm \in Room /\ rm.seats = rooms[r].seats /\ rm.finishing = FALSE
    <3>1. rooms[r] \in Room
      BY <1>0
    <3>2. rm \in Room
      BY <3>1, RoomOpsTyped
    <3>3. rm.seats = rooms[r].seats /\ rm.finishing = FALSE
      BY <3>1 DEF Room
    <3> QED BY <3>2, <3>3
  <2>2. RemoveRoom(r, rm)
    BY <1>8 DEF FinalizeSucceeds
  <2> HIDE DEF rm
  <2> QED BY <1>3, <2>1, <2>2
<1>9. CASE FinalizeFails(r)
  <2> DEFINE rm == [rooms[r] EXCEPT !.finishing = FALSE]
  <2>1. rooms' = [rooms EXCEPT ![r] = rm] /\ UNCHANGED <<roomOf, live, drain>>
    BY <1>9 DEF FinalizeFails, connVars, hubVars
  <2>2. rm.seats = rooms[r].seats /\ rm.session = rooms[r].session
    BY <1>0 DEF Room
  <2>3. mm'.queue \subseteq mm.queue
    BY <1>9 DEF FinalizeFails, Released, Reassign
  <2> HIDE DEF rm
  <2> QED BY <1>2, <2>1, <2>2, <2>3
<1> QED BY <1>4, <1>5, <1>6, <1>7, <1>8, <1>9 DEF RoomStep

LEMMA HubStepsSeating ==
  ASSUME SeatingFacts, BeginDrain \/ DrainTimesOut \/ Close \/ Tick
  PROVE  SeatingInv'
<1>0. /\ EntryTypes /\ MmTypes /\ RoomTypes /\ WaiterTypes /\ Entered \in SUBSET Users
      /\ HubFacts /\ LinkInv /\ \A u \in mm.queue : u \in Entered
      /\ \A r \in RoomIds : rooms[r] \in Room
  BY LinkFacts, QueuedFacts DEF SeatingFacts, SeatingInv, QueueBacked, Entered
<1>1. CASE BeginDrain
  <2>1. /\ LeaveQueues(Entered) /\ UNCHANGED <<connVars, roomVars>>
        /\ drain' = "closed" <=> drain = "closed"
        /\ \A m \in TMatches : waiters'[m] \subseteq waiters[m]
    BY <1>1 DEF BeginDrain
  <2>2. LinkInv' /\ Registered' = Registered
    BY <2>1, QuietLinks
  <2>3. QueueBacked'
    BY <1>0, <2>1, LeaveQueuesFacts DEF QueueBacked
  <2> QED BY <2>1, <2>2, <2>3, SameWaiters, SeatingInvKept
<1>2. CASE DrainTimesOut
  <2>1. /\ UNCHANGED <<connVars, queueVars, roomVars, waiters>>
        /\ drain' = "closed" <=> drain = "closed"
    BY <1>2 DEF DrainTimesOut, tourVars
  <2>2. LinkInv' /\ Registered' = Registered
    BY <2>1, QuietLinks
  <2>3. QueueBacked'
    BY <2>1, QueueShrinks DEF queueVars, connVars
  <2> QED BY <2>1, <2>2, <2>3, SameWaiters, SeatingInvKept
<1>3. CASE Close
  <2>1. live' = {} /\ Registered' = {} /\ drain' = "closed"
    BY <1>3 DEF Close, Registered
  <2>2. LinkInv'
    BY <2>1 DEF LinkInv
  <2>3. mm'.queue = {}
    <3>1. mm'.queue \subseteq MmAfterLeaving(Entered).queue
      BY <1>3 DEF Close, Released, Reassign
    <3>2. MmAfterLeaving(Entered).queue = mm.queue \ Entered
      BY <1>0, LeavingStatus DEF SeatingFacts, ReservationInv
    <3> QED BY <1>0, <3>1, <3>2
  <2>4. WaitersPresent'
    BY <1>3 DEF Close, WaitersPresent
  <2> QED BY <2>2, <2>3, <2>4 DEF SeatingInv, QueueBacked
<1>4. CASE Tick
  <2>1. /\ UNCHANGED <<connVars, entries, fallback, live, waiters, drain>>
        /\ rooms' = [r \in RoomIds |-> AgedRoom(rooms[r])] /\ mm'.queue = mm.queue
    BY <1>0, <1>4 DEF Tick, tourVars, hubVars, MmTypes, MatchmakerState
  <2>2. Registered' = Registered /\ byUser' = byUser /\ roomOf' = roomOf
    BY <2>1 DEF Registered, connVars
  <2>3. SameLinks
    BY <1>0, <2>1, <2>2, OpsKeepLinks DEF SameLinks
  <2>4. LinkInv'
    BY <1>0, <2>3, SameLinksKeep
  <2>5. QueueBacked'
    BY <2>1, <2>2, QueueShrinks
  <2> QED BY <2>1, <2>2, <2>4, <2>5, SameWaiters, SeatingInvKept
<1> QED BY <1>1, <1>2, <1>3, <1>4

\* A step of the hub keeps seats, connections and queue together.
LEMMA SeatingStep ==
  HubFacts /\ ReservationInv /\ TournamentsOrderly /\ SeatingInv /\ [Next]_vars => SeatingInv'
<1> SUFFICES ASSUME HubFacts, ReservationInv, TournamentsOrderly, SeatingInv, [Next]_vars
             PROVE  SeatingInv'
  OBVIOUS
<1>0. SeatingFacts
  BY DEF SeatingFacts
<1>1. ASSUME NEW c \in Conns, ClientStep(c) PROVE SeatingInv'
  BY <1>0, <1>1, ConnectionStepsSeating, JoinStepsSeating, PlayStepsSeating DEF ClientStep
<1>2. ASSUME NEW u \in Users, QueueStep(u) PROVE SeatingInv'
  BY <1>0, <1>2, QueueStepsSeating
<1>3. ASSUME NEW r \in RoomIds, RoomStep(r) PROVE SeatingInv'
  BY <1>0, <1>3, PlayStepsSeating
<1>4. CASE TournamentStep
  BY <1>0, <1>4, TournamentStepsSeating
<1>5. CASE BeginDrain \/ DrainTimesOut \/ Close \/ Tick
  BY <1>0, <1>5, HubStepsSeating
<1>6. CASE UNCHANGED vars
  <2>1. UNCHANGED <<connVars, queueVars, roomVars, waiters, drain>>
    BY <1>6 DEF vars, tourVars, hubVars
  <2>2. LinkInv' /\ Registered' = Registered
    BY <1>0, <2>1, QuietLinks
  <2>3. QueueBacked'
    BY <1>0, <2>1, QueueShrinks DEF queueVars, connVars
  <2> QED BY <1>0, <2>1, <2>2, <2>3, SameWaiters, SeatingInvKept
<1> QED BY <1>1, <1>2, <1>3, <1>4, <1>5, <1>6 DEF Next

LEMMA SeatingGives ==
  ASSUME HubFacts, ReservationsBacked, SeatingInv
  PROVE  SeatsAgree /\ OneRoomPerConnection /\ MatchmakerBacked
<1>1. LinkInv /\ QueueBacked
  BY DEF SeatingInv
<1>2. SeatsAgree
  BY <1>1 DEF LinkInv, LinkedSeats, SeatsAgree, Unfinished
<1>3. OneRoomPerConnection
  BY <1>1, SeatNamesRoom DEF OneRoomPerConnection, Unfinished
<1>4. MatchmakerBacked
  BY <1>1 DEF MatchmakerBacked, ReservationsBacked, QueueBacked
<1> QED BY <1>2, <1>3, <1>4

\* Nothing of a tournament is under way.
Quiet == joins = {} /\ starts = {} /\ \A m \in TMatches : waiters[m] = {}

\* It stays so where nobody may ask for a tournament match.
LEMMA QuietStep ==
  ASSUME "tournament" \notin Inputs
  PROVE  Quiet /\ [Next]_vars => Quiet' /\ ~TournamentStep
<1> SUFFICES ASSUME Quiet, [Next]_vars PROVE Quiet' /\ ~TournamentStep
  OBVIOUS
<1>0. ASSUME UNCHANGED tourVars PROVE Quiet'
  BY <1>0 DEF tourVars, Quiet
<1>1. ASSUME NEW c \in Conns, ClientStep(c) PROVE Quiet'
  <2>1. \A m \in TMatches : ~TournamentJoin(c, m)
    BY DEF TournamentJoin
  <2>2. UNCHANGED <<joins, starts>> /\ (waiters' = waiters \/ \E d : LeaveWaiters(d))
    BY <1>1, <2>1
       DEF ClientStep, Connecting, ConnectReplacing, ConnectRecovering, ConnectFresh,
           SocketCloses, Disconnect, QueueJoinWaits, QueueJoinMatches, QueueJoinAi,
           QueueLeave, Ready, Pause, Resume, tourVars
  <2> QED BY <2>2 DEF LeaveWaiters, Quiet
<1>2. ASSUME NEW u \in Users, QueueStep(u) PROVE UNCHANGED tourVars
  BY <1>2 DEF QueueStep, FallbackDrops, FallbackAsksNpc, FallbackGuestRoom, NpcFound,
              NpcMissing, StaleLookupReturns
<1>3. ASSUME NEW r \in RoomIds, RoomStep(r) PROVE UNCHANGED <<joins, starts, waiters>>
  BY <1>3 DEF RoomStep, GameEnds, ReconnectTimer, FinalizeSucceeds, FinalizeFails, tourVars
<1>4. ~TournamentStep
  BY DEF TournamentStep, Quiet
<1>5. ASSUME BeginDrain \/ DrainTimesOut \/ Close \/ Tick PROVE Quiet'
  BY <1>5 DEF BeginDrain, DrainTimesOut, Close, Tick, tourVars, Quiet
<1>6. ASSUME UNCHANGED vars PROVE Quiet'
  BY <1>0, <1>6 DEF vars
<1> QED BY <1>0, <1>1, <1>2, <1>3, <1>4, <1>5, <1>6 DEF Next, Quiet

LEMMA QuietKept ==
  ASSUME "tournament" \notin Inputs
  PROVE  Spec => []Quiet
<1>1. Init => Quiet
  BY DEF Init, Quiet
<1> QED BY <1>1, QuietStep, PTL DEF Spec

LEMMA QuietOrderly == Quiet => TournamentsOrderly
  BY DEF Quiet, TournamentsOrderly

LEMMA SeatingKept ==
  ASSUME "tournament" \notin Inputs
  PROVE  Spec => []SeatingInv
<1>1. Init => SeatingInv
  <2> SUFFICES ASSUME Init PROVE SeatingInv
    OBVIOUS
  <2>1. Registered = {} /\ live = {} /\ drain = "serving" /\ mm.queue = {}
    BY DEF Init, Registered, NewMatchmaker
  <2>2. \A r \in RoomIds : Seated(rooms[r]) = {}
    BY DEF Init, UnusedRoom, Seated
  <2>3. WaitersPresent
    BY DEF Init, WaitersPresent
  <2> QED BY <2>1, <2>2, <2>3 DEF SeatingInv, LinkInv, QueueBacked
<1> QED BY <1>1, SeatingStep, QuietKept, QuietOrderly, HubFactsKept, ReservationsInvKept, PTL DEF Spec

\* Where nobody plays tournaments seats and connections agree through every
\* loss, replacement and recovery of a connection, whatever queue and timers do.
THEOREM SeatsFollow ==
  ASSUME "tournament" \notin Inputs
  PROVE  Spec => []SeatsAgree
<1>1. HubFacts /\ ReservationInv /\ SeatingInv => SeatsAgree
  BY SeatingGives DEF ReservationInv
<1> QED BY <1>1, HubFactsKept, ReservationsInvKept, SeatingKept, PTL

\* ... one connection never plays in two unfinished rooms, whichever of queue,
\* NPC, AI and recovery brings it there.
THEOREM OneRoomEach ==
  ASSUME "tournament" \notin Inputs
  PROVE  Spec => []OneRoomPerConnection
<1>1. HubFacts /\ ReservationInv /\ SeatingInv => OneRoomPerConnection
  BY SeatingGives DEF ReservationInv
<1> QED BY <1>1, HubFactsKept, ReservationsInvKept, SeatingKept, PTL

\* ... and whoever the matchmaker may still pair has a queue entry with a
\* running timer and the user's present connection, which is in no room.
THEOREM QueueHolds ==
  ASSUME "tournament" \notin Inputs
  PROVE  Spec => []MatchmakerBacked
<1>1. HubFacts /\ ReservationInv /\ SeatingInv => MatchmakerBacked
  BY SeatingGives DEF ReservationInv
<1> QED BY <1>1, HubFactsKept, ReservationsInvKept, SeatingKept, PTL

-----------------------------------------------------------------------------
(* The drain *)

\* What a drain that has begun holds on to: it is known to the handlers, nobody
\* is queued, every room whose result is being stored is still in this.rooms, so
\* that "drained" tells of these too.
DrainInv ==
    /\ accepting <=> drain = "serving"
    /\ ~accepting => mm.queue = {}
    /\ drain # "closed" => \A r \in RoomIds : rooms[r].finishing => r \in live
    /\ drain = "drained" => live = {}

\* The step of NoNewMatchesInDrain.
Refuses == ~accepting => live' \subseteq live /\ mm'.queue = {} /\ ~accepting'

LEMMA DrainKeeps ==
  ASSUME DrainInv, accepting' = accepting, drain' \in {drain, DrainAfter(live')},
         accepting \/ (live' \subseteq live /\ mm'.queue \subseteq mm.queue),
         drain # "closed" => \A r \in RoomIds : rooms'[r].finishing => r \in live'
  PROVE  DrainInv' /\ Refuses
  BY DEF DrainInv, Refuses, DrainAfter

\* The same for a step that leaves this.rooms and the calls to finalizeMatch.
LEMMA SameGamesDrain ==
  ASSUME DrainInv, accepting' = accepting, drain' \in {drain, DrainAfter(live')},
         live' = live, accepting \/ mm'.queue \subseteq mm.queue,
         \A r \in RoomIds : rooms'[r].finishing = rooms[r].finishing
  PROVE  DrainInv' /\ Refuses
  BY DrainKeeps DEF DrainInv

\* A room is opened, or the observer takes it back.
LEMMA OpenedDrain ==
  ASSUME RoomTypes, DrainInv, accepting,
         \/ \E r \in RoomIds : \E left, right, match : CreateRoom(r, left, right, match)
         \/ CreateRoomFails
  PROVE  DrainInv' /\ Refuses
<1>1. ASSUME NEW r \in RoomIds, NEW left, NEW right, NEW match,
             CreateRoom(r, left, right, match)
      PROVE  DrainInv' /\ Refuses
  <2>1. \A q \in RoomIds : rooms'[q].finishing => q \in live
    BY <1>1 DEF CreateRoom, NewRoom, RoomTypes, DrainInv
  <2> QED BY <1>1, <2>1, DrainKeeps DEF CreateRoom
<1>2. CASE CreateRoomFails
  BY <1>2, SameGamesDrain DEF CreateRoomFails, roomVars
<1> QED BY <1>1, <1>2

\* A room leaves this.rooms with no result being stored, or with a call for it.
LEMMA RoomEndsDrain ==
  ASSUME RoomTypes, DrainInv, NEW r \in RoomIds, NEW rm \in Room, accepting' = accepting,
         \/ RemoveRoom(r, rm) /\ ~rm.finishing
         \/ FinishRoom(r, rm) /\ r \in live
  PROVE  DrainInv' /\ Refuses
<1>1. ASSUME NEW room \in Room, RemoveRoom(r, room), ~room.finishing
      PROVE  DrainInv' /\ Refuses
  <2>1. drain # "closed" => \A q \in RoomIds : rooms'[q].finishing => q \in live'
    BY <1>1 DEF RemoveRoom, UnusedRoom, RoomTypes, DrainInv
  <2>2. mm'.queue \subseteq mm.queue
    BY <1>1 DEF RemoveRoom, Released, Reassign
  <2> QED BY <1>1, <2>1, <2>2, DrainKeeps DEF RemoveRoom
<1>2. ASSUME FinishRoom(r, rm), r \in live, rm.guest PROVE DrainInv' /\ Refuses
  <2> DEFINE over == [FinishedRoom(rm) EXCEPT !.finishing = FALSE]
  <2>1. over \in Room
    BY RoomOpsTyped
  <2>2. ~over.finishing
    BY RoomOpsTyped, FinishedRoom(rm) \in Room DEF Room
  <2>3. RemoveRoom(r, over)
    BY <1>2 DEF FinishRoom
  <2> HIDE DEF over
  <2> QED BY <1>1, <2>1, <2>2, <2>3
<1>3. ASSUME FinishRoom(r, rm), r \in live, ~rm.guest PROVE DrainInv' /\ Refuses
  <2>1. drain # "closed" => \A q \in RoomIds : rooms'[q].finishing => q \in live'
    BY <1>3 DEF FinishRoom, RoomTypes, DrainInv
  <2> QED BY <1>3, <2>1, DrainKeeps DEF FinishRoom
<1> QED BY <1>1, <1>2, <1>3

\* Players leave the queue.
LEMMA LeaversDrain ==
  ASSUME SeatingFacts, NEW U \in SUBSET Users
  PROVE  /\ MmAfterLeaving(U).queue \subseteq mm.queue
         /\ Entered \subseteq U => MmAfterLeaving(U).queue = {}
<1>1. MmAfterLeaving(U).queue = mm.queue \ U
  BY LinkFacts, LeavingStatus DEF SeatingFacts, ReservationInv
<1>2. mm.queue \subseteq Entered
  BY QueuedFacts DEF Entered, SeatingFacts, SeatingInv, QueueBacked
<1> QED BY <1>1, <1>2

LEMMA ClientStepsDrain ==
  ASSUME SeatingFacts, DrainInv, NEW c \in Conns, ClientStep(c)
  PROVE  DrainInv' /\ Refuses
<1>0. /\ RoomTypes /\ UserOf[c] \in Users /\ DeadEntries \in SUBSET Users
      /\ \A r \in RoomIds : rooms[r] \in Room
  BY LinkFacts DEF SeatingFacts, DeadEntries
<1>1. CASE Connecting(c) \/ SocketCloses(c) \/ Disconnect(c)
  <2>1. mm'.queue \subseteq mm.queue
    BY <1>0, <1>1, LeaversDrain
       DEF Connecting, ConnectReplacing, ConnectRecovering, ConnectFresh, SocketCloses,
           Disconnect, LeaveQueues, queueVars
  <2>2. \A r \in RoomIds : rooms'[r].finishing = rooms[r].finishing
    <3>1. CASE ConnectReplacing(c)
      BY <1>0, <3>1 DEF ConnectReplacing, RoomTypes, Room
    <3>2. CASE ConnectRecovering(c)
      BY <1>0, <3>2 DEF ConnectRecovering, RecoveredRoom, RoomTypes, Room
    <3>3. CASE Disconnect(c)
      <4>1. \A r \in RoomIds, side \in Sides :
               ReservedRoom(rooms[r], side).finishing = rooms[r].finishing
        BY <1>0 DEF ReservedRoom, Room
      <4> QED BY <1>0, <3>3, <4>1 DEF Disconnect, RoomTypes
    <3>4. CASE ConnectFresh(c) \/ SocketCloses(c)
      BY <3>4 DEF ConnectFresh, SocketCloses, roomVars
    <3> QED BY <1>1, <3>1, <3>2, <3>3, <3>4 DEF Connecting
  <2>3. UNCHANGED <<live, accepting, drain>>
    BY <1>1 DEF Connecting, ConnectReplacing, ConnectRecovering, ConnectFresh, SocketCloses,
                Disconnect, roomVars, hubVars
  <2> QED BY <2>1, <2>2, <2>3, SameGamesDrain
<1>2. CASE QueueJoinWaits(c)
  BY <1>2, SameGamesDrain DEF QueueJoinWaits, MayJoin, roomVars, hubVars
<1>3. CASE QueueJoinMatches(c)
  <2>1. accepting
    BY <1>3 DEF QueueJoinMatches, MayJoin
  <2>2. CASE \E r \in RoomIds : \E left, right, match : CreateRoom(r, left, right, match)
    BY <1>0, <2>1, <2>2, OpenedDrain
  <2>3. CASE UNCHANGED <<roomVars, accepting>> /\ drain' \in {drain, DrainAfter(live)}
    BY <2>1, <2>3, SameGamesDrain DEF roomVars
  <2> QED BY <1>3, <2>2, <2>3 DEF QueueJoinMatches
<1>4. CASE QueueJoinAi(c)
  BY <1>0, <1>4, OpenedDrain DEF QueueJoinAi, MayJoin
<1>5. CASE QueueLeave(c) \/ \E m \in TMatches : TournamentJoin(c, m)
  <2>1. mm'.queue \subseteq mm.queue
    BY <1>0, <1>5, LeaversDrain DEF QueueLeave, TournamentJoin, LeaveQueues
  <2> QED BY <1>5, <2>1, SameGamesDrain DEF QueueLeave, TournamentJoin, roomVars, hubVars
<1>6. ASSUME NEW r \in RoomIds, Ready(c, r) \/ Pause(c, r) \/ Resume(c, r)
      PROVE  DrainInv' /\ Refuses
  <2>1. \A q \in RoomIds : rooms'[q].finishing = rooms[q].finishing
    <3>1. CASE Ready(c, r)
      BY <1>0, <3>1 DEF Ready, ReadyRoom, RoomTypes, Room
    <3>2. ASSUME NEW s, NEW p, rooms' = [rooms EXCEPT ![r].session = s, ![r].phase = p]
          PROVE  \A q \in RoomIds : rooms'[q].finishing = rooms[q].finishing
      BY <1>0, <3>2 DEF RoomTypes, Room
    <3>3. CASE Pause(c, r)
      BY <3>2, <3>3 DEF Pause
    <3>4. CASE Resume(c, r)
      BY <3>2, <3>4 DEF Resume
    <3> QED BY <1>6, <3>1, <3>3, <3>4
  <2> QED BY <1>6, <2>1, SameGamesDrain DEF Ready, Pause, Resume, queueVars, hubVars
<1> QED BY <1>1, <1>2, <1>3, <1>4, <1>5, <1>6 DEF ClientStep

LEMMA QueueStepsDrain ==
  ASSUME SeatingFacts, DrainInv, NEW u \in Users, QueueStep(u)
  PROVE  DrainInv' /\ Refuses
<1>0. RoomTypes
  BY LinkFacts DEF SeatingFacts
<1>1. CASE /\ accepting
           /\ \/ \E r \in RoomIds : \E left, right, match : CreateRoom(r, left, right, match)
              \/ CreateRoomFails
  BY <1>0, <1>1, OpenedDrain
<1>2. CASE UNCHANGED <<roomVars, hubVars>> /\ mm'.queue \subseteq mm.queue
  BY <1>2, SameGamesDrain DEF roomVars, hubVars
<1>3. CASE FallbackDrops(u)
  BY <1>2, <1>3, LeaversDrain DEF FallbackDrops, LeaveQueues
<1>4. CASE FallbackGuestRoom(u)
  BY <1>1, <1>4 DEF FallbackGuestRoom
<1>5. CASE NpcFound(u)
  BY <1>1, <1>2, <1>5 DEF NpcFound, Released, Reassign
<1>6. CASE FallbackAsksNpc(u) \/ NpcMissing(u) \/ StaleLookupReturns(u)
  BY <1>2, <1>6
     DEF FallbackAsksNpc, NpcMissing, StaleLookupReturns, Claimed, Released, Reassign
<1> QED BY <1>3, <1>4, <1>5, <1>6 DEF QueueStep

LEMMA RoomStepsDrain ==
  ASSUME SeatingFacts, DrainInv, NEW r \in RoomIds, RoomStep(r)
  PROVE  DrainInv' /\ Refuses
<1> DEFINE over == [rooms[r] EXCEPT !.timer = FALSE, !.away = {}, !.session = SessionFinish(@)]
           stored == [rooms[r] EXCEPT !.finishing = FALSE]
<1>0. /\ RoomTypes /\ rooms[r] \in Room /\ RoomsInv
      /\ over \in Room /\ over.finishing = rooms[r].finishing
      /\ stored \in Room /\ ~stored.finishing
      /\ SessionFinish(rooms[r].session) \in Session
  <2>1. RoomTypes /\ rooms[r] \in Room /\ RoomsInv
    BY LinkFacts DEF SeatingFacts, HubFacts
  <2>2. SessionFinish(rooms[r].session) \in Session
    BY <2>1, SessionTyped DEF Room, Sides
  <2> QED BY <2>1, <2>2 DEF Room
<1> HIDE DEF over, stored
<1>1. CASE GameEnds(r)
  <2>1. r \in live /\ FinishRoom(r, rooms[r]) /\ accepting' = accepting
    BY <1>0, <1>1 DEF GameEnds, RoomsInv
  <2> QED BY <1>0, <2>1, RoomEndsDrain
<1>2. CASE ReconnectTimer(r)
  <2>1. CASE RemoveRoom(r, over) \/ FinishRoom(r, over)
    <3>1. ~over.finishing /\ r \in live /\ accepting' = accepting
      BY <1>0, <1>2 DEF ReconnectTimer
    <3> QED BY <1>0, <2>1, <3>1, RoomEndsDrain
  <2>2. CASE rooms' = [rooms EXCEPT ![r] = RearmedRoom(rooms[r])] /\ UNCHANGED <<mm, live, drain>>
    <3>1. \A q \in RoomIds : rooms'[q].finishing = rooms[q].finishing
      BY <1>0, <2>2 DEF RearmedRoom, RoomTypes, Room
    <3> QED BY <1>2, <2>2, <3>1, SameGamesDrain DEF ReconnectTimer
  <2> QED BY <1>2, <2>1, <2>2 DEF ReconnectTimer, over
<1>3. CASE FinalizeSucceeds(r)
  <2>1. RemoveRoom(r, stored) /\ accepting' = accepting
    BY <1>3 DEF FinalizeSucceeds, stored
  <2> QED BY <1>0, <2>1, RoomEndsDrain
<1>4. CASE FinalizeFails(r)
  <2>1. drain # "closed" => \A q \in RoomIds : rooms'[q].finishing => q \in live'
    BY <1>0, <1>4 DEF FinalizeFails, DrainInv, RoomTypes, Room
  <2>2. mm'.queue \subseteq mm.queue
    BY <1>4 DEF FinalizeFails, Released, Reassign
  <2> QED BY <1>4, <2>1, <2>2, DrainKeeps DEF FinalizeFails, hubVars
<1> QED BY <1>1, <1>2, <1>3, <1>4 DEF RoomStep

LEMMA HubStepsDrain ==
  ASSUME SeatingFacts, DrainInv, BeginDrain \/ DrainTimesOut \/ Close \/ Tick
  PROVE  DrainInv' /\ Refuses
<1>0. /\ RoomTypes /\ Entered \in SUBSET Users
      /\ \A r \in RoomIds : rooms[r] \in Room
  BY LinkFacts DEF SeatingFacts, Entered
<1>1. CASE BeginDrain
  <2>1. mm'.queue = {}
    BY <1>0, <1>1, LeaversDrain DEF BeginDrain, LeaveQueues
  <2> QED BY <1>1, <2>1 DEF BeginDrain, DrainInv, Refuses, roomVars
<1>2. CASE DrainTimesOut
  BY <1>2 DEF DrainTimesOut, DrainInv, Refuses, queueVars, roomVars
<1>3. CASE Close
  <2>1. mm'.queue = {}
    <3>1. MmAfterLeaving(Entered).queue = {}
      BY <1>0, LeaversDrain
    <3> HIDE DEF MmAfterLeaving
    <3> QED BY <1>3, <3>1 DEF Close, Released, Reassign
  <2> QED BY <1>3, <2>1 DEF Close, DrainInv, Refuses
<1>4. CASE Tick
  <2>1. \A r \in RoomIds : rooms'[r].finishing = rooms[r].finishing
    BY <1>0, <1>4 DEF Tick, AgedRoom, RoomTypes, Room
  <2>2. mm'.queue = mm.queue
    BY <1>4, LinkFacts DEF Tick, SeatingFacts, MmTypes, MatchmakerState
  <2> QED BY <1>4, <2>1, <2>2, SameGamesDrain DEF Tick, hubVars
<1> QED BY <1>1, <1>2, <1>3, <1>4

\* A step outside the tournaments keeps a drain true and opens no match in it.
LEMMA DrainStep ==
  ASSUME SeatingFacts, DrainInv, [Next]_vars, ~TournamentStep
  PROVE  DrainInv' /\ Refuses
<1>1. CASE UNCHANGED vars
  BY <1>1, SameGamesDrain DEF vars, queueVars, roomVars, hubVars
<1> QED BY <1>1, ClientStepsDrain, QueueStepsDrain, RoomStepsDrain, HubStepsDrain DEF Next

\* Where nobody plays tournaments no match is opened in a drain and nobody is
\* queued, however late timers, NPC queries and results come.
THEOREM DrainRefuses ==
  ASSUME "tournament" \notin Inputs
  PROVE  Spec => NoNewMatchesInDrain
<1>1. Init => DrainInv
  BY DEF Init, DrainInv, UnusedRoom
<1>2. HubFacts /\ ReservationInv /\ SeatingInv /\ Quiet => SeatingFacts
  BY QuietOrderly DEF SeatingFacts
<1>3. SeatingFacts /\ DrainInv /\ [Next]_vars /\ ~TournamentStep => DrainInv' /\ Refuses
  BY DrainStep
<1>4. Refuses => [Refuses]_vars
  OBVIOUS
<1>5. Spec => [][Refuses]_vars
  BY <1>1, <1>2, <1>3, <1>4, QuietStep, QuietKept, HubFactsKept,
     ReservationsInvKept, SeatingKept, PTL DEF Spec
<1> QED BY <1>5 DEF NoNewMatchesInDrain, Refuses

-----------------------------------------------------------------------------
(* The hub inside the process *)

\* What a step of the process does to the hub: one of the hub's own steps, which
\* is no tournament step, or app.close(), which the hub does not know of.
LEMMA ProcessSteps ==
  ASSUME [ProcessNext]_allVars
  PROVE  [Next]_vars \/ AppCloses
<1>1. ASSUME HubStep PROVE Next
  BY <1>1 DEF HubStep, FinalizeAnswered, RoomStep, Next
<1>2. CASE Shutdown \/ HubCloses
  BY <1>2 DEF Shutdown, HubCloses, Next
<1>3. CASE \/ Listen \/ ListenFails \/ SignalAgain \/ ListenerClosed \/ PoolEnds \/ Exits
           \/ Probe \/ DatabaseReads \/ AnswerProbe
  BY <1>3 DEF Listen, ListenFails, SignalAgain, ListenerClosed, PoolEnds, Exits, Probe,
              DatabaseReads, AnswerProbe
<1>4. CASE UNCHANGED allVars
  BY <1>4 DEF allVars
<1> QED BY <1>1, <1>2, <1>3, <1>4 DEF ProcessNext

\* app.close() takes no connection from this.clients.
LEMMA ClosingFacts ==
  ASSUME ConnTypes, AppCloses
  PROVE  /\ ConnTypes' /\ Registered' = Registered
         /\ UNCHANGED <<roomOf, byUser, queueVars, roomVars, tourVars, hubVars>>
  BY DEF AppCloses, ConnTypes, Registered

LEMMA ClosingHubFacts ==
  ASSUME HubFacts, AppCloses
  PROVE  HubFacts'
<1>1. /\ ConnTypes' /\ Registered' = Registered
      /\ UNCHANGED <<roomOf, byUser, queueVars, roomVars, tourVars, hubVars>>
  BY ClosingFacts, LinkFacts
<1>2. TypeInv'
  BY <1>1, SameTypes DEF HubFacts, TypeInv, queueVars, tourVars
<1>3. RoomsInv'
  BY <1>1, SameRooms DEF HubFacts
<1>4. PeopleInv'
  BY <1>1, SamePeople DEF HubFacts, PeopleInv, queueVars, roomVars, tourVars
<1>5. OneConnectionPerUser'
  BY <1>1 DEF HubFacts, OneConnectionPerUser
<1> QED BY <1>2, <1>3, <1>4, <1>5 DEF HubFacts

LEMMA ClosingSeating ==
  ASSUME SeatingFacts, AppCloses
  PROVE  ReservationInv' /\ SeatingInv'
<1>1. /\ Registered' = Registered /\ HubFacts /\ LinkInv
      /\ UNCHANGED <<roomOf, byUser, queueVars, roomVars, tourVars, hubVars>>
  BY ClosingFacts, LinkFacts DEF SeatingFacts, SeatingInv
<1>2. ReservationInv'
  BY <1>1, SameUsersStay, SameReservations DEF SeatingFacts, queueVars, roomVars
<1>3. LinkInv'
  BY <1>1, SameLinksKeep DEF SameLinks, roomVars, hubVars
<1>4. QueueBacked'
  BY <1>1, QueueShrinks DEF queueVars
<1>5. WaitersPresent'
  BY <1>1, SameWaiters DEF tourVars
<1> QED BY <1>2, <1>3, <1>4, <1>5, SeatingInvKept

LEMMA ClosingDrain ==
  ASSUME DrainInv, AppCloses
  PROVE  DrainInv'
  BY SameGamesDrain DEF AppCloses, queueVars, roomVars, hubVars

\* With no tournament matches there are no calls for them.
LEMMA NoMatchesNoCalls ==
  ASSUME NoTournaments, HubFacts
  PROVE  Quiet
  BY LinkFacts DEF NoTournaments, JoinTypes, Quiet

\* What the process keeps of the hub.
HubInv == HubFacts /\ ReservationInv /\ SeatingInv /\ DrainInv

LEMMA InitialHub == Init => HubInv /\ Quiet
<1> SUFFICES ASSUME Init PROVE HubInv /\ Quiet
  OBVIOUS
<1>1. TypeInv
  BY NewMatchmakerFacts, UnusedRoomTyped
     DEF Init, TypeInv, ConnTypes, EntryTypes, MmTypes, RoomTypes, WaiterTypes, JoinTypes,
         StatusTypes, HubTypes
<1>2. RoomsInv /\ PeopleInv /\ OneConnectionPerUser
  BY UnusedRoomShape, UnusedSeats
     DEF Init, RoomsInv, PeopleInv, EntriesOwn, NoGuestsInTournaments, SeatsInv,
         OneConnectionPerUser, Registered
<1>3. ReservationInv
  BY DEF Init, ReservationInv, QueueStatus, ReservationsBacked, NewMatchmaker
<1>4. SeatingInv
  <2>1. Registered = {} /\ live = {} /\ drain = "serving" /\ mm.queue = {}
    BY DEF Init, Registered, NewMatchmaker
  <2>2. \A r \in RoomIds : Seated(rooms[r]) = {}
    BY DEF Init, UnusedRoom, Seated
  <2>3. WaitersPresent
    BY DEF Init, WaitersPresent
  <2> QED BY <2>1, <2>2, <2>3 DEF SeatingInv, LinkInv, QueueBacked
<1>5. DrainInv
  BY DEF Init, DrainInv, UnusedRoom
<1>6. Quiet
  BY DEF Init, Quiet
<1> QED BY <1>1, <1>2, <1>3, <1>4, <1>5, <1>6 DEF HubInv, HubFacts

LEMMA HubInvStep ==
  ASSUME NoTournaments
  PROVE  HubInv /\ [ProcessNext]_allVars => HubInv' /\ (SeatingFacts /\ ~TournamentStep)
<1> SUFFICES ASSUME HubInv, [ProcessNext]_allVars
             PROVE  HubInv' /\ (SeatingFacts /\ ~TournamentStep)
  OBVIOUS
<1>1. Quiet
  BY NoMatchesNoCalls DEF HubInv
<1>2. SeatingFacts /\ ~TournamentStep
  BY <1>1, QuietOrderly DEF HubInv, SeatingFacts, TournamentStep, Quiet
<1>3. CASE [Next]_vars
  <2>1. HubFacts'
    BY <1>3, TypesStep, SingleStep, RoomsStep, PeopleStep DEF HubInv, HubFacts
  <2>2. ReservationInv'
    BY <1>3, ReservationsStep DEF HubInv
  <2>3. SeatingInv'
    BY <1>2, <1>3, SeatingStep DEF SeatingFacts
  <2>4. DrainInv'
    BY <1>2, <1>3, DrainStep DEF HubInv
  <2> QED BY <1>2, <2>1, <2>2, <2>3, <2>4 DEF HubInv
<1>4. CASE AppCloses
  BY <1>2, <1>4, ClosingHubFacts, ClosingSeating, ClosingDrain DEF HubInv
<1> QED BY <1>3, <1>4, ProcessSteps

\* The shutdown leaves the hub whole: its invariants hold in the process too.
LEMMA HubInvKept ==
  ASSUME NoTournaments
  PROVE  ProcessSpec => []HubInv
<1>1. ProcessInit => HubInv
  BY InitialHub DEF ProcessInit
<1> QED BY <1>1, HubInvStep, PTL DEF ProcessSpec

\* Guests and registered users never meet in a room, before, in or after the
\* shutdown.
THEOREM GuestsApartInProcess ==
  ASSUME NoTournaments
  PROVE  ProcessSpec => []GuestsApart
<1>1. HubInv => GuestsApart
  BY LinkFacts DEF HubInv, SeatInv, GuestsApart, RoomTypes
<1> QED BY <1>1, HubInvKept, PTL

\* While sockets, listener and pool are being closed seats still agree with
\* connections, nobody plays in two rooms, no reservation or queue entry leaks,
\* rooms follow their sessions and no result is stored twice.
THEOREM HubWholeInProcess ==
  ASSUME NoTournaments
  PROVE  ProcessSpec => [](/\ SeatsAgree /\ OneRoomPerConnection /\ MatchmakerBacked
                           /\ OneConnectionPerUser /\ RoomMirrorsSession /\ FinalizedOnce)
<1>1. HubInv => SeatsAgree /\ OneRoomPerConnection /\ MatchmakerBacked
  BY SeatingGives DEF HubInv, ReservationInv
<1>2. HubInv => RoomMirrorsSession /\ FinalizedOnce /\ OneConnectionPerUser
  BY LinkFacts
     DEF HubInv, HubFacts, RoomTypes, RoomsInv, RoomShape, RoomMirrorsSession, FinalizedOnce
<1> QED BY <1>1, <1>2, HubInvKept, PTL

\* A drain that has begun opens no match and queues nobody, whatever answers,
\* timers and close events come while the process ends around it.
THEOREM DrainRefusesInProcess ==
  ASSUME NoTournaments
  PROVE  ProcessSpec => NoNewMatchesInDrain
<1>1. HubInv /\ [ProcessNext]_allVars => [Refuses]_vars
  <2> SUFFICES ASSUME HubInv, [ProcessNext]_allVars PROVE [Refuses]_vars
    OBVIOUS
  <2>1. SeatingFacts /\ ~TournamentStep /\ DrainInv
    BY HubInvStep DEF HubInv
  <2>2. CASE [Next]_vars
    BY <2>1, <2>2, DrainStep
  <2>3. CASE AppCloses
    BY <2>1, <2>3 DEF AppCloses, Refuses, DrainInv, queueVars, roomVars, hubVars
  <2> QED BY <2>2, <2>3, ProcessSteps
<1>2. ProcessSpec => [][Refuses]_vars
  BY <1>1, HubInvKept, PTL DEF ProcessSpec
<1> QED BY <1>2 DEF NoNewMatchesInDrain, Refuses

-----------------------------------------------------------------------------
(* The order of the shutdown *)

\* How far the process is and how far the drain is go together, and the pool is
\* ended only when nothing is connected any more.
LifeInv ==
    /\ life \in {"starting", "up"} => drain = "serving"
    /\ life = "draining" => drain \in {"waiting", "drained", "timedOut"}
    /\ life \in {"closing", "ending"} => drain \in {"drained", "timedOut"}
    /\ life = "closed" => drain = "closed"
    /\ life = "killed" => drain \in {"drained", "timedOut", "closed"}
    /\ pool # "open" => life \in {"ending", "closed", "killed", "exited"}

\* Of its own a hub that drains only comes to the result of the drain.
DrainMoves == drain' = drain \/ (drain = "waiting" /\ drain' \in {"drained", "timedOut"})

LEMMA RoomsMoveDrain ==
  ASSUME \/ \E r, left, right, match : CreateRoom(r, left, right, match)
         \/ CreateRoomFails
         \/ \E r, rm : RemoveRoom(r, rm) \/ FinishRoom(r, rm)
         \/ UNCHANGED hubVars
  PROVE  DrainMoves
  BY DEF CreateRoom, CreateRoomFails, RemoveRoom, FinishRoom, DrainAfter, DrainMoves, hubVars

LEMMA HubStepMovesDrain ==
  ASSUME HubStep
  PROVE  DrainMoves
<1>1. ASSUME NEW c \in Conns, ClientStep(c) PROVE DrainMoves
  <2>1. CASE QueueJoinMatches(c)
    <3>1. CASE drain' \in {drain, DrainAfter(live)}
      BY <3>1 DEF DrainAfter, DrainMoves
    <3> QED BY <2>1, <3>1, RoomsMoveDrain DEF QueueJoinMatches
  <2>2. CASE QueueJoinAi(c)
    BY <2>2, RoomsMoveDrain DEF QueueJoinAi
  <2>3. CASE ~QueueJoinMatches(c) /\ ~QueueJoinAi(c)
    <3>1. UNCHANGED hubVars
      BY <1>1, <2>3
         DEF ClientStep, Connecting, ConnectReplacing, ConnectRecovering, ConnectFresh,
             SocketCloses, Disconnect, QueueJoinWaits, QueueLeave, TournamentJoin, Ready,
             Pause, Resume
    <3> QED BY <3>1, RoomsMoveDrain
  <2> QED BY <2>1, <2>2, <2>3
<1>2. ASSUME NEW u \in Users, QueueStep(u) PROVE DrainMoves
  BY <1>2, RoomsMoveDrain
     DEF QueueStep, FallbackDrops, FallbackAsksNpc, FallbackGuestRoom, NpcFound, NpcMissing,
         StaleLookupReturns
<1>3. ASSUME NEW r \in RoomIds, GameEnds(r) \/ ReconnectTimer(r) \/ FinalizeAnswered(r)
      PROVE  DrainMoves
  <2>1. CASE GameEnds(r)
    BY <2>1, RoomsMoveDrain DEF GameEnds
  <2>2. CASE ReconnectTimer(r)
    <3>1. CASE drain' = drain
      BY <3>1 DEF DrainMoves
    <3> QED BY <2>2, <3>1, RoomsMoveDrain DEF ReconnectTimer
  <2>3. CASE FinalizeAnswered(r)
    BY <2>3, RoomsMoveDrain DEF FinalizeAnswered, FinalizeSucceeds, FinalizeFails
  <2> QED BY <1>3, <2>1, <2>2, <2>3
<1>4. CASE DrainTimesOut \/ Tick
  BY <1>4 DEF DrainTimesOut, Tick, hubVars, DrainMoves
<1> QED BY <1>1, <1>2, <1>3, <1>4 DEF HubStep

LEMMA LifeStep == LifeInv /\ [ProcessNext]_allVars => LifeInv'
<1> SUFFICES ASSUME LifeInv, [ProcessNext]_allVars PROVE LifeInv'
  OBVIOUS
<1>1. CASE Alive /\ HubStep /\ UNCHANGED ownVars
  <2>1. DrainMoves /\ UNCHANGED <<life, pool>> /\ life \notin {"exited", "killed"}
    BY <1>1, HubStepMovesDrain DEF Alive, ownVars
  <2> QED BY <2>1 DEF LifeInv, DrainMoves
<1>2. CASE UNCHANGED allVars
  BY <1>2 DEF allVars, vars, hubVars, ownVars, LifeInv
<1>3. CASE Listen \/ ListenFails \/ SignalAgain \/ Exits
  BY <1>3 DEF Listen, ListenFails, SignalAgain, Exits, LifeInv, vars, hubVars
<1>4. CASE Probe \/ DatabaseReads \/ AnswerProbe
  BY <1>4 DEF Probe, DatabaseReads, AnswerProbe, LifeInv, vars, hubVars
<1>5. CASE Shutdown
  BY <1>5 DEF Shutdown, BeginDrain, LifeInv
<1>6. CASE AppCloses \/ ListenerClosed \/ PoolEnds
  BY <1>6 DEF AppCloses, MayClose, ListenerClosed, PoolEnds, LifeInv, vars, hubVars
<1>7. CASE HubCloses
  BY <1>7 DEF HubCloses, Close, LifeInv
<1> QED BY <1>1, <1>2, <1>3, <1>4, <1>5, <1>6, <1>7 DEF ProcessNext

LEMMA LifeInvKept == ProcessSpec => []LifeInv
<1>1. ProcessInit => LifeInv
  BY DEF ProcessInit, Init, LifeInv
<1> QED BY <1>1, LifeStep, PTL DEF ProcessSpec

\* The pool ends only when the drain has its result, and unless the drain ran
\* out of time every game is over by then and every result stored or refused.
THEOREM ResultsFirst ==
  ASSUME NoTournaments
  PROVE  ProcessSpec => []ResultsBeforePool
<1>1. HubInv /\ LifeInv => ResultsBeforePool
  BY DEF HubInv, DrainInv, LifeInv, ResultsBeforePool
<1> QED BY <1>1, HubInvKept, LifeInvKept, PTL

\* Whoever is told "ready" may count on it: matches are accepted when the answer
\* is given, although a signal may come between question and answer.
THEOREM ReadyIsTrue ==
  ASSUME NoTournaments
  PROVE  ProcessSpec => ReadyTruthful
<1> DEFINE Truthful == probe # "ready" /\ probe' = "ready" => accepting
<1>1. HubInv /\ LifeInv /\ [ProcessNext]_allVars => [Truthful]_allVars
  <2> SUFFICES ASSUME HubInv, LifeInv, ProcessNext, probe # "ready", probe' = "ready"
               PROVE  accepting
    BY DEF allVars
  <2>1. AnswerProbe
    BY DEF ProcessNext, ownVars, Listen, ListenFails, Shutdown, SignalAgain, AppCloses,
           ListenerClosed, PoolEnds, HubCloses, Exits, Probe, DatabaseReads
  <2>2. life \in {"starting", "up"}
    BY <2>1 DEF AnswerProbe, IsReady, Draining
  <2> QED BY <2>2 DEF HubInv, DrainInv, LifeInv
<1>2. ProcessSpec => [][Truthful]_allVars
  <2> HIDE DEF Truthful
  <2> QED BY <1>1, HubInvKept, LifeInvKept, PTL DEF ProcessSpec
<1> QED BY <1>2 DEF ReadyTruthful
=============================================================================
