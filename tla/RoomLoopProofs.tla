---------------------------- MODULE RoomLoopProofs ----------------------------
(***************************************************************************)
(* Theorems about the interval that steps the rooms and the gate of the    *)
(* inputs, for every set of rooms, every timestep, every limit of the lag  *)
(* and of the ticks of a loop, and every rate of the inputs.               *)
(***************************************************************************)
EXTENDS RoomLoop, TLAPS

-----------------------------------------------------------------------------
(* Types, by group of variables *)

RoomTypes ==
    /\ room \in [Rooms -> [phase : Phases, tick : Nat]]
    /\ steps \subseteq Rooms
ClockTypes ==
    /\ loop \in [on : BOOLEAN, since : Nat, lag : Nat]
    /\ pace \in [owed : Int, late : BOOLEAN]
InputTypes ==
    /\ conn \in Nat /\ made \in Nat /\ heard \in Nat
    /\ wire \in [Conns -> Nat]
    /\ gate \in [tokens : Nat, last : Nat]
    /\ steer \in [conn : Nat, input : Nat]
TypeInv == RoomTypes /\ ClockTypes /\ InputTypes

LEMMA ConstantTypes ==
  /\ PlayersRoom \in Rooms
  /\ Timestep \in Nat \ {0} /\ MaxTicks \in Nat \ {0} /\ MaxLag \in Nat \ {0}
  /\ MaxMatchTicks \in Nat \ {0} /\ MaxConns \in Nat
  /\ InputCost \in Nat /\ Refill \in Nat /\ Burst * InputCost \in Nat
<1>1. Burst \in Nat /\ InputCost \in Nat /\ Refill \in Nat
  BY GateAssumption
<1>2. Burst * InputCost \in Nat
  BY <1>1
<1> QED BY <1>1, <1>2, RoomAssumption, TimeAssumption, GameAssumption, BoundsAssumption

LEMMA AtMostTyped ==
  ASSUME NEW x \in Nat, NEW y \in Nat
  PROVE  AtMost(x, y) \in Nat
  BY DEF AtMost

\* The steps of a loop never take more time than there is.
LEMMA LoopTime ==
  ASSUME ClockTypes
  PROVE  /\ Lag \in Nat /\ Lag <= MaxLag /\ Lag <= loop.lag + loop.since
         /\ Due \in Nat /\ Due * Timestep \in Nat /\ Due * Timestep <= Lag
         /\ Rest \in Nat /\ Rest = Lag - Due * Timestep
         /\ Dropped \in Nat /\ Dropped = loop.lag + loop.since - Lag
<1>1. loop.lag \in Nat /\ loop.since \in Nat
  BY DEF ClockTypes
<1>2. Lag \in Nat /\ Lag <= MaxLag /\ Lag <= loop.lag + loop.since
  BY <1>1, ConstantTypes DEF Lag, AtMost
<1> DEFINE l == Lag
           q == l \div Timestep
<1>3. q \in Nat /\ Timestep * q <= l
  <2> HIDE DEF l
  <2>1. l \in Nat
    BY <1>2 DEF l
  <2> QED BY <2>1, ConstantTypes
<1>4. Due \in Nat /\ Due <= q
  BY <1>3, ConstantTypes DEF Due, AtMost
<1> HIDE DEF l, q
<1>5. Due * Timestep \in Nat /\ Due * Timestep <= Timestep * q
  BY <1>3, <1>4, ConstantTypes
<1>6. Due * Timestep <= l /\ l \in Nat
  BY <1>2, <1>3, <1>5, ConstantTypes DEF l
<1> QED BY <1>1, <1>2, <1>4, <1>5, <1>6 DEF l, Rest, Dropped

\* What runLoop() makes of a room that is stepped.
LEMMA PlayedFacts ==
  ASSUME NEW g, g.tick \in Nat, NEW k \in Nat, NEW h \in Played(g, k)
  PROVE  h \in [phase : {"playing", "finished"}, tick : Nat]
<1>1. AtMost(g.tick + k, MaxMatchTicks) \in Nat
  BY ConstantTypes DEF AtMost
<1> QED BY <1>1 DEF Played

LEMMA RunLoopRooms ==
  ASSUME TypeInv, RunLoop
  PROVE  /\ room' \in [Rooms -> [phase : Phases, tick : Nat]]
         /\ steps' = {r \in steps : room'[r].phase = "playing"}
         /\ \A r \in Rooms \ steps : room'[r] = room[r]
         /\ \A r \in steps : room'[r].phase \in {"playing", "finished"}
         /\ loop' = IF steps' = {} THEN Stopped ELSE [loop EXCEPT !.since = 0, !.lag = Rest]
<1> DEFINE outcomes == [r \in steps |-> Played(room[r], Due)]
<1>1. PICK after \in [steps -> UNION Range(outcomes)] :
        /\ \A r \in steps : after[r] \in outcomes[r]
        /\ room' = [r \in Rooms |-> IF r \in steps THEN after[r] ELSE room[r]]
        /\ steps' = {r \in steps : after[r].phase = "playing"}
        /\ loop' = IF steps' = {} THEN Stopped ELSE [loop EXCEPT !.since = 0, !.lag = Rest]
  BY DEF RunLoop
<1>2. ASSUME NEW r \in steps
      PROVE  r \in Rooms /\ after[r] \in [phase : {"playing", "finished"}, tick : Nat]
  <2>1. r \in Rooms /\ room[r].tick \in Nat
    BY DEF TypeInv, RoomTypes
  <2>2. after[r] \in Played(room[r], Due)
    BY <1>1
  <2>3. Due \in Nat
    BY LoopTime DEF TypeInv
  <2> QED BY <2>1, <2>2, <2>3, PlayedFacts
<1>3. \A r \in steps : room'[r] = after[r]
  BY <1>1, <1>2
<1>4. \A r \in Rooms \ steps : room'[r] = room[r]
  BY <1>1
<1>5. room' \in [Rooms -> [phase : Phases, tick : Nat]]
  <2>1. ASSUME NEW r \in Rooms PROVE room'[r] \in [phase : Phases, tick : Nat]
    BY <1>2, <1>3, <1>4 DEF TypeInv, RoomTypes, Phases
  <2>2. room' = [r \in Rooms |-> room'[r]]
    BY <1>1
  <2> QED BY <2>1, <2>2
<1> QED BY <1>1, <1>2, <1>3, <1>4, <1>5

LEMMA TypesInit == Init => TypeInv
<1> SUFFICES ASSUME Init PROVE TypeInv
  OBVIOUS
<1>1. RoomTypes
  BY DEF Init, RoomTypes, NewRoom, Phases
<1>2. ClockTypes
  BY DEF Init, ClockTypes, Stopped, Punctual
<1>3. InputTypes
  BY ConstantTypes DEF Init, InputTypes, FreshGate, Straight
<1> QED BY <1>1, <1>2, <1>3 DEF TypeInv

LEMMA RegisterTyped ==
  ASSUME ClockTypes, steps \subseteq Rooms, NEW r \in Rooms, Register(r)
  PROVE  ClockTypes' /\ steps' \subseteq Rooms
  BY DEF ClockTypes, Register, Started, Punctual

LEMMA UnregisterTyped ==
  ASSUME ClockTypes, steps \subseteq Rooms, NEW r \in Rooms, Unregister(r), UNCHANGED pace
  PROVE  ClockTypes' /\ steps' \subseteq Rooms
  BY DEF ClockTypes, Unregister, Stopped

LEMMA TypesStep == TypeInv /\ [Next]_vars => TypeInv'
<1> SUFFICES ASSUME TypeInv, [Next]_vars PROVE TypeInv'
  OBVIOUS
<1>0. RoomTypes /\ ClockTypes /\ InputTypes /\ steps \subseteq Rooms
  BY DEF TypeInv, RoomTypes
<1>1. CASE RunLoop
  <2>1. RoomTypes'
    BY <1>0, <1>1, RunLoopRooms DEF RoomTypes
  <2>2. loop' \in [on : BOOLEAN, since : Nat, lag : Nat]
    <3>1. Rest \in Nat
      BY <1>0, LoopTime
    <3>2. loop' = Stopped \/ loop' = [loop EXCEPT !.since = 0, !.lag = Rest]
      BY <1>1, RunLoopRooms
    <3>3. Stopped \in [on : BOOLEAN, since : Nat, lag : Nat]
      BY DEF Stopped
    <3>4. [loop EXCEPT !.since = 0, !.lag = Rest] \in [on : BOOLEAN, since : Nat, lag : Nat]
      BY <1>0, <3>1 DEF ClockTypes
    <3> QED BY <3>2, <3>3, <3>4
  <2>3. pace' \in [owed : Int, late : BOOLEAN]
    <3>1. Due * Timestep \in Nat /\ Dropped \in Nat
      BY <1>0, LoopTime
    <3> DEFINE late == pace.late \/ Dropped > 0
    <3>2. late \in BOOLEAN
      BY <1>0, <3>1 DEF ClockTypes
    <3> HIDE DEF late
    <3> DEFINE owed == Owed(late, pace.owed) - Due * Timestep
    <3>3. owed \in Int
      <4>1. Owed(late, pace.owed) \in Int
        BY <1>0, <3>2 DEF ClockTypes, Owed, AtMost
      <4> QED BY <3>1, <4>1
    <3>4. pace' = Punctual \/ pace' = [late |-> late, owed |-> owed]
      BY <1>1 DEF RunLoop, late
    <3> HIDE DEF owed
    <3>5. Punctual \in [owed : Int, late : BOOLEAN]
      BY DEF Punctual
    <3>6. [late |-> late, owed |-> owed] \in [owed : Int, late : BOOLEAN]
      BY <3>2, <3>3
    <3> QED BY <3>4, <3>5, <3>6
  <2>4. InputTypes'
    BY <1>0, <1>1 DEF RunLoop, inputVars, InputTypes
  <2> QED BY <2>1, <2>2, <2>3, <2>4 DEF TypeInv, ClockTypes
<1>2. CASE Clock
  <2>1. RoomTypes'
    BY <1>0, <1>2 DEF Clock, RoomTypes
  <2>2. ClockTypes'
    BY <1>0, <1>2 DEF Clock, ClockTypes, Owed, AtMost
  <2>3. InputTypes'
    <3>1. AtMost(Burst * InputCost, gate.tokens + Refill) \in Nat
      <4>1. Burst * InputCost \in Nat /\ gate.tokens + Refill \in Nat
        BY <1>0, ConstantTypes DEF InputTypes
      <4> QED BY <4>1, AtMostTyped
    <3> QED BY <1>0, <1>2, <3>1 DEF Clock, InputTypes
  <2> QED BY <2>1, <2>2, <2>3 DEF TypeInv
<1>3. CASE Forfeit
  BY <1>0, <1>3, ConstantTypes DEF Forfeit, TypeInv, RoomTypes, ClockTypes, InputTypes,
                                   clockVars, inputVars, Phases
<1>4. CASE Replace
  BY <1>0, <1>4, ConstantTypes DEF Replace, TypeInv, RoomTypes, ClockTypes, InputTypes,
                                   clockVars, FreshGate
<1>5. CASE Disconnect
  <2>1. InputTypes'
    <3>1. FreshGate \in [tokens : Nat, last : Nat] /\ Straight \in [conn : Nat, input : Nat]
      BY ConstantTypes DEF FreshGate, Straight
    <3>2. /\ steer' = steer \/ steer' = Straight
          /\ wire' = [wire EXCEPT ![conn] = 0] /\ gate' = FreshGate
          /\ conn' = 0 /\ heard' = 0 /\ made' = made
      BY <1>5 DEF Disconnect
    <3> QED BY <1>0, <3>1, <3>2 DEF InputTypes
  <2>2. room' \in [Rooms -> [phase : Phases, tick : Nat]]
    BY <1>0, <1>5, ConstantTypes DEF Disconnect, RoomTypes, Phases
  <2>3. ClockTypes' /\ steps' \subseteq Rooms
    <3>1. UNCHANGED pace /\ (Unregister(PlayersRoom) \/ UNCHANGED <<steps, loop>>)
      BY <1>5 DEF Disconnect
    <3> QED BY <1>0, <3>1, ConstantTypes, UnregisterTyped DEF ClockTypes
  <2> QED BY <2>1, <2>2, <2>3 DEF TypeInv, RoomTypes
<1>6. ASSUME NEW r \in Rooms, Start(r) \/ Pause(r) PROVE TypeInv'
  <2>1. InputTypes'
    BY <1>0, <1>6 DEF Start, Pause, InputTypes, inputVars
  <2>2. room' \in [Rooms -> [phase : Phases, tick : Nat]]
    BY <1>0, <1>6 DEF Start, Pause, RoomTypes, Phases
  <2>3. ClockTypes' /\ steps' \subseteq Rooms
    BY <1>0, <1>6, RegisterTyped, UnregisterTyped DEF Start, Pause
  <2> QED BY <2>1, <2>2, <2>3 DEF TypeInv, RoomTypes
<1>7. ASSUME NEW phase \in {"waiting", "playing", "paused"}, Recover(phase) PROVE TypeInv'
  <2>1. InputTypes'
    BY <1>0, <1>7 DEF Recover, InputTypes
  <2>2. room' \in [Rooms -> [phase : Phases, tick : Nat]]
    BY <1>0, <1>7, ConstantTypes DEF Recover, RoomTypes, Phases
  <2>3. ClockTypes' /\ steps' \subseteq Rooms
    <3>1. Register(PlayersRoom) \/ UNCHANGED <<steps, clockVars>>
      BY <1>7 DEF Recover
    <3> QED BY <1>0, <3>1, ConstantTypes, RegisterTyped DEF ClockTypes, clockVars
  <2> QED BY <2>1, <2>2, <2>3 DEF TypeInv, RoomTypes
<1>8. CASE SendDirection
  <2>1. RoomTypes' /\ ClockTypes'
    BY <1>0, <1>8 DEF SendDirection, RoomTypes, ClockTypes, clockVars
  <2>2. wire' = [wire EXCEPT ![conn] = heard + 1] /\ heard + 1 \in Nat
    BY <1>0, <1>8 DEF SendDirection, InputTypes
  <2>3. InputTypes'
    BY <1>0, <1>8, <2>2 DEF SendDirection, InputTypes
  <2> QED BY <2>1, <2>3 DEF TypeInv
<1>9. ASSUME NEW c \in Conns, ApplyInput(c) PROVE TypeInv'
  <2>1. RoomTypes' /\ ClockTypes'
    BY <1>0, <1>9 DEF ApplyInput, RoomTypes, ClockTypes, clockVars
  <2>2. InputTypes'
    <3>1. c \in Nat /\ wire[c] \in Nat /\ wire' \in [Conns -> Nat]
      BY <1>0, <1>9 DEF InputTypes, Conns, ApplyInput
    <3>2. heard' \in Nat
      BY <1>0, <1>9, <3>1 DEF InputTypes, ApplyInput
    <3>3. gate' \in [tokens : Nat, last : Nat] /\ steer' \in [conn : Nat, input : Nat]
      BY <1>0, <1>9, <3>1, ConstantTypes DEF InputTypes, ApplyInput, Passes
    <3> QED BY <1>0, <1>9, <3>1, <3>2, <3>3 DEF InputTypes, ApplyInput
  <2> QED BY <2>1, <2>2 DEF TypeInv
<1>10. CASE UNCHANGED vars
  BY <1>0, <1>10 DEF vars, clockVars, inputVars, TypeInv, RoomTypes, ClockTypes, InputTypes
<1> QED BY <1>1, <1>2, <1>3, <1>4, <1>5, <1>6, <1>7, <1>8, <1>9, <1>10 DEF Next

LEMMA TypesKept == Spec => []TypeInv
  BY TypesInit, TypesStep, PTL DEF Spec

-----------------------------------------------------------------------------
(* Which rooms are stepped *)

\* Exactly the rooms that play are stepped, and the interval runs as long as
\* there is one, through pauses, losses, recoveries and ends in any order.
THEOREM PlayingRoomsStep == Spec => []OnlyPlayingRoomsStep
<1>1. Init => OnlyPlayingRoomsStep
  BY DEF Init, OnlyPlayingRoomsStep, NewRoom
<1>2. TypeInv /\ OnlyPlayingRoomsStep /\ [Next]_vars => OnlyPlayingRoomsStep'
  <2> SUFFICES ASSUME TypeInv, OnlyPlayingRoomsStep, [Next]_vars PROVE OnlyPlayingRoomsStep'
    OBVIOUS
  <2>0. /\ room \in [Rooms -> [phase : Phases, tick : Nat]]
        /\ loop \in [on : BOOLEAN, since : Nat, lag : Nat] /\ PlayersRoom \in Rooms
        /\ steps = {r \in Rooms : room[r].phase = "playing"}
        /\ IF steps = {} THEN loop = Stopped ELSE loop.on
    BY ConstantTypes DEF TypeInv, RoomTypes, ClockTypes, OnlyPlayingRoomsStep
  \* One room starts, stops, or changes otherwise.
  <2>1. ASSUME NEW r \in Rooms, Register(r), room' = [room EXCEPT ![r].phase = "playing"]
        PROVE  OnlyPlayingRoomsStep'
    <3>1. steps' = {q \in Rooms : room'[q].phase = "playing"}
      BY <2>0, <2>1 DEF Register
    <3>2. r \in steps' /\ loop'.on
      BY <2>0, <2>1 DEF Register, Started
    <3> QED BY <3>1, <3>2 DEF OnlyPlayingRoomsStep
  <2>2. ASSUME NEW r \in Rooms, NEW phase \in Phases \ {"playing"}, Unregister(r),
               room' = [room EXCEPT ![r].phase = phase]
        PROVE  OnlyPlayingRoomsStep'
    <3>1. steps' = {q \in Rooms : room'[q].phase = "playing"}
      BY <2>0, <2>2 DEF Unregister
    <3>2. IF steps' = {} THEN loop' = Stopped ELSE loop'.on
      BY <2>0, <2>2 DEF Unregister
    <3> QED BY <3>1, <3>2 DEF OnlyPlayingRoomsStep
  <2>3. ASSUME NEW r \in Rooms, NEW phase \in Phases \ {"playing"}, room[r].phase # "playing",
               room' = [room EXCEPT ![r].phase = phase], UNCHANGED <<steps, loop>>
        PROVE  OnlyPlayingRoomsStep'
    <3>1. steps' = {q \in Rooms : room'[q].phase = "playing"}
      BY <2>0, <2>3
    <3> QED BY <2>0, <2>3, <3>1 DEF OnlyPlayingRoomsStep
  <2>4. ASSUME UNCHANGED <<room, steps, loop>> PROVE OnlyPlayingRoomsStep'
    BY <2>4 DEF OnlyPlayingRoomsStep
  <2>5. CASE RunLoop
    <3>1. steps' = {q \in Rooms : room'[q].phase = "playing"}
      BY <2>0, <2>5, RunLoopRooms
    <3>2. IF steps' = {} THEN loop' = Stopped ELSE loop'.on
      <4>1. loop' = IF steps' = {} THEN Stopped ELSE [loop EXCEPT !.since = 0, !.lag = Rest]
        BY <2>5, RunLoopRooms
      <4>2. [loop EXCEPT !.since = 0, !.lag = Rest].on
        BY <2>0, <2>5 DEF RunLoop
      <4> QED BY <4>1, <4>2
    <3> QED BY <3>1, <3>2 DEF OnlyPlayingRoomsStep
  <2>6. CASE Clock
    <3>1. UNCHANGED <<room, steps>> /\ loop' = IF loop.on THEN [loop EXCEPT !.since = @ + 1] ELSE loop
      BY <2>6 DEF Clock
    <3>2. CASE steps = {}
      BY <2>0, <2>4, <3>1, <3>2 DEF Stopped
    <3>3. CASE steps # {}
      <4>1. loop.on /\ loop'.on
        BY <2>0, <3>1, <3>3
      <4> QED BY <2>0, <3>1, <3>3, <4>1 DEF OnlyPlayingRoomsStep
    <3> QED BY <3>2, <3>3
  <2>7. CASE Forfeit
    BY <2>0, <2>3, <2>7 DEF Forfeit, clockVars, Phases
  <2>8. CASE Disconnect
    <3>1. CASE room[PlayersRoom].phase = "finished"
      BY <2>4, <2>8, <3>1 DEF Disconnect
    <3>2. CASE room[PlayersRoom].phase # "finished"
      BY <2>0, <2>2, <2>8, <3>2 DEF Disconnect, Phases
    <3> QED BY <3>1, <3>2
  <2>9. ASSUME NEW r \in Rooms, Start(r) PROVE OnlyPlayingRoomsStep'
    BY <2>1, <2>9 DEF Start
  <2>10. ASSUME NEW r \in Rooms, Pause(r) PROVE OnlyPlayingRoomsStep'
    BY <2>2, <2>10 DEF Pause, Phases
  <2>11. ASSUME NEW phase \in {"waiting", "playing", "paused"}, Recover(phase)
         PROVE  OnlyPlayingRoomsStep'
    <3>1. CASE room[PlayersRoom].phase # "reconnecting"
      BY <2>4, <2>11, <3>1 DEF Recover, clockVars
    <3>2. CASE room[PlayersRoom].phase = "reconnecting" /\ phase = "playing"
      BY <2>0, <2>1, <2>11, <3>2 DEF Recover
    <3>3. CASE room[PlayersRoom].phase = "reconnecting" /\ phase # "playing"
      BY <2>0, <2>3, <2>11, <3>3 DEF Recover, clockVars, Phases
    <3> QED BY <3>1, <3>2, <3>3
  <2>12. CASE Replace \/ SendDirection \/ (\E c \in Conns : ApplyInput(c)) \/ UNCHANGED vars
    BY <2>4, <2>12 DEF Replace, SendDirection, ApplyInput, vars, clockVars
  <2> QED BY <2>5, <2>6, <2>7, <2>8, <2>9, <2>10, <2>11, <2>12 DEF Next
<1> QED BY <1>1, <1>2, TypesKept, PTL DEF Spec

-----------------------------------------------------------------------------
(* How far a room is from the time it played *)

\* What a room may be ahead by is only what the interval has still to run, so
\* that the next loop brings it back: Paced alone is not kept by a loop.
PaceInv ==
    PlayersRoom \in steps =>
        /\ pace.owed >= Lag - MaxLag
        /\ ~pace.late => pace.owed <= loop.lag + loop.since

\* A step that leaves the room on the interval, or registers it.
LEMMA PaceStays ==
  ASSUME ClockTypes', pace' = Punctual
  PROVE  PaceInv'
<1>1. MaxLag \in Nat /\ loop'.lag \in Nat /\ loop'.since \in Nat
  BY ConstantTypes DEF ClockTypes
<1>2. 0 >= Lag' - MaxLag /\ 0 <= loop'.lag + loop'.since
  <2>1. loop'.lag + loop'.since \in Nat
    BY <1>1
  <2>2. 0 >= AtMost(MaxLag, loop'.lag + loop'.since) - MaxLag
    BY <1>1, <2>1 DEF AtMost
  <2>3. 0 <= loop'.lag + loop'.since
    BY <2>1
  <2> QED BY <2>2, <2>3 DEF Lag
<1>3. pace'.owed >= Lag' - MaxLag /\ pace'.owed <= loop'.lag + loop'.since
  BY <1>2 DEF Punctual
<1> QED BY <1>3 DEF PaceInv

LEMMA SamePace ==
  ASSUME PaceInv, UNCHANGED pace, steps' \subseteq steps,
         PlayersRoom \in steps' => loop' = loop
  PROVE  PaceInv'
  BY DEF PaceInv, Lag

LEMMA RegisterPace ==
  ASSUME ClockTypes, ClockTypes', OnlyPlayingRoomsStep, PaceInv, NEW r \in Rooms, Register(r)
  PROVE  PaceInv'
<1>1. CASE r = PlayersRoom
  BY <1>1, PaceStays DEF Register
<1>2. CASE r # PlayersRoom
  <2>1. /\ pace' = pace
        /\ PlayersRoom \in steps' => PlayersRoom \in steps /\ loop.on
    BY <1>2 DEF Register, OnlyPlayingRoomsStep
  <2>2. PlayersRoom \in steps' => loop' = loop
    BY <2>1 DEF Register
  <2> QED BY <2>1, <2>2 DEF PaceInv, Lag
<1> QED BY <1>1, <1>2

LEMMA UnregisterPace ==
  ASSUME PaceInv, NEW r \in Rooms, Unregister(r), UNCHANGED pace
  PROVE  PaceInv'
  BY SamePace DEF Unregister

LEMMA RunLoopPace ==
  ASSUME TypeInv, PaceInv, RunLoop
  PROVE  PaceInv'
<1>1. CASE PlayersRoom \notin steps'
  BY <1>1 DEF PaceInv
<1>2. CASE PlayersRoom \in steps'
  <2> DEFINE late == pace.late \/ Dropped > 0
             owed == Owed(late, pace.owed)
  <2>1. /\ PlayersRoom \in steps /\ loop' = [loop EXCEPT !.since = 0, !.lag = Rest]
        /\ pace' = [late |-> late, owed |-> owed - Due * Timestep]
    BY <1>2, RunLoopRooms DEF RunLoop
  <2>2. /\ Lag \in Nat /\ Lag <= MaxLag /\ Due * Timestep \in Nat
        /\ Rest \in Nat /\ Rest = Lag - Due * Timestep
        /\ Dropped \in Nat /\ Dropped = loop.lag + loop.since - Lag
    BY LoopTime DEF TypeInv
  <2>3. /\ pace.owed \in Int /\ pace.late \in BOOLEAN
        /\ loop \in [on : BOOLEAN, since : Nat, lag : Nat]
        /\ loop.lag \in Nat /\ loop.since \in Nat /\ MaxLag \in Nat
    BY ConstantTypes DEF TypeInv, ClockTypes
  <2>4. pace.owed >= Lag - MaxLag /\ (~pace.late => pace.owed <= loop.lag + loop.since)
    BY <2>1 DEF PaceInv
  <2>5. owed \in Int /\ owed >= Lag - MaxLag
    BY <2>2, <2>3, <2>4 DEF Owed, AtMost
  <2>6. ~late => owed <= Lag
    BY <2>2, <2>3, <2>4 DEF Owed
  <2>7. loop'.lag = Rest /\ loop'.since = 0 /\ pace'.late = late
        /\ pace'.owed = owed - Due * Timestep
    BY <2>1, <2>3
  <2> HIDE DEF late, owed
  <2>8. Lag' = Rest
    BY <2>2, <2>3, <2>7 DEF Lag, AtMost
  <2>9. pace'.owed >= Lag' - MaxLag
    BY <2>2, <2>3, <2>5, <2>7, <2>8
  <2>10. ~pace'.late => pace'.owed <= loop'.lag + loop'.since
    BY <2>2, <2>3, <2>5, <2>6, <2>7
  <2> QED BY <2>9, <2>10 DEF PaceInv
<1> QED BY <1>1, <1>2

LEMMA ClockPace ==
  ASSUME TypeInv, OnlyPlayingRoomsStep, PaceInv, Clock
  PROVE  PaceInv'
<1>1. CASE PlayersRoom \notin steps
  BY <1>1 DEF Clock, PaceInv
<1>2. CASE PlayersRoom \in steps
  <2>1. /\ pace.owed \in Int /\ loop.lag \in Nat /\ loop.since \in Nat /\ MaxLag \in Nat
        /\ loop \in [on : BOOLEAN, since : Nat, lag : Nat] /\ pace \in [owed : Int, late : BOOLEAN]
    BY ConstantTypes DEF TypeInv, ClockTypes
  <2>2. /\ loop'.lag = loop.lag /\ loop'.since = loop.since + 1
        /\ pace'.late = pace.late /\ pace'.owed = Owed(pace.late, pace.owed + 1)
    BY <1>2, <2>1 DEF Clock, OnlyPlayingRoomsStep
  <2>3. pace.owed >= Lag - MaxLag /\ (~pace.late => pace.owed <= loop.lag + loop.since)
    BY <1>2 DEF PaceInv
  <2>4. Lag \in Nat /\ Lag' \in Nat /\ Lag' <= MaxLag /\ Lag' <= Lag + 1
    BY <2>1, <2>2 DEF Lag, AtMost
  <2>5. pace'.owed >= Lag' - MaxLag
    BY <2>1, <2>2, <2>3, <2>4 DEF Owed, AtMost
  <2>6. ~pace'.late => pace'.owed <= loop'.lag + loop'.since
    BY <2>1, <2>2, <2>3 DEF Owed
  <2> QED BY <2>5, <2>6 DEF PaceInv
<1> QED BY <1>1, <1>2

\* However the event loop is held up, a room is ahead of the time it played by no
\* more than the lag a loop may make good and, unless time was dropped, behind by
\* no more than what is still to run.
THEOREM RoomsPaced == Spec => []Paced
<1>1. Init => PaceInv
  BY DEF Init, PaceInv
<1>2. TypeInv /\ TypeInv' /\ OnlyPlayingRoomsStep /\ PaceInv /\ [Next]_vars => PaceInv'
  <2> SUFFICES ASSUME TypeInv, TypeInv', OnlyPlayingRoomsStep, PaceInv, [Next]_vars
               PROVE  PaceInv'
    OBVIOUS
  <2>0. ClockTypes /\ ClockTypes' /\ PlayersRoom \in Rooms
    BY ConstantTypes DEF TypeInv
  <2>1. CASE RunLoop \/ Clock
    BY <2>1, RunLoopPace, ClockPace
  <2>2. CASE UNCHANGED <<steps, loop, pace>>
    BY <2>2, SamePace
  <2>3. CASE Disconnect
    <3>1. UNCHANGED pace /\ (Unregister(PlayersRoom) \/ UNCHANGED <<steps, loop>>)
      BY <2>3 DEF Disconnect
    <3> QED BY <2>0, <3>1, UnregisterPace, SamePace
  <2>4. ASSUME NEW r \in Rooms, Start(r) \/ Pause(r) PROVE PaceInv'
    BY <2>0, <2>4, RegisterPace, UnregisterPace DEF Start, Pause
  <2>5. ASSUME NEW phase \in {"waiting", "playing", "paused"}, Recover(phase) PROVE PaceInv'
    <3>1. Register(PlayersRoom) \/ UNCHANGED <<steps, loop, pace>>
      BY <2>5 DEF Recover, clockVars
    <3> QED BY <2>0, <2>2, <3>1, RegisterPace
  <2>6. CASE Forfeit \/ Replace \/ SendDirection \/ (\E c \in Conns : ApplyInput(c))
             \/ UNCHANGED vars
    BY <2>2, <2>6 DEF Forfeit, Replace, SendDirection, ApplyInput, vars, clockVars
  <2> QED BY <2>1, <2>3, <2>4, <2>5, <2>6 DEF Next
<1>3. TypeInv /\ PaceInv => Paced
  <2> SUFFICES ASSUME TypeInv, PaceInv, PlayersRoom \in steps
               PROVE  pace.owed >= -MaxLag /\ (~pace.late => pace.owed <= loop.lag + loop.since)
    BY DEF Paced
  <2>1. Lag \in Nat /\ MaxLag \in Nat /\ pace.owed \in Int
    BY LoopTime, ConstantTypes DEF TypeInv, ClockTypes
  <2> QED BY <2>1 DEF PaceInv
<1> QED BY <1>1, <1>2, <1>3, TypesKept, PlayingRoomsStep, PTL DEF Spec

-----------------------------------------------------------------------------
(* Whose inputs steer *)

\* What the numbers on their way look like: the present connection has said one
\* more than was heard of it, and one that is still to be made has said nothing.
InputInv ==
    /\ LatestInput
    /\ conn <= made /\ steer.conn <= made
    /\ \A c \in Conns : c > made => wire[c] = 0
    /\ conn \in Conns => wire[conn] \in {0, heard + 1}

\* The newest accepted input of the present connection steers, late inputs of a
\* replaced or lost one do not, and no input of the present one passes for an
\* old one, whatever numbers the gate remembers.
THEOREM LatestSteers == Spec => []LatestInput
<1>1. Init => InputInv
  <2> SUFFICES ASSUME Init PROVE InputInv
    OBVIOUS
  <2>1. LatestInput /\ conn <= made /\ steer.conn <= made
    BY DEF Init, LatestInput, Straight, FreshGate
  <2>2. \A c \in Conns : wire[c] = 0
    BY DEF Init
  <2> QED BY <2>1, <2>2 DEF InputInv
<1>2. TypeInv /\ InputInv /\ [Next]_vars => InputInv'
  <2> SUFFICES ASSUME TypeInv, InputInv, [Next]_vars PROVE InputInv'
    OBVIOUS
  <2>0. /\ conn \in Nat /\ made \in Nat /\ heard \in Nat /\ wire \in [Conns -> Nat]
        /\ gate \in [tokens : Nat, last : Nat] /\ steer \in [conn : Nat, input : Nat]
        /\ Conns \subseteq Nat /\ MaxConns \in Nat
    BY ConstantTypes DEF TypeInv, InputTypes, Conns
  <2>1. ASSUME UNCHANGED <<conn, made, wire, heard, steer>>, gate'.last = gate.last
        PROVE  InputInv'
    BY <2>1 DEF InputInv, LatestInput
  <2>2. CASE Replace
    <3>1. /\ conn' = made + 1 /\ made' = made + 1 /\ heard' = 0 /\ wire' = wire /\ steer' = steer
          /\ gate'.last = 0
      BY <2>2 DEF Replace, FreshGate
    <3>2. conn' \in Conns => wire'[conn'] = 0
      BY <2>0, <3>1 DEF InputInv
    <3>3. \A c \in Conns : c > made' => wire'[c] = 0
      BY <2>0, <3>1 DEF InputInv
    <3> QED BY <2>0, <3>1, <3>2, <3>3 DEF InputInv, LatestInput
  <2>3. CASE Disconnect
    <3>1. /\ conn' = 0 /\ made' = made /\ heard' = 0 /\ wire' = [wire EXCEPT ![conn] = 0]
          /\ gate'.last = 0 /\ (steer' = steer \/ steer' = Straight)
      BY <2>3 DEF Disconnect, FreshGate
    <3>2. steer'.conn <= made'
      BY <2>0, <3>1 DEF InputInv, Straight
    <3>3. \A c \in Conns : c > made' => wire'[c] = 0
      BY <2>0, <3>1 DEF InputInv
    <3>4. conn' \notin Conns
      BY <2>0, <3>1 DEF Conns
    <3> QED BY <2>0, <3>1, <3>2, <3>3, <3>4 DEF InputInv, LatestInput
  <2>4. ASSUME NEW phase \in {"waiting", "playing", "paused"}, Recover(phase) PROVE InputInv'
    <3>1. /\ conn = 0 /\ conn' = made + 1 /\ made' = made + 1
          /\ heard' = heard /\ wire' = wire /\ steer' = steer /\ gate' = gate
      BY <2>4 DEF Recover
    <3>2. conn' \in Conns => wire'[conn'] = 0
      BY <2>0, <3>1 DEF InputInv
    <3>3. \A c \in Conns : c > made' => wire'[c] = 0
      BY <2>0, <3>1 DEF InputInv
    <3> QED BY <2>0, <3>1, <3>2, <3>3 DEF InputInv, LatestInput
  <2>5. CASE SendDirection
    <3>1. /\ UNCHANGED <<conn, made, heard, gate, steer>>
          /\ wire' = [wire EXCEPT ![conn] = heard + 1]
      BY <2>5 DEF SendDirection
    <3>2. \A c \in Conns : c > made' => wire'[c] = 0
      BY <2>0, <3>1 DEF InputInv
    <3>3. conn' \in Conns => wire'[conn'] \in {0, heard' + 1}
      BY <2>0, <3>1
    <3> QED BY <3>1, <3>2, <3>3 DEF InputInv, LatestInput
  <2>6. ASSUME NEW c \in Conns, ApplyInput(c) PROVE InputInv'
    <3>1. /\ UNCHANGED <<conn, made>> /\ wire' = [wire EXCEPT ![c] = 0] /\ wire[c] # 0
          /\ heard' = IF c = conn THEN wire[c] ELSE heard
      BY <2>6 DEF ApplyInput
    <3>2. \A d \in Conns : d > made' => wire'[d] = 0
      BY <2>0, <3>1 DEF InputInv
    <3>3. conn' \in Conns => wire'[conn'] \in {0, heard' + 1}
      BY <2>0, <3>1 DEF InputInv
    <3>4. c = conn => heard' = heard + 1 /\ c <= made /\ c # 0
      BY <2>0, <3>1 DEF InputInv, Conns
    <3>5. \/ UNCHANGED <<gate, steer>>
          \/ /\ c = conn /\ gate'.last = heard' /\ steer'.conn = c /\ steer'.input = heard'
      BY <2>6, <3>1 DEF ApplyInput
    <3>6. heard' >= heard
      BY <2>0, <3>1, <3>4
    <3> QED BY <2>0, <3>1, <3>2, <3>3, <3>4, <3>5, <3>6 DEF InputInv, LatestInput
  <2>7. CASE RunLoop \/ Clock \/ Forfeit \/ UNCHANGED vars
    BY <2>0, <2>1, <2>7 DEF RunLoop, Clock, Forfeit, vars, inputVars
  <2>8. ASSUME NEW r \in Rooms, Start(r) \/ Pause(r) PROVE InputInv'
    BY <2>1, <2>8 DEF Start, Pause, inputVars
  <2> QED BY <2>2, <2>3, <2>4, <2>5, <2>6, <2>7, <2>8 DEF Next
<1>3. InputInv => LatestInput
  BY DEF InputInv
<1> QED BY <1>1, <1>2, <1>3, TypesKept, PTL DEF Spec
=============================================================================
