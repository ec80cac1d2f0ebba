------------------------------ MODULE RoomLoop ------------------------------
(***************************************************************************)
(* What moves a room: the one interval that steps all rooms that play      *)
(* (sharedRoomScheduler.ts over fixedStepScheduler.ts), the end of the     *)
(* simulation (pongSimulation.ts: when a side has the winning score is a   *)
(* choice, the time limit is not), and the way of a player's inputs        *)
(* through the hub and the gate (inputGate.ts, gameHub.ts).  Time is       *)
(* counted in fractions of a step; the clock of the loop is the time since *)
(* it last ran.                                                            *)
(***************************************************************************)
EXTENDS Integers, Sequences, Functions

CONSTANTS
    Rooms,
    PlayersRoom,        \* the room whose left player is followed
    Timestep,           \* DEFAULT_TIMESTEP_MS
    MaxTicks,           \* DEFAULT_MAX_TICKS_PER_LOOP
    MaxLag,             \* DEFAULT_MAX_ACCUMULATED_MS
    MaxMatchTicks,      \* MAX_MATCH_TICKS
    InputCost,          \* one token, in the unit Refill is counted in
    Refill,             \* what the bucket gains in a fraction of a step
    Burst,              \* DEFAULT_INPUT_BURST_CAPACITY
    MaxGap,             \* bound: how long the event loop may be held up
    MaxConns,           \* bound: connections of the player
    MaxInputs           \* bound: inputs of a connection

ASSUME RoomAssumption == PlayersRoom \in Rooms
ASSUME TimeAssumption ==
    /\ {Timestep, MaxTicks, MaxLag, MaxGap} \subseteq Nat \ {0}
    /\ Timestep <= MaxLag /\ Timestep <= MaxGap
ASSUME GameAssumption == MaxMatchTicks \in Nat \ {0}
ASSUME GateAssumption == {InputCost, Refill, Burst} \subseteq Nat \ {0}
ASSUME BoundsAssumption == {MaxConns, MaxInputs} \subseteq Nat

VARIABLES
    room,           \* phase and simulation of each room
    steps,          \* SharedRoomScheduler.roomSteps: the rooms that are stepped
    loop,           \* the interval: whether it runs, since when it last did, the lag
    pace,           \* for PlayersRoom, since it was registered: the time it played
                    \* less the time of its steps, and whether time was dropped
    conn,           \* the player's connection in clients, 0 when there is none
    made,           \* connections made so far
    wire,           \* the input on its way from each connection, or 0
    heard,          \* the last input that came from the current connection
    gate,           \* tokens and last sequence of the player, for this room
    steer           \* the input the paddle follows: its connection and number

clockVars == <<loop, pace>>
inputVars == <<conn, made, wire, heard, gate, steer>>
vars == <<room, steps, clockVars, inputVars>>

Conns == 1 .. MaxConns
Phases == {"waiting", "playing", "paused", "reconnecting", "finished"}
NewRoom == [phase |-> "waiting", tick |-> 0]
Stopped == [on |-> FALSE, since |-> 0, lag |-> 0]
Started == [on |-> TRUE, since |-> 0, lag |-> 0]
FreshGate == [tokens |-> Burst * InputCost, last |-> 0]
Straight == [conn |-> 0, input |-> 0]
Punctual == [owed |-> 0, late |-> FALSE]

Init ==
    /\ room = [r \in Rooms |-> NewRoom]
    /\ steps = {}
    /\ loop = Stopped
    /\ pace = Punctual
    /\ conn = 1 /\ made = 1
    /\ wire = [c \in Conns |-> 0]
    /\ heard = 0
    /\ gate = FreshGate
    /\ steer = Straight

AtMost(x, y) == IF x < y THEN x ELSE y

-----------------------------------------------------------------------------
(* The scheduler *)

\* The first room starts the interval, from now on and without lag.
Register(r) ==
    /\ steps' = steps \cup {r}
    /\ loop' = IF loop.on THEN loop ELSE Started
    /\ pace' = IF r = PlayersRoom THEN Punctual ELSE pace

\* Mutant: the last room leaves the interval running.
UnregisterOnly(r) ==
    /\ steps' = steps \ {r}
    /\ UNCHANGED loop

\* Mutant: whoever leaves stops the interval.
UnregisterStopping(r) ==
    /\ steps' = steps \ {r}
    /\ loop' = Stopped

\* The last room stops it.
Unregister(r) ==
    /\ steps' = steps \ {r}
    /\ loop' = IF steps \subseteq {r} THEN Stopped ELSE loop

\* FixedStepAccumulator.advance(): what was held up beyond the limit is dropped.
Lag == AtMost(MaxLag, loop.lag + loop.since)

Due == AtMost(MaxTicks, Lag \div Timestep)
Dropped == loop.lag + loop.since - Lag

\* Mutant: each loop starts from nothing, the part of a step left is lost.
RestOfNothing == 0

Rest == Lag - Due * Timestep

\* PongSimulation.step() k times: a step may bring the winning score, the last
\* one of a match ends it, and after the end there are no more.
Played(g, k) ==
    LET last == AtMost(g.tick + k, MaxMatchTicks)
    IN  {[phase |-> "finished", tick |-> t] : t \in g.tick + 1 .. last}
        \cup (IF g.tick + k < MaxMatchTicks
              THEN {[phase |-> "playing", tick |-> g.tick + k]} ELSE {})

\* A room that lost time does not get it back: from then on it owes nothing.
Owed(late, owed) == IF late THEN AtMost(0, owed) ELSE owed

\* runLoop(): every room in the set makes the steps that are due, one after the
\* other; a room that ends leaves the set (tick, finishRoom), and the interval
\* with the last.
RunLoop ==
    /\ loop.on
    /\ loop.since + 1 >= Timestep
    /\ UNCHANGED inputVars
    /\ LET outcomes == [r \in steps |-> Played(room[r], Due)]
       IN  \E after \in [steps -> UNION Range(outcomes)] :
             /\ \A r \in steps : after[r] \in outcomes[r]
             /\ room' = [r \in Rooms |-> IF r \in steps THEN after[r] ELSE room[r]]
             /\ steps' = {r \in steps : after[r].phase = "playing"}
             /\ loop' = IF steps' = {} THEN Stopped
                        ELSE [loop EXCEPT !.since = 0, !.lag = Rest]
    /\ pace' = IF PlayersRoom \notin steps' THEN Punctual
               ELSE LET late == pace.late \/ Dropped > 0
                    IN  [late |-> late, owed |-> Owed(late, pace.owed) - Due * Timestep]

\* The interval is not held up longer than MaxGap.
Clock ==
    /\ loop.since < MaxGap
    /\ loop' = IF loop.on THEN [loop EXCEPT !.since = @ + 1] ELSE loop
    /\ pace' = IF PlayersRoom \in steps
               THEN [pace EXCEPT !.owed = Owed(pace.late, @ + 1)] ELSE pace
    /\ gate' = [gate EXCEPT !.tokens = AtMost(Burst * InputCost, @ + Refill)]
    /\ UNCHANGED <<room, steps, conn, made, wire, heard, steer>>

-----------------------------------------------------------------------------
(* The rooms, as far as the scheduler and the inputs see them *)

\* A room cannot play while its player is away.
Held(r) == r = PlayersRoom /\ conn = 0

\* Both are ready, or somebody resumes.
Start(r) ==
    /\ room[r].phase \in {"waiting", "paused"} /\ ~Held(r)
    /\ room' = [room EXCEPT ![r].phase = "playing"]
    /\ Register(r)
    /\ UNCHANGED inputVars

Pause(r) ==
    /\ room[r].phase = "playing"
    /\ room' = [room EXCEPT ![r].phase = "paused"]
    /\ Unregister(r)
    /\ UNCHANGED <<pace, inputVars>>

\* Nobody came back in time (the result is GameHub's).
Forfeit ==
    /\ room[PlayersRoom].phase = "reconnecting"
    /\ room' = [room EXCEPT ![PlayersRoom].phase = "finished"]
    /\ UNCHANGED <<steps, clockVars, inputVars>>

\* Mutant: the gate keeps what it knows of the connection before.
ReplaceKeepingGate ==
    /\ conn # 0 /\ made < MaxConns
    /\ conn' = made + 1 /\ made' = made + 1
    /\ heard' = 0
    /\ UNCHANGED <<room, steps, clockVars, wire, gate, steer>>

\* replaceConnection() and releaseUser(); the old socket may still have inputs.
Replace ==
    /\ conn # 0 /\ made < MaxConns
    /\ conn' = made + 1 /\ made' = made + 1
    /\ heard' = 0
    /\ gate' = FreshGate
    /\ UNCHANGED <<room, steps, clockVars, wire, steer>>

\* disconnect(), releaseUser() and reserveRoomSide().
Disconnect ==
    /\ conn # 0
    /\ conn' = 0
    /\ heard' = 0
    /\ wire' = [wire EXCEPT ![conn] = 0]
    /\ gate' = FreshGate
    /\ IF room[PlayersRoom].phase = "finished" THEN UNCHANGED <<room, steps, loop, steer>>
       ELSE /\ room' = [room EXCEPT ![PlayersRoom].phase = "reconnecting"]
            /\ steer' = Straight
            /\ Unregister(PlayersRoom)
    /\ UNCHANGED <<pace, made>>

\* recoverConnection(): the phase before the loss.
Recover(phase) ==
    /\ conn = 0 /\ made < MaxConns
    /\ conn' = made + 1 /\ made' = made + 1
    /\ IF room[PlayersRoom].phase # "reconnecting" THEN UNCHANGED <<room, steps, clockVars>>
       ELSE /\ phase = "waiting" => room[PlayersRoom].tick = 0
            /\ room' = [room EXCEPT ![PlayersRoom].phase = phase]
            /\ IF phase = "playing" THEN Register(PlayersRoom)
               ELSE UNCHANGED <<steps, clockVars>>
    /\ UNCHANGED <<wire, heard, gate, steer>>

-----------------------------------------------------------------------------
(* The inputs *)

\* sendDirection() numbers the inputs of a connection from 1.  Bound: one of
\* them is on its way at a time; the socket keeps their order anyhow.
SendDirection ==
    /\ conn # 0
    /\ wire[conn] = 0 /\ heard < MaxInputs
    /\ wire' = [wire EXCEPT ![conn] = heard + 1]
    /\ UNCHANGED <<room, steps, clockVars, conn, made, heard, gate, steer>>

\* InputGate.check(): in order, and within the rate.
Passes(n) == n > gate.last /\ gate.tokens >= InputCost

\* receive() and applyInput(): only the registered connection is heard, only
\* while the room plays; the number of an input that is dropped is not kept.
ApplyInput(c) ==
    /\ wire[c] # 0
    /\ wire' = [wire EXCEPT ![c] = 0]
    /\ LET n == wire[c]
       IN  /\ heard' = IF c = conn THEN n ELSE heard
           /\ IF c = conn /\ room[PlayersRoom].phase = "playing" /\ Passes(n)
              THEN /\ gate' = [tokens |-> gate.tokens - InputCost, last |-> n]
                   /\ steer' = [conn |-> c, input |-> n]
              ELSE UNCHANGED <<gate, steer>>
    /\ UNCHANGED <<room, steps, clockVars, conn, made>>

-----------------------------------------------------------------------------
Next ==
    \/ RunLoop \/ Clock \/ Forfeit \/ Replace \/ Disconnect
    \/ \E r \in Rooms : Start(r) \/ Pause(r)
    \/ \E phase \in {"waiting", "playing", "paused"} : Recover(phase)
    \/ SendDirection
    \/ \E c \in Conns : ApplyInput(c)

Spec == Init /\ [][Next]_vars

\* Time passes, so that the interval fires: it is not held up for ever.
FairSpec == Spec /\ WF_vars(Clock \/ RunLoop)

-----------------------------------------------------------------------------
\* Exactly the rooms that play are stepped, the interval runs as long as there
\* is one, and starts without the lag of an earlier game.
OnlyPlayingRoomsStep ==
    /\ steps = {r \in Rooms : room[r].phase = "playing"}
    /\ IF steps = {} THEN loop = Stopped ELSE loop.on

\* However the event loop is held up and whichever rooms share the interval, a
\* room is never ahead of the time it played by more than the lag a loop may
\* make good, not even after time was dropped; unless it was, the room is behind
\* by no more than what is still to run.
Paced ==
    PlayersRoom \in steps =>
        /\ pace.owed >= -MaxLag
        /\ ~pace.late => pace.owed <= loop.lag + loop.since

\* The newest input that the gate accepted from the current connection steers,
\* and late ones of a replaced or lost connection do not; the numbers the gate
\* remembers are never ahead of what the current connection said, so that no
\* input of it passes for an old one.  Inputs over the rate are dropped.
LatestInput ==
    /\ steer.conn # 0 /\ steer.conn = conn => steer.input = gate.last
    /\ gate.last <= heard

\* A game that is stepped ends, by score or by the clock, or somebody stops it.
GamesEnd == \A r \in Rooms : r \in steps ~> r \notin steps
=============================================================================
