--------------------------- MODULE RoomSessionOps ---------------------------
(***************************************************************************)
(* The methods of the class RoomSession (game/roomSession.ts) as operators *)
(* from a session to a session.  RoomSession.tla runs them alone, with a   *)
(* clock; GameHub.tla keeps one session in every room.                     *)
(*                                                                         *)
(* A value that may be null in the code is a set with at most one element  *)
(* here: {} is null and {d} is d.                                          *)
(***************************************************************************)
EXTENDS Integers

CONSTANT Window                          \* RECONNECT_WINDOW_MS

ASSUME WindowAssumption == Window \in Nat \ {0}

Sides == {"left", "right"}
Opposite(side) == IF side = "left" THEN "right" ELSE "left"

ResumableStates == {"waiting", "playing", "paused"}
SessionStates == ResumableStates \cup {"reconnecting", "finished"}

Session == [state        : SessionStates,
            resumeState  : ResumableStates,
            ready        : SUBSET Sides,
            disconnected : SUBSET Sides,
            deadline     : SUBSET Int]

NewSession == [state        |-> "waiting",
               resumeState  |-> "waiting",
               ready        |-> {},
               disconnected |-> {},
               deadline     |-> {}]

\* Mutant: ready marks count while a side is away.
SessionMarkReadyAnyTime(s, side) ==
    LET ready == s.ready \cup {side} IN
    IF s.state \notin {"waiting", "reconnecting"} THEN s
    ELSE [s EXCEPT !.ready = ready,
                   !.state = IF ready = Sides /\ s.state = "waiting" THEN "playing" ELSE @]

SessionMarkReady(s, side) ==
    IF s.state # "waiting" THEN s
    ELSE LET ready == s.ready \cup {side}
         IN  [s EXCEPT !.ready = ready,
                       !.state = IF ready = Sides THEN "playing" ELSE @]

SessionPause(s)  == IF s.state = "playing" THEN [s EXCEPT !.state = "paused"] ELSE s
SessionResume(s) == IF s.state = "paused" THEN [s EXCEPT !.state = "playing"] ELSE s

\* Mutant: the first window stays.
SessionDisconnectOneWindow(s, side, now) ==
    IF s.state = "finished" THEN s
    ELSE [s EXCEPT !.state = "reconnecting",
                   !.resumeState = IF s.state = "reconnecting" THEN @ ELSE s.state,
                   !.disconnected = @ \cup {side},
                   !.deadline = IF s.deadline = {} THEN {now + Window} ELSE @]

\* Every loss of a connection starts the window again, for both sides.
SessionDisconnect(s, side, now) ==
    IF s.state = "finished" THEN s
    ELSE [s EXCEPT !.state = "reconnecting",
                   !.resumeState = IF s.state = "reconnecting" THEN @ ELSE s.state,
                   !.disconnected = @ \cup {side},
                   !.deadline = {now + Window}]

\* Whether reconnect() answers true.
SessionReconnects(s, side, now) ==
    /\ s.state = "reconnecting"
    /\ \E d \in s.deadline : now <= d
    /\ side \in s.disconnected

\* Mutant: a complete recovery always goes on to play.
SessionReconnectPlays(s, side) ==
    LET away == s.disconnected \ {side}
    IN  IF away = {}
        THEN [s EXCEPT !.disconnected = {}, !.state = "playing", !.deadline = {}]
        ELSE [s EXCEPT !.disconnected = away]

SessionReconnect(s, side) ==
    LET away == s.disconnected \ {side}
    IN  IF away = {}
        THEN [s EXCEPT !.disconnected = {}, !.state = s.resumeState, !.deadline = {}]
        ELSE [s EXCEPT !.disconnected = away]

SessionFinish(s) == [s EXCEPT !.state = "finished", !.disconnected = {}, !.deadline = {}]

\* Whether expireReconnect() answers a verdict, after which the session is
\* SessionFinish(s).
SessionExpires(s, now) ==
    /\ s.state = "reconnecting"
    /\ \E d \in s.deadline : now >= d

\* The winner of that verdict: the side that stayed, nobody if both are away.
ExpiryWinner(s) ==
    IF \E side \in Sides : s.disconnected = {side} THEN Sides \ s.disconnected ELSE {}

-----------------------------------------------------------------------------
\* The shape every session has between two calls: it reconnects exactly while
\* a side is away and a deadline is set, and it has been played, or is being
\* resumed to play, only after both sides were ready.
Interrupted(s) == s.state = "reconnecting"
Underlying(s) == IF Interrupted(s) THEN s.resumeState ELSE s.state

WellFormedSession(s) ==
    /\ Interrupted(s) <=> s.disconnected # {}
    /\ Interrupted(s) <=> s.deadline # {}
    /\ \A d, e \in s.deadline : d = e
    /\ Underlying(s) \in {"playing", "paused"} => s.ready = Sides
    /\ Underlying(s) = "waiting" => s.ready # Sides
=============================================================================
