------------------------------- MODULE LinkOps -------------------------------
(***************************************************************************)
(* What travels from a room to a tab, what the tab's reducer makes of it   *)
(* (gameConnection.ts), and the buffer that keeps one snapshot back while  *)
(* a socket is congested (latestSnapshotBuffer.ts).                        *)
(***************************************************************************)
EXTENDS Integers, Sequences

CONSTANTS MaxWait       \* retries after which a congested socket is given up

ASSUME MaxWaitAssumption == MaxWait \in Nat \ {0}

NoRoom == 0
NoSnapshot == <<>>

Phases == {"waiting", "playing", "paused"}
Statuses == {"idle", "connecting", "matching", "waitingReady", "playing", "paused",
             "reconnecting", "finished", "failed"}

Matched(room) == [type |-> "queue.matched", room |-> room]
Snapshot(room, sequence, phase) ==
    [type |-> "game.snapshot", room |-> room, sequence |-> sequence, phase |-> phase]
Finished == [type |-> "game.finished"]
Error == [type |-> "error"]

-----------------------------------------------------------------------------
(* The view of the player: the part of the reducer's state a decision needs. *)

NewView == [status |-> "idle", room |-> NoRoom, last |-> -1]

StatusFor(phase) == IF phase = "waiting" THEN "waitingReady" ELSE phase

ConnectStarted == [NewView EXCEPT !.status = "connecting"]

SocketOpened(view, again) ==
    [view EXCEPT !.status = IF again THEN "reconnecting" ELSE "matching"]

MatchedIn(view, e) == [view EXCEPT !.status = "waitingReady", !.room = e.room]

\* A snapshot that was overtaken is not shown.
Seen(view, e) ==
    IF e.sequence <= view.last THEN view
    ELSE [view EXCEPT !.status = StatusFor(e.phase), !.room = e.room, !.last = e.sequence]

GameFinished(view) == [view EXCEPT !.status = "finished", !.room = NoRoom]

Failed(view) == [view EXCEPT !.status = "failed"]

\* Every error of the hub fails the view.
Reduced(view, e) ==
    CASE e.type = "queue.matched" -> MatchedIn(view, e)
      [] e.type = "game.snapshot" -> Seen(view, e)
      [] e.type = "game.finished" -> GameFinished(view)
      [] e.type = "error" -> Failed(view)

Closed(view) ==
    [view EXCEPT !.status = IF view.room # NoRoom THEN "reconnecting" ELSE "failed"]

CanStartNewMatch(view) ==
    view.room = NoRoom /\ view.status \in {"idle", "finished", "failed"}

-----------------------------------------------------------------------------
(* The server's end of a socket: `jam' is bufferedAmount against its two   *)
(* limits, `pending' the snapshot kept back, `waited' the retries since    *)
(* the socket became congested, `down' what is on its way to the tab,      *)
(* and `joins' that the initial event is on its way to the hub.            *)

NewEnd == [server |-> "none", jam |-> "low", pending |-> NoSnapshot, waited |-> 0,
           down |-> <<>>, joins |-> FALSE]

Terminated(end) == [end EXCEPT !.server = "closing", !.pending = NoSnapshot]

\* Mutant: a congested socket is never given up.
DrainedPatiently(end, waited) ==
    IF end.jam = "low" THEN [end EXCEPT !.waited = 0, !.pending = NoSnapshot,
                                        !.down = @ \o end.pending]
    ELSE [end EXCEPT !.waited = 0]

\* drain() with the time since congestion began counted in retries.
Drained(end, waited) ==
    CASE end.jam = "hard" -> Terminated(end)
      [] end.jam = "soft" -> IF waited >= MaxWait THEN Terminated(end)
                             ELSE [end EXCEPT !.waited = waited]
      [] end.jam = "low" -> [end EXCEPT !.waited = 0, !.pending = NoSnapshot,
                                        !.down = @ \o end.pending]

\* The newest snapshot takes the place of the one that waits.
Enqueued(end, snapshot) == Drained([end EXCEPT !.pending = <<snapshot>>], end.waited)

\* Every other event is sent at once, past the snapshot that waits.
SentAtOnce(end, event) ==
    IF end.jam = "hard" THEN [end EXCEPT !.server = "closing"]
    ELSE [end EXCEPT !.down = Append(@, event)]

\* send(): nothing reaches a socket that is not open.
Sent(end, event) ==
    IF end.server # "open" THEN end
    ELSE IF event.type = "game.snapshot" THEN Enqueued(end, event)
    ELSE SentAtOnce(end, event)
=============================================================================
