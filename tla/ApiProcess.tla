----------------------------- MODULE ApiProcess -----------------------------
(***************************************************************************)
(* The life of the API process around the hub: startup, the signals, the   *)
(* readiness check, and the shutdown that drains the hub, closes sockets   *)
(* and listener, then the database pool and last the hub (index.ts,        *)
(* gracefulShutdown.ts, the health routes of app.ts).  Fastify stops the   *)
(* routes, closes the WebSockets and waits for the listener before it runs *)
(* the onClose hooks, the latest first.  Tournaments are left out here.    *)
(***************************************************************************)
EXTENDS GameHub

\* The instances this module is about.
NoTournaments == TMatches = {}

VARIABLES
    life,           \* how far the process is, see Lives
    pool,           \* the database pool
    inFlight,       \* rooms whose finalizeMatch had a client as the pool was ended
    probe           \* the readiness check: "asked", whether the database was "fit"
                    \* or "unfit", and "ready" once that was the answer

ownVars == <<life, pool, inFlight, probe>>
allVars == <<vars, ownVars>>

\* "closing": routes and WebSockets; "ending": the hooks; "closed": all of them.
Lives == {"starting", "up", "draining", "closing", "ending", "closed", "exited", "killed"}

ProcessInit ==
    /\ Init
    /\ life = "starting"
    /\ pool = "open"
    /\ inFlight = {}
    /\ probe = "none"

Alive == life \notin {"exited", "killed"}
Draining == life \notin {"starting", "up"}
Routing == life \in {"up", "draining"}

-----------------------------------------------------------------------------
(* Startup and signals *)

Listen ==
    /\ life = "starting"
    /\ life' = "up"
    /\ UNCHANGED <<vars, pool, inFlight, probe>>

\* The pool is closed before process.exit(1).
ListenFails ==
    /\ life = "starting"
    /\ life' = "exited"
    /\ pool' = "ended"
    /\ UNCHANGED <<vars, inFlight, probe>>

\* The first signal: not ready any more, and the hub drains.
Shutdown ==
    /\ life \in {"starting", "up"}
    /\ BeginDrain
    /\ life' = "draining"
    /\ UNCHANGED <<pool, inFlight, probe>>

\* A later one finds it started, or no listener any more and ends the process.
SignalAgain ==
    /\ life \in {"ending", "closed"}
    /\ life' = "killed"
    /\ UNCHANGED <<vars, pool, inFlight, probe>>

-----------------------------------------------------------------------------
(* The steps of the shutdown *)

\* Mutant: the drain is not waited for.
MayCloseAtOnce == TRUE

\* The drain has its result.
MayClose == drain \in {"drained", "timedOut"}

\* Mutant: only the listener is closed, the WebSockets are left to their peers.
AppClosesListener ==
    /\ life = "draining" /\ MayClose
    /\ life' = "closing"
    /\ UNCHANGED <<vars, pool, inFlight, probe>>

\* app.close(): every WebSocket is closed from this side.
AppCloses ==
    /\ life = "draining" /\ MayClose
    /\ life' = "closing"
    /\ socket' = [c \in Conns |-> IF socket[c] = "open" THEN "closing" ELSE socket[c]]
    /\ UNCHANGED <<roomOf, byUser, queueVars, roomVars, tourVars, hubVars,
                   pool, inFlight, probe>>

\* Nothing is connected any more: the signal handlers go, then the pool ends.
ListenerClosed ==
    /\ life = "closing"
    /\ \A c \in Conns : socket[c] = "gone"
    /\ probe \in {"none", "ready"}
    /\ life' = "ending"
    /\ pool' = "ending"
    /\ inFlight' = {r \in RoomIds : rooms[r].finishing}
    /\ UNCHANGED <<vars, probe>>

\* Calls that already have a client are waited for.
PoolEnds ==
    /\ life = "ending" /\ pool = "ending"
    /\ \A r \in inFlight : ~rooms[r].finishing
    /\ pool' = "ended"
    /\ UNCHANGED <<vars, life, inFlight, probe>>

HubCloses ==
    /\ life = "ending" /\ pool = "ended"
    /\ Close
    /\ life' = "closed"
    /\ UNCHANGED <<pool, inFlight, probe>>

Exits ==
    /\ life = "closed"
    /\ life' = "exited"
    /\ UNCHANGED <<vars, pool, inFlight, probe>>

-----------------------------------------------------------------------------
(* Readiness *)

\* Mutant: only the database is asked.
IsReadyByDatabase == probe = "fit"

IsReady == probe = "fit" /\ ~Draining

Probe ==
    /\ Routing /\ probe \in {"none", "ready"}
    /\ probe' = "asked"
    /\ UNCHANGED <<vars, life, pool, inFlight>>

\* The database is up with the migrations of this build and no others, or not.
DatabaseReads ==
    /\ Alive /\ probe = "asked"
    /\ probe' \in {"fit", "unfit"}
    /\ UNCHANGED <<vars, life, pool, inFlight>>

\* 200 when ready, 503 otherwise.
AnswerProbe ==
    /\ Alive /\ probe \in {"fit", "unfit"}
    /\ probe' = IF IsReady THEN "ready" ELSE "none"
    /\ UNCHANGED <<vars, life, pool, inFlight>>

-----------------------------------------------------------------------------
(* The hub inside the process *)

\* No handshake gets through before the listener is up or once routes are closed.
Admits(c) == Routing \/ ~(socket[c] = "gone" /\ socket'[c] = "open")

\* The pool takes no new call once it is being ended.
FinalizeAnswered(r) ==
    \/ (pool = "open" \/ r \in inFlight) /\ FinalizeSucceeds(r)
    \/ FinalizeFails(r)

HubStep ==
    \/ \E c \in Conns : ClientStep(c) /\ Admits(c)
    \/ \E u \in Users : QueueStep(u)
    \/ \E r \in RoomIds : GameEnds(r) \/ ReconnectTimer(r) \/ FinalizeAnswered(r)
    \/ DrainTimesOut
    \/ Tick

ProcessNext ==
    \/ Alive /\ HubStep /\ UNCHANGED ownVars
    \/ Listen \/ ListenFails \/ Shutdown \/ SignalAgain
    \/ AppCloses \/ ListenerClosed \/ PoolEnds \/ HubCloses \/ Exits
    \/ Probe \/ DatabaseReads \/ AnswerProbe

\* The process runs on: timers fire, sockets that are closed come to their end
\* (the library destroys those whose peer is silent), queries are answered.
ProcessFairness ==
    /\ \A c \in Conns : WF_allVars(Disconnect(c) /\ Alive /\ UNCHANGED ownVars)
    /\ \A r \in RoomIds : WF_allVars(FinalizeAnswered(r) /\ Alive /\ UNCHANGED ownVars)
    /\ WF_allVars(DrainTimesOut /\ Alive /\ UNCHANGED ownVars)
    /\ WF_allVars(DatabaseReads) /\ WF_allVars(AnswerProbe)
    /\ WF_allVars(AppCloses) /\ WF_allVars(ListenerClosed) /\ WF_allVars(PoolEnds)
    /\ WF_allVars(HubCloses) /\ WF_allVars(Exits)

ProcessSpec == ProcessInit /\ [][ProcessNext]_allVars /\ ProcessFairness

-----------------------------------------------------------------------------
\* The pool ends only when the drain has its result; unless it ran out of time
\* no game is left then whose result could still come, and none is being stored.
ResultsBeforePool ==
    pool = "ended" /\ life # "exited" =>
        /\ drain \in {"drained", "timedOut", "closed"}
        /\ drain = "drained" => live = {} /\ \A r \in RoomIds : ~rooms[r].finishing

\* Whoever is told "ready" may count on it: the drain had not begun when the
\* answer was given, though it may have since the question.
ReadyTruthful == [][probe # "ready" /\ probe' = "ready" => accepting]_allVars

\* A signal ends the process, whatever the players, the games, the database and
\* the readiness checks are doing.
ShutdownEnds == life = "draining" ~> ~Alive
=============================================================================
