----------------------------- MODULE RoomSession -----------------------------
(***************************************************************************)
(* One RoomSession object and a clock.  Its methods may be called in any   *)
(* order, as the class allows; GameHub.tla shows which orders the hub      *)
(* really uses.                                                            *)
(***************************************************************************)
EXTENDS RoomSessionOps, Clock

VARIABLES
    session,
    verdict,    \* what expireReconnect() answered: {} none, {w} winner set w
    awaySince   \* history: when each side was last lost

vars == <<session, now, verdict, awaySince>>

Init ==
    /\ session = NewSession
    /\ now = 0
    /\ verdict = {}
    /\ awaySince = [side \in Sides |-> 0]

MarkReady(side) ==
    /\ session' = SessionMarkReady(session, side)
    /\ UNCHANGED <<now, verdict, awaySince>>

Pause ==
    /\ session' = SessionPause(session)
    /\ UNCHANGED <<now, verdict, awaySince>>

Resume ==
    /\ session' = SessionResume(session)
    /\ UNCHANGED <<now, verdict, awaySince>>

Disconnect(side) ==
    /\ session' = SessionDisconnect(session, side, now)
    /\ awaySince' = IF session.state = "finished" \/ side \in session.disconnected
                    THEN awaySince
                    ELSE [awaySince EXCEPT ![side] = now]
    /\ UNCHANGED <<now, verdict>>

Reconnect(side) ==
    /\ SessionReconnects(session, side, now)
    /\ session' = SessionReconnect(session, side)
    /\ UNCHANGED <<now, verdict, awaySince>>

ExpireReconnect ==
    /\ SessionExpires(session, now)
    /\ verdict' = {ExpiryWinner(session)}
    /\ session' = SessionFinish(session)
    /\ UNCHANGED <<now, awaySince>>

Finish ==
    /\ session' = SessionFinish(session)
    /\ UNCHANGED <<now, verdict, awaySince>>

Next ==
    \/ \E side \in Sides : MarkReady(side) \/ Disconnect(side) \/ Reconnect(side)
    \/ Pause
    \/ Resume
    \/ ExpireReconnect
    \/ Finish
    \/ ClockAdvances /\ UNCHANGED <<session, verdict, awaySince>>

Spec == Init /\ [][Next]_vars

-----------------------------------------------------------------------------
TypeOK ==
    /\ session \in Session
    /\ now \in Nat
    /\ verdict \in SUBSET (SUBSET Sides)
    /\ awaySince \in [Sides -> Nat]

\* A session reconnects exactly while a side is away and a deadline is set,
\* and no path (not even the one through an interruption) reaches play before
\* both sides were ready.  roomSession.ts keeps the five fields by hand.
SessionConsistent == WellFormedSession(session)

\* The transitions of the state diagram of docs/architecture.md are the only
\* ones.
DocumentedTransitions ==
    {<<"waiting", "playing">>, <<"playing", "paused">>, <<"paused", "playing">>}
        \cup {<<from, "reconnecting">> : from \in ResumableStates}
        \cup {<<"reconnecting", to>> : to \in ResumableStates}
        \cup {<<from, "finished">> : from \in SessionStates \ {"finished"}}

OnlyDocumentedTransitions ==
    [][session'.state # session.state =>
          <<session.state, session'.state>> \in DocumentedTransitions]_vars

\* An interruption is transparent: ready marks, pauses and further losses that
\* arrive while somebody is away neither change the state to go back to nor the
\* ready marks, and a complete recovery restores exactly that state.
InterruptionTransparent ==
    [][/\ ~Interrupted(session) /\ Interrupted(session') =>
             session'.resumeState = session.state
       /\ Interrupted(session) /\ Interrupted(session') =>
             session'.resumeState = session.resumeState
       /\ Interrupted(session) /\ session'.state \in ResumableStates =>
             session'.state = session.resumeState
       /\ Interrupted(session) => session'.ready = session.ready]_vars

\* A forfeit is never early and never hits a side that is there: when the
\* verdict falls, every absent side has been away for the whole window, and a
\* winner is a side that was not away.
ForfeitIsFair ==
    [][verdict' # verdict =>
          /\ \A side \in session.disconnected : awaySince[side] + Window <= now
          /\ session.disconnected # {}
          /\ \A w \in verdict' : w \cap session.disconnected = {}]_vars
=============================================================================
