------------------------------- MODULE OpsLemmas -------------------------------
(***************************************************************************)
(* What the methods of RoomSession do to any session and those of          *)
(* Matchmaker to any queue: they keep its type and its shape.  The proofs   *)
(* about the two classes and about the hub rest on these facts.            *)
(***************************************************************************)
EXTENDS RoomSessionOps, MatchmakerOps, TLAPS

-----------------------------------------------------------------------------
(* Sessions *)

LEMMA NewSessionFacts == NewSession \in Session /\ WellFormedSession(NewSession)
  BY DEF NewSession, Session, SessionStates, ResumableStates, Sides,
         WellFormedSession, Interrupted, Underlying

\* Every operator answers a session.
LEMMA SessionTyped ==
  ASSUME NEW s \in Session, NEW side \in Sides, NEW now \in Int
  PROVE  /\ SessionMarkReady(s, side) \in Session
         /\ SessionPause(s) \in Session
         /\ SessionResume(s) \in Session
         /\ SessionDisconnect(s, side, now) \in Session
         /\ SessionReconnect(s, side) \in Session
         /\ SessionFinish(s) \in Session
<1>1. SessionMarkReady(s, side) \in Session
  BY DEF SessionMarkReady, Session, SessionStates, ResumableStates
<1>2. SessionPause(s) \in Session /\ SessionResume(s) \in Session
  BY DEF SessionPause, SessionResume, Session, SessionStates, ResumableStates
<1>3. SessionDisconnect(s, side, now) \in Session
  <2>1. now + Window \in Int
    BY WindowAssumption
  <2>2. CASE s.state = "finished"
    BY <2>2 DEF SessionDisconnect
  <2>3. CASE s.state # "finished"
    BY <2>1, <2>3 DEF SessionDisconnect, Session, SessionStates
  <2> QED BY <2>2, <2>3
<1>4. SessionReconnect(s, side) \in Session
  BY DEF SessionReconnect, Session, SessionStates
<1>5. SessionFinish(s) \in Session
  BY DEF SessionFinish, Session, SessionStates
<1> QED BY <1>1, <1>2, <1>3, <1>4, <1>5

\* Every operator keeps the shape of a session; a recovery, of an interrupted
\* one, which is what SessionReconnects asks for.
LEMMA SessionShape ==
  ASSUME NEW s \in Session, WellFormedSession(s), NEW side \in Sides, NEW now \in Int
  PROVE  /\ WellFormedSession(SessionMarkReady(s, side))
         /\ WellFormedSession(SessionPause(s))
         /\ WellFormedSession(SessionResume(s))
         /\ WellFormedSession(SessionDisconnect(s, side, now))
         /\ Interrupted(s) => WellFormedSession(SessionReconnect(s, side))
         /\ WellFormedSession(SessionFinish(s))
<1> USE DEF Session, SessionStates, ResumableStates, WellFormedSession,
            Interrupted, Underlying
<1>1. WellFormedSession(SessionMarkReady(s, side))
  BY DEF SessionMarkReady
<1>2. WellFormedSession(SessionPause(s)) /\ WellFormedSession(SessionResume(s))
  BY DEF SessionPause, SessionResume
<1>3. WellFormedSession(SessionDisconnect(s, side, now))
  BY DEF SessionDisconnect
<1>4. ASSUME Interrupted(s) PROVE WellFormedSession(SessionReconnect(s, side))
  <2>1. CASE s.disconnected \ {side} = {}
    BY <1>4, <2>1 DEF SessionReconnect
  <2>2. CASE s.disconnected \ {side} # {}
    BY <1>4, <2>2 DEF SessionReconnect
  <2> QED BY <2>1, <2>2
<1>5. WellFormedSession(SessionFinish(s))
  BY DEF SessionFinish
<1> QED BY <1>1, <1>2, <1>3, <1>4, <1>5

-----------------------------------------------------------------------------
(* Queues *)

\* The array and the status map tell the same: see QueueMatchesStatus in
\* Matchmaker.tla.  Instants up to `now` are the past.
Consistent(m, now) ==
    /\ m.queue = {u \in Users : m.status[u] = "queued"}
    /\ m.ahead \subseteq m.queue \X m.queue
    /\ \A u \in m.queue : m.queuedAt[u] <= now
    /\ \A u, v \in m.queue :
          /\ u # v => <<u, v>> \in m.ahead \/ <<v, u>> \in m.ahead
          /\ <<u, v>> \in m.ahead => /\ <<v, u>> \notin m.ahead
                                     /\ m.queuedAt[u] <= m.queuedAt[v]

LEMMA NewMatchmakerFacts ==
  NewMatchmaker \in MatchmakerState /\ \A now \in Int : Consistent(NewMatchmaker, now)
<1>1. NewMatchmaker \in MatchmakerState
  BY DEF NewMatchmaker, MatchmakerState
<1>2. ASSUME NEW now \in Int PROVE Consistent(NewMatchmaker, now)
  BY DEF NewMatchmaker, Consistent
<1> QED BY <1>1, <1>2

LEMMA GapFacts ==
  ASSUME NEW u \in Users, NEW v \in Users
  PROVE  /\ RatingGap(u, v) \in Int
         /\ RatingGap(u, v) = RatingGap(v, u)
         /\ Compatible(u, v) <=> Compatible(v, u)
<1>1. Rating[u] \in Int /\ Rating[v] \in Int
  BY MatchmakerAssumption
<1>2. RatingGap(u, v) \in Int /\ RatingGap(u, v) = RatingGap(v, u)
  BY <1>1 DEF RatingGap
<1> QED BY <1>2 DEF Compatible

\* Taking players out, which pairing, claiming, leaving and releasing do.
LEMMA ReassignFacts ==
  ASSUME NEW m \in MatchmakerState, NEW U \in SUBSET Users, NEW st \in {"none", "matched"}
  PROVE  /\ Reassign(m, U, st) \in MatchmakerState
         /\ Reassign(m, U, st).queue = m.queue \ U
         /\ \A u \in Users : Reassign(m, U, st).status[u] = IF u \in U THEN st ELSE m.status[u]
         /\ \A now \in Int : Consistent(m, now) => Consistent(Reassign(m, U, st), now)
<1> DEFINE r == Reassign(m, U, st)
<1>1. /\ r.queue = m.queue \ U
      /\ r.ahead = {p \in m.ahead : p[1] \notin U /\ p[2] \notin U}
      /\ r.queuedAt = [u \in Users |-> IF u \in U THEN 0 ELSE m.queuedAt[u]]
      /\ r.status = [u \in Users |-> IF u \in U THEN st ELSE m.status[u]]
  BY DEF Reassign
<1>2. r \in MatchmakerState
  BY DEF Reassign, MatchmakerState
<1>3. ASSUME NEW now \in Int, Consistent(m, now) PROVE Consistent(r, now)
  <2> USE <1>1, <1>3 DEF Consistent, MatchmakerState
  <2>1. r.queue = {u \in Users : r.status[u] = "queued"}
    OBVIOUS
  <2>2. r.ahead \subseteq r.queue \X r.queue
    OBVIOUS
  <2>3. \A u \in r.queue : u \in m.queue /\ r.queuedAt[u] = m.queuedAt[u]
    OBVIOUS
  <2>4. \A u, v \in r.queue : <<u, v>> \in r.ahead <=> <<u, v>> \in m.ahead
    OBVIOUS
  <2> HIDE <1>1
  <2> QED BY <2>1, <2>2, <2>3, <2>4
<1> QED BY <1>1, <1>2, <1>3

\* A push at the end of the array.
LEMMA EnqueuedFacts ==
  ASSUME NEW m \in MatchmakerState, NEW u \in Users, NEW now \in Int
  PROVE  /\ Enqueued(m, u, now) \in MatchmakerState
         /\ Enqueued(m, u, now).queue = m.queue \cup {u}
         /\ Consistent(m, now) /\ u \notin m.queue => Consistent(Enqueued(m, u, now), now)
<1> DEFINE r == Enqueued(m, u, now)
<1>1. /\ r.queue = m.queue \cup {u}
      /\ r.ahead = m.ahead \cup {<<v, u>> : v \in m.queue}
      /\ r.queuedAt = [m.queuedAt EXCEPT ![u] = now]
      /\ r.status = [m.status EXCEPT ![u] = "queued"]
  BY DEF Enqueued
<1>2. r \in MatchmakerState
  BY DEF Enqueued, MatchmakerState
<1>3. ASSUME Consistent(m, now), u \notin m.queue PROVE Consistent(r, now)
  <2> USE <1>1, <1>3 DEF Consistent, MatchmakerState
  <2>1. r.queue = {v \in Users : r.status[v] = "queued"}
    OBVIOUS
  <2>2. r.ahead \subseteq r.queue \X r.queue
    OBVIOUS
  <2>3. \A v \in r.queue : r.queuedAt[v] <= now /\ r.queuedAt[v] \in Int
    OBVIOUS
  <2>4. ASSUME NEW v \in m.queue
        PROVE  /\ v \in Users /\ v # u
               /\ <<v, u>> \in r.ahead /\ <<u, v>> \notin r.ahead
               /\ r.queuedAt[v] = m.queuedAt[v] /\ r.queuedAt[v] <= r.queuedAt[u]
    <3>1. v \in Users /\ v # u
      OBVIOUS
    <3>2. <<v, u>> \in r.ahead
      OBVIOUS
    <3>3. <<u, v>> \notin m.ahead
      OBVIOUS
    <3>4. <<u, v>> \notin {<<w, u>> : w \in m.queue}
      BY <3>1
    <3>5. r.queuedAt[v] = m.queuedAt[v] /\ r.queuedAt[u] = now
      BY <3>1
    <3> QED BY <3>1, <3>2, <3>3, <3>4, <3>5
  <2>5. <<u, u>> \notin r.ahead
    OBVIOUS
  <2>6. ASSUME NEW v \in m.queue, NEW w \in m.queue
        PROVE  <<v, w>> \in r.ahead <=> <<v, w>> \in m.ahead
    <3>1. w # u
      BY <2>4
    <3>2. <<v, w>> \notin {<<x, u>> : x \in m.queue}
      BY <3>1
    <3> QED BY <3>2
  <2> HIDE <1>1
  <2>7. \A v, w \in r.queue :
          /\ v # w => <<v, w>> \in r.ahead \/ <<w, v>> \in r.ahead
          /\ <<v, w>> \in r.ahead => /\ <<w, v>> \notin r.ahead
                                     /\ r.queuedAt[v] <= r.queuedAt[w]
    <3> TAKE v, w \in r.queue
    <3>1. v \in m.queue \cup {u} /\ w \in m.queue \cup {u}
      BY <1>1
    <3> QED BY <3>1, <2>4, <2>5, <2>6
  <2> QED BY <2>1, <2>2, <2>3, <2>7
<1> QED BY <1>1, <1>2, <1>3
=============================================================================
