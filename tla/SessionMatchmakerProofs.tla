------------------------ MODULE SessionMatchmakerProofs ------------------------
(***************************************************************************)
(* Theorems about the two classes that the hub calls: the room session,    *)
(* for every window and every length of the clock, and the matchmaker, for *)
(* every set of users, ratings, limit and fallback time.                   *)
(***************************************************************************)
EXTENDS RoomSession, Matchmaker, OpsLemmas

-----------------------------------------------------------------------------
(* RoomSession *)

\* The variables of the model always have their types: the session is one of
\* the states of the class, the deadline a set of instants.
THEOREM SessionTypes == Spec => []TypeOK
<1>1. Init => TypeOK
  BY NewSessionFacts DEF Init, TypeOK
<1>2. TypeOK /\ [Next]_vars => TypeOK'
  <2> SUFFICES ASSUME TypeOK, [Next]_vars PROVE TypeOK'
    OBVIOUS
  <2> USE DEF TypeOK
  <2>1. \A side \in Sides : MarkReady(side) => TypeOK'
    BY SessionTyped DEF MarkReady
  <2>2. \A side \in Sides : Disconnect(side) => TypeOK'
    BY SessionTyped DEF Disconnect
  <2>3. \A side \in Sides : Reconnect(side) => TypeOK'
    BY SessionTyped DEF Reconnect
  <2>4. Pause => TypeOK'
    BY SessionTyped DEF Pause, Sides
  <2>5. Resume => TypeOK'
    BY SessionTyped DEF Resume, Sides
  <2>6. ExpireReconnect => TypeOK'
    BY SessionTyped DEF ExpireReconnect, ExpiryWinner, Sides
  <2>7. Finish => TypeOK'
    BY SessionTyped DEF Finish, Sides
  <2>8. ClockAdvances /\ UNCHANGED <<session, verdict, awaySince>> => TypeOK'
    BY DEF ClockAdvances
  <2>9. UNCHANGED vars => TypeOK'
    BY DEF vars
  <2> QED BY <2>1, <2>2, <2>3, <2>4, <2>5, <2>6, <2>7, <2>8, <2>9 DEF Next
<1> QED BY <1>1, <1>2, PTL DEF Spec

\* A session reconnects exactly while a side is away and a deadline is set, and
\* play is reached, or resumed, only after both sides were ready.
THEOREM StaysConsistent == Spec => []SessionConsistent
<1>1. Init => SessionConsistent
  BY NewSessionFacts DEF Init, SessionConsistent
<1>2. TypeOK /\ SessionConsistent /\ [Next]_vars => SessionConsistent'
  <2> SUFFICES ASSUME TypeOK, SessionConsistent, [Next]_vars PROVE SessionConsistent'
    OBVIOUS
  <2> USE DEF SessionConsistent
  <2>0. session \in Session /\ now \in Int
    BY DEF TypeOK
  <2>1. \A side \in Sides : MarkReady(side) => SessionConsistent'
    BY <2>0, SessionShape DEF MarkReady
  <2>2. \A side \in Sides : Disconnect(side) => SessionConsistent'
    BY <2>0, SessionShape DEF Disconnect
  <2>3. \A side \in Sides : Reconnect(side) => SessionConsistent'
    BY <2>0, SessionShape DEF Reconnect, SessionReconnects, Interrupted
  <2>4. Pause => SessionConsistent'
    BY <2>0, SessionShape DEF Pause, Sides
  <2>5. Resume => SessionConsistent'
    BY <2>0, SessionShape DEF Resume, Sides
  <2>6. ExpireReconnect => SessionConsistent'
    BY <2>0, SessionShape DEF ExpireReconnect, Sides
  <2>7. Finish => SessionConsistent'
    BY <2>0, SessionShape DEF Finish, Sides
  <2>8. UNCHANGED session \/ UNCHANGED vars => SessionConsistent'
    BY DEF vars
  <2> QED BY <2>1, <2>2, <2>3, <2>4, <2>5, <2>6, <2>7, <2>8 DEF Next
<1> QED BY <1>1, <1>2, SessionTypes, PTL DEF Spec

-----------------------------------------------------------------------------
\* The state moves only along the arrows of the documented diagram.
THEOREM DocumentedOnly == Spec => OnlyDocumentedTransitions
<1> DEFINE Step == session'.state # session.state =>
                      <<session.state, session'.state>> \in DocumentedTransitions
<1>1. TypeOK /\ SessionConsistent /\ [Next]_vars => [Step]_vars
  <2> SUFFICES ASSUME TypeOK, SessionConsistent, Next PROVE Step
    OBVIOUS
  <2> USE DEF TypeOK, Session, SessionStates, ResumableStates, DocumentedTransitions
  <2>1. \A side \in Sides : MarkReady(side) => Step
    BY DEF MarkReady, SessionMarkReady
  <2>2. \A side \in Sides : Disconnect(side) => Step
    BY DEF Disconnect, SessionDisconnect
  <2>3. \A side \in Sides : Reconnect(side) => Step
    BY DEF Reconnect, SessionReconnect, SessionReconnects
  <2>4. Pause => Step
    BY DEF Pause, SessionPause
  <2>5. Resume => Step
    BY DEF Resume, SessionResume
  <2>6. ExpireReconnect \/ Finish => Step
    BY DEF ExpireReconnect, Finish, SessionFinish
  <2>7. UNCHANGED session => Step
    BY Zenon
  <2> QED BY <2>1, <2>2, <2>3, <2>4, <2>5, <2>6, <2>7 DEF Next
<1> QED BY <1>1, SessionTypes, StaysConsistent, PTL DEF Spec, OnlyDocumentedTransitions

\* An interruption changes neither the ready marks nor the state to go back to,
\* and a complete recovery restores that state.
THEOREM TransparentInterruption == Spec => InterruptionTransparent
<1> DEFINE Step ==
       /\ ~Interrupted(session) /\ Interrupted(session') =>
             session'.resumeState = session.state
       /\ Interrupted(session) /\ Interrupted(session') =>
             session'.resumeState = session.resumeState
       /\ Interrupted(session) /\ session'.state \in ResumableStates =>
             session'.state = session.resumeState
       /\ Interrupted(session) => session'.ready = session.ready
<1>1. TypeOK /\ [Next]_vars => [Step]_vars
  <2> SUFFICES ASSUME TypeOK, Next PROVE Step
    OBVIOUS
  <2> USE DEF TypeOK, Session, SessionStates, ResumableStates, Interrupted
  <2>1. \A side \in Sides : MarkReady(side) => Step
    BY DEF MarkReady, SessionMarkReady
  <2>2. \A side \in Sides : Disconnect(side) => Step
    BY DEF Disconnect, SessionDisconnect
  <2>3. \A side \in Sides : Reconnect(side) => Step
    BY DEF Reconnect, SessionReconnect, SessionReconnects
  <2>4. Pause => Step
    BY DEF Pause, SessionPause
  <2>5. Resume => Step
    BY DEF Resume, SessionResume
  <2>6. ExpireReconnect \/ Finish => Step
    BY DEF ExpireReconnect, Finish, SessionFinish
  <2>7. UNCHANGED session => Step
    BY Zenon
  <2> QED BY <2>1, <2>2, <2>3, <2>4, <2>5, <2>6, <2>7 DEF Next
<1> QED BY <1>1, SessionTypes, PTL DEF Spec, InterruptionTransparent

-----------------------------------------------------------------------------
\* The strengthening behind ForfeitIsFair: nobody was lost in the future, and
\* every absent side was lost at least a whole window before the deadline.
WindowsAreWhole ==
    /\ \A side \in Sides : awaySince[side] <= now
    /\ \A side \in session.disconnected : \A d \in session.deadline :
          awaySince[side] + Window <= d

\* The deadline leaves every absent side its whole window, however often the
\* window was opened again.
THEOREM WholeWindows == Spec => []WindowsAreWhole
<1>1. Init => WindowsAreWhole
  BY DEF Init, WindowsAreWhole, NewSession
<1>2. TypeOK /\ SessionConsistent /\ WindowsAreWhole /\ [Next]_vars => WindowsAreWhole'
  <2> SUFFICES ASSUME TypeOK, SessionConsistent, WindowsAreWhole, [Next]_vars
               PROVE  WindowsAreWhole'
    OBVIOUS
  <2> USE WindowAssumption DEF WindowsAreWhole, TypeOK, Session
  <2>1. ASSUME NEW side \in Sides, Disconnect(side) PROVE WindowsAreWhole'
    <3>1. CASE session.state = "finished"
      BY <2>1, <3>1 DEF Disconnect, SessionDisconnect
    <3>2. CASE session.state # "finished"
      <4> DEFINE since == IF side \in session.disconnected THEN awaySince
                          ELSE [awaySince EXCEPT ![side] = now]
      <4>1. /\ session'.deadline = {now + Window}
            /\ session'.disconnected = session.disconnected \cup {side}
            /\ awaySince' = since /\ now' = now
        BY <2>1, <3>2 DEF Disconnect, SessionDisconnect
      <4>2. \A other \in Sides : since[other] \in Nat /\ since[other] <= now
        OBVIOUS
      <4> QED BY <4>1, <4>2
    <3> QED BY <3>1, <3>2
  <2> DEFINE Shrinks == /\ session'.disconnected \subseteq session.disconnected
                        /\ session'.deadline \subseteq session.deadline
                        /\ UNCHANGED <<awaySince, now>>
  <2>8. Shrinks => WindowsAreWhole'
    OBVIOUS
  <2>2. ASSUME NEW side \in Sides, Reconnect(side) PROVE Shrinks
    BY <2>2 DEF Reconnect, SessionReconnect
  <2>3. ASSUME NEW side \in Sides, MarkReady(side) PROVE Shrinks
    BY <2>3 DEF MarkReady, SessionMarkReady
  <2>4. Pause \/ Resume => Shrinks
    BY DEF Pause, Resume, SessionPause, SessionResume
  <2>5. ExpireReconnect \/ Finish => Shrinks
    <3>1. session' = SessionFinish(session) /\ UNCHANGED <<awaySince, now>> => Shrinks
      BY DEF SessionFinish
    <3> QED BY <3>1 DEF ExpireReconnect, Finish
  <2>6. ClockAdvances /\ UNCHANGED <<session, verdict, awaySince>> => WindowsAreWhole'
    BY DEF ClockAdvances
  <2>7. UNCHANGED vars => WindowsAreWhole'
    BY DEF vars
  <2> QED
    <3> HIDE DEF WindowsAreWhole, Shrinks
    <3> QED BY <2>1, <2>2, <2>3, <2>4, <2>5, <2>6, <2>7, <2>8 DEF Next
<1> QED BY <1>1, <1>2, SessionTypes, StaysConsistent, PTL DEF Spec

\* No forfeit is early, and none hits a side that is there.
THEOREM FairForfeit == Spec => ForfeitIsFair
<1> DEFINE Step == verdict' # verdict =>
              /\ \A side \in session.disconnected : awaySince[side] + Window <= now
              /\ session.disconnected # {}
              /\ \A w \in verdict' : w \cap session.disconnected = {}
<1>1. TypeOK /\ SessionConsistent /\ WindowsAreWhole /\ [Next]_vars => [Step]_vars
  <2> SUFFICES ASSUME TypeOK, SessionConsistent, WindowsAreWhole, Next, verdict' # verdict
               PROVE  Step
    OBVIOUS
  <2>1. ExpireReconnect
    BY DEF Next, MarkReady, Disconnect, Reconnect, Pause, Resume, Finish
  <2>2. PICK d \in session.deadline : now >= d
    BY <2>1 DEF ExpireReconnect, SessionExpires
  <2>3. \A side \in session.disconnected : awaySince[side] + Window <= now
    BY <2>2, WindowAssumption DEF WindowsAreWhole, TypeOK, Session
  <2>4. session.disconnected # {}
    BY <2>1 DEF ExpireReconnect, SessionExpires, SessionConsistent,
                WellFormedSession, Interrupted
  <2>5. ExpiryWinner(session) \cap session.disconnected = {}
    BY DEF ExpiryWinner
  <2> QED BY <2>1, <2>3, <2>4, <2>5 DEF ExpireReconnect
<1> QED BY <1>1, SessionTypes, StaysConsistent, WholeWindows, PTL DEF Spec, ForfeitIsFair

-----------------------------------------------------------------------------
(* Matchmaker *)

\* The strengthening behind the theorems: the two records agree and nobody has
\* queued in the future, so that a new player is the last of the array.
QueueInv == QueueTypeOK /\ Consistent(mm, now)

LEMMA QueueInvInit == QueueInit => QueueInv
  BY NewMatchmakerFacts DEF QueueInit, QueueInv, QueueTypeOK

\* The queue of a step: only EnqueueWaits adds a player.
LEMMA QueueInvStep == QueueInv /\ [QueueNext]_queueVars => QueueInv'
<1> SUFFICES ASSUME QueueInv, [QueueNext]_queueVars PROVE QueueInv'
  OBVIOUS
<1>0. mm \in MatchmakerState /\ now \in Nat /\ Consistent(mm, now)
  BY DEF QueueInv, QueueTypeOK
<1>1. ASSUME NEW u \in Users, EnqueueWaits(u) PROVE QueueInv'
  <2>1. u \notin mm.queue
    BY <1>0, <1>1 DEF EnqueueWaits, Consistent
  <2> QED BY <1>0, <1>1, <2>1, EnqueuedFacts DEF EnqueueWaits, QueueInv, QueueTypeOK
<1>2. ASSUME NEW u \in Users, EnqueueMatches(u) PROVE QueueInv'
  <2>1. PICK v \in mm.queue : mm' = Reassign(mm, {u, v}, "matched")
    BY <1>2 DEF EnqueueMatches, Paired
  <2>2. {u, v} \in SUBSET Users
    BY <1>0 DEF MatchmakerState
  <2> QED BY <1>0, <1>2, <2>1, <2>2, ReassignFacts DEF EnqueueMatches, QueueInv, QueueTypeOK
<1>3. ASSUME NEW u \in Users, ClaimAiFallback(u) PROVE QueueInv'
  BY <1>0, <1>3, ReassignFacts DEF ClaimAiFallback, Claimed, QueueInv, QueueTypeOK
<1>4. ASSUME NEW u \in Users, LeaveQueue(u) PROVE QueueInv'
  <2>1. {w \in {u} : mm.status[w] = "queued"} \in SUBSET Users
    OBVIOUS
  <2> QED BY <1>0, <1>4, <2>1, ReassignFacts DEF LeaveQueue, Left, QueueInv, QueueTypeOK
<1>5. ASSUME NEW u \in Users, Release(u) PROVE QueueInv'
  BY <1>0, <1>5, ReassignFacts DEF Release, Released, QueueInv, QueueTypeOK
<1>6. ASSUME ClockAdvances, mm' = mm PROVE QueueInv'
  <2>1. mm' = mm /\ now' = now + 1
    BY <1>6 DEF ClockAdvances
  <2>2. Consistent(mm, now + 1)
    BY <1>0 DEF Consistent, MatchmakerState
  <2> QED BY <1>0, <2>1, <2>2 DEF QueueInv, QueueTypeOK
<1>7. ASSUME UNCHANGED queueVars PROVE QueueInv'
  BY <1>0, <1>7 DEF queueVars, QueueInv, QueueTypeOK
<1> QED BY <1>1, <1>2, <1>3, <1>4, <1>5, <1>6, <1>7 DEF QueueNext

LEMMA QueueInvHolds == QueueSpec => []QueueInv
  BY QueueInvInit, QueueInvStep, PTL DEF QueueSpec

-----------------------------------------------------------------------------
\* The array holds queued users only, with their status and instant.
THEOREM QueueTypes == QueueSpec => []QueueTypeOK
<1>1. QueueInv => QueueTypeOK
  BY DEF QueueInv
<1> QED BY <1>1, QueueInvHolds, PTL

\* The array and the status map agree, and the array is in the order of arrival.
THEOREM QueueAgrees == QueueSpec => []QueueMatchesStatus
<1>1. QueueInv => QueueMatchesStatus
  BY DEF QueueInv, Consistent, QueueMatchesStatus
<1> QED BY <1>1, QueueInvHolds, PTL

\* Two players who could play each other never wait side by side.
THEOREM NobodyWaitsNextToAnOpponent == QueueSpec => []NoCompatiblePairWaits
<1>1. QueueInit => NoCompatiblePairWaits
  BY DEF QueueInit, NewMatchmaker, NoCompatiblePairWaits
<1>2. QueueInv /\ NoCompatiblePairWaits /\ [QueueNext]_queueVars => NoCompatiblePairWaits'
  <2> SUFFICES ASSUME QueueInv, NoCompatiblePairWaits, [QueueNext]_queueVars
               PROVE  NoCompatiblePairWaits'
    OBVIOUS
  <2>0. mm \in MatchmakerState /\ mm.queue \subseteq Users /\ now \in Int
    BY DEF QueueInv, QueueTypeOK, MatchmakerState
  <2>1. ASSUME NEW u \in Users, EnqueueWaits(u) PROVE NoCompatiblePairWaits'
    <3>1. \A v \in mm.queue : ~Compatible(u, v) /\ ~Compatible(v, u)
      BY <2>0, <2>1, GapFacts DEF EnqueueWaits, Opponents
    <3>2. mm'.queue = mm.queue \cup {u}
      BY <2>0, <2>1, EnqueuedFacts DEF EnqueueWaits
    <3> QED BY <3>1, <3>2 DEF NoCompatiblePairWaits
  <2>2. ASSUME mm'.queue \subseteq mm.queue PROVE NoCompatiblePairWaits'
    BY <2>2 DEF NoCompatiblePairWaits
  <2>3. ASSUME NEW u \in Users, EnqueueMatches(u) PROVE mm'.queue \subseteq mm.queue
    BY <2>3 DEF EnqueueMatches, Paired, Reassign
  <2>4. ASSUME NEW u \in Users, ClaimAiFallback(u) \/ LeaveQueue(u) \/ Release(u)
        PROVE  mm'.queue \subseteq mm.queue
    BY <2>4 DEF ClaimAiFallback, LeaveQueue, Release, Claimed, Left, Released, Reassign
  <2>5. ASSUME UNCHANGED mm \/ UNCHANGED queueVars PROVE mm'.queue \subseteq mm.queue
    BY <2>5 DEF queueVars
  <2> QED BY <2>1, <2>2, <2>3, <2>4, <2>5 DEF QueueNext
<1> QED BY <1>1, <1>2, QueueInvHolds, PTL DEF QueueSpec

-----------------------------------------------------------------------------
\* Who becomes matched does so with the closest compatible player of the queue,
\* or alone after the whole fallback time.
THEOREM MatchesAreJustified == QueueSpec => MatchIsJustified
<1> DEFINE New == {u \in Users : mm.status[u] # "matched" /\ mm'.status[u] = "matched"}
           Alone(u) == /\ New = {u}
                       /\ mm.status[u] = "queued"
                       /\ now - mm.queuedAt[u] >= Fallback
           Together(u, v) ==
                       /\ New = {u, v} /\ u # v
                       /\ mm.status[u] = "none" /\ mm.status[v] = "queued"
                       /\ Compatible(u, v)
                       /\ \A w \in Opponents(mm, u) : RatingGap(u, v) <= RatingGap(u, w)
           Step == New # {} => \/ \E u \in New : Alone(u)
                               \/ \E u, v \in New : Together(u, v)
<1>1. QueueInv /\ [QueueNext]_queueVars => [Step]_queueVars
  <2> SUFFICES ASSUME QueueInv, QueueNext PROVE Step
    OBVIOUS
  <2>0. /\ mm \in MatchmakerState /\ now \in Int /\ mm.queue \subseteq Users
        /\ \A u \in mm.queue : mm.status[u] = "queued"
    BY DEF QueueInv, QueueTypeOK, MatchmakerState, Consistent
  <2>1. ASSUME NEW u \in Users, EnqueueMatches(u) PROVE Step
    <3>1. PICK v \in mm.queue : IsClosest(mm, u, v) /\ mm' = Reassign(mm, {u, v}, "matched")
      BY <2>1 DEF EnqueueMatches, Paired
    <3>2. mm.status[u] = "none" /\ mm.status[v] = "queued" /\ v \in Users /\ u # v
      BY <2>0, <2>1 DEF EnqueueMatches
    <3>3. New = {u, v}
      BY <2>0, <3>1, <3>2, ReassignFacts
    <3>4. Compatible(u, v)
      BY <3>1 DEF IsClosest, Opponents
    <3>5. ASSUME NEW w \in Opponents(mm, u) PROVE RatingGap(u, v) <= RatingGap(u, w)
      <4>1. w \in Users /\ RatingGap(u, v) \in Int /\ RatingGap(u, w) \in Int
        BY <2>0, <3>2, GapFacts DEF Opponents
      <4>2. w # v => RatingGap(u, v) < RatingGap(u, w) \/ RatingGap(u, v) = RatingGap(u, w)
        BY <3>1 DEF IsClosest
      <4>3. w = v => RatingGap(u, v) = RatingGap(u, w)
        OBVIOUS
      <4> QED BY <4>1, <4>2, <4>3
    <3>6. Together(u, v)
      BY <3>2, <3>3, <3>4, <3>5
    <3> QED BY <3>3, <3>6
  <2>2. ASSUME NEW u \in Users, ClaimAiFallback(u) PROVE Step
    <3>1. /\ mm.status[u] = "queued" /\ mm.queuedAt[u] \in Int
          /\ ~(now - mm.queuedAt[u] < Fallback)
      BY <2>0, <2>2 DEF ClaimAiFallback, ClaimAnswer, MatchmakerState
    <3>2. New = {u}
      BY <2>0, <2>2, <3>1, ReassignFacts DEF ClaimAiFallback, Claimed
    <3>3. now - mm.queuedAt[u] >= Fallback
      BY <2>0, <3>1, MatchmakerAssumption
    <3> QED BY <3>1, <3>2, <3>3
  <2>3. ASSUME NEW u \in Users, EnqueueWaits(u) PROVE Step
    BY <2>0, <2>3 DEF EnqueueWaits, Enqueued, MatchmakerState
  <2>4. ASSUME NEW u \in Users, LeaveQueue(u) \/ Release(u) PROVE Step
    BY <2>0, <2>4 DEF LeaveQueue, Release, Left, Released, Reassign, MatchmakerState
  <2>5. ASSUME UNCHANGED mm PROVE Step
    BY <2>5
  <2> QED BY <2>1, <2>2, <2>3, <2>4, <2>5 DEF QueueNext
<1> QED BY <1>1, QueueInvHolds, PTL DEF QueueSpec, MatchIsJustified
=============================================================================
