----------------------------- MODULE Matchmaker -----------------------------
(***************************************************************************)
(* One Matchmaker object and its clock, its methods called in any order.   *)
(***************************************************************************)
EXTENDS MatchmakerOps, Clock

VARIABLE mm

queueVars == <<mm, now>>

QueueInit == mm = NewMatchmaker /\ now = 0

EnqueueWaits(u) ==
    /\ mm.status[u] = "none"
    /\ Opponents(mm, u) = {}
    /\ mm' = Enqueued(mm, u, now)
    /\ UNCHANGED now

EnqueueMatches(u) ==
    /\ mm.status[u] = "none"
    /\ \E v \in mm.queue : IsClosest(mm, u, v) /\ mm' = Paired(mm, u, v)
    /\ UNCHANGED now

ClaimAiFallback(u) ==
    /\ ClaimAnswer(mm, u, now) = "ready"
    /\ mm' = Claimed(mm, u)
    /\ UNCHANGED now

LeaveQueue(u) ==
    /\ mm' = Left(mm, {u})
    /\ UNCHANGED now

Release(u) ==
    /\ mm' = Released(mm, {u})
    /\ UNCHANGED now

QueueNext ==
    \/ \E u \in Users : \/ EnqueueWaits(u)
                        \/ EnqueueMatches(u)
                        \/ ClaimAiFallback(u)
                        \/ LeaveQueue(u)
                        \/ Release(u)
    \/ ClockAdvances /\ UNCHANGED mm

QueueSpec == QueueInit /\ [][QueueNext]_queueVars

-----------------------------------------------------------------------------
QueueTypeOK == mm \in MatchmakerState /\ now \in Nat

\* The array and the status map are two records of the same fact, updated by
\* hand in five methods: a player is in the array exactly while its status is
\* "queued", never twice (nobody is ahead of itself), and the array is a total
\* order in which earlier means queued no later.
QueueMatchesStatus ==
    /\ mm.queue = {u \in Users : mm.status[u] = "queued"}
    /\ mm.ahead \subseteq mm.queue \X mm.queue
    /\ \A u, v \in mm.queue :
          /\ u # v => <<u, v>> \in mm.ahead \/ <<v, u>> \in mm.ahead
          /\ <<u, v>> \in mm.ahead => /\ <<v, u>> \notin mm.ahead
                                     /\ mm.queuedAt[u] <= mm.queuedAt[v]

\* No two players who could play each other are both left waiting, whatever
\* sequence of joins, leaves, releases and fallbacks came before.
NoCompatiblePairWaits ==
    \A u, v \in mm.queue : u # v => ~Compatible(u, v)

\* A waiting player leaves the queue as "matched" either with exactly one other
\* player, of the same kind, within the rating limit and closest among those
\* who wait, or alone after the whole fallback time.
MatchIsJustified ==
    [][LET new == {u \in Users : mm.status[u] # "matched" /\ mm'.status[u] = "matched"}
       IN  new # {} =>
             \/ \E u \in new : /\ new = {u}
                               /\ mm.status[u] = "queued"
                               /\ now - mm.queuedAt[u] >= Fallback
             \/ \E u, v \in new :
                   /\ new = {u, v} /\ u # v
                   /\ mm.status[u] = "none" /\ mm.status[v] = "queued"
                   /\ Compatible(u, v)
                   /\ \A w \in Opponents(mm, u) : RatingGap(u, v) <= RatingGap(u, w)]_queueVars
=============================================================================
