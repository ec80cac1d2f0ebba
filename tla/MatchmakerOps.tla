---------------------------- MODULE MatchmakerOps ----------------------------
(***************************************************************************)
(* The methods of the class Matchmaker (game/matchmaker.ts) as operators   *)
(* from a matchmaker to a matchmaker.  Matchmaker.tla runs them alone;     *)
(* GameHub.tla keeps one matchmaker.                                       *)
(***************************************************************************)
EXTENDS Integers

CONSTANTS
    Users,
    Guests,                 \* the users of kind "guest"
    Rating,                 \* the rating a user queues with
    MaxRatingDifference,    \* MAX_MATCHMAKING_RATING_DIFFERENCE
    Fallback                \* MATCHMAKER_AI_FALLBACK_MS

ASSUME MatchmakerAssumption ==
    /\ Guests \subseteq Users
    /\ Rating \in [Users -> Int]
    /\ MaxRatingDifference \in Nat
    /\ Fallback \in Nat \ {0}

\* The array queue is the set of the users in it and the order they stand in,
\* <<u, v>> \in ahead when u is before v; queuedAt: queuedAtMs of the queued
\* users; status: playerStatuses, "none" where the map has no key.
MatchmakerState == [queue    : SUBSET Users,
                    ahead    : SUBSET (Users \X Users),
                    queuedAt : [Users -> Int],
                    status   : [Users -> {"none", "queued", "matched"}]]

NewMatchmaker == [queue    |-> {},
                  ahead    |-> {},
                  queuedAt |-> [u \in Users |-> 0],
                  status   |-> [u \in Users |-> "none"]]

RatingGap(u, v) == IF Rating[u] < Rating[v] THEN Rating[v] - Rating[u] ELSE Rating[u] - Rating[v]

\* Mutant: the kinds are not compared.
CompatibleAnyKind(u, v) == RatingGap(u, v) <= MaxRatingDifference

\* Whether the matchmaker may pair the two.
Compatible(u, v) == (u \in Guests <=> v \in Guests) /\ RatingGap(u, v) <= MaxRatingDifference

\* Mutant: the limit itself is out of reach.
OpponentsBelowLimit(m, u) ==
    {v \in m.queue : Compatible(u, v) /\ RatingGap(u, v) < MaxRatingDifference}

\* findClosestOpponent: the closest compatible player, the earliest among
\* equally close ones.
Opponents(m, u) == {v \in m.queue : Compatible(u, v)}

\* Mutant: the earliest compatible player.
IsEarliest(m, u, v) ==
    v \in Opponents(m, u) /\ \A w \in Opponents(m, u) \ {v} : <<v, w>> \in m.ahead

IsClosest(m, u, v) ==
    /\ v \in Opponents(m, u)
    /\ \A w \in Opponents(m, u) \ {v} :
          \/ RatingGap(u, v) < RatingGap(u, w)
          \/ RatingGap(u, v) = RatingGap(u, w) /\ <<v, w>> \in m.ahead

\* The matchmaker with the players of U taken out of the array (a splice for
\* each of them) and their status set to st.
Reassign(m, U, st) ==
    [queue    |-> m.queue \ U,
     ahead    |-> {p \in m.ahead : p[1] \notin U /\ p[2] \notin U},
     queuedAt |-> [u \in Users |-> IF u \in U THEN 0 ELSE m.queuedAt[u]],
     status   |-> [u \in Users |-> IF u \in U THEN st ELSE m.status[u]]]

\* enqueue() when it answers "queued": a push at the end of the array.
Enqueued(m, u, now) ==
    [queue    |-> m.queue \cup {u},
     ahead    |-> m.ahead \cup {<<v, u>> : v \in m.queue},
     queuedAt |-> [m.queuedAt EXCEPT ![u] = now],
     status   |-> [m.status EXCEPT ![u] = "queued"]]

\* enqueue() when it answers "matched" with player v.
Paired(m, u, v) == Reassign(m, {u, v}, "matched")

\* claimAiFallback(): the answer and, when it is "ready", the new matchmaker.
ClaimAnswer(m, u, now) ==
    IF m.status[u] # "queued" THEN "unavailable"
    ELSE IF now - m.queuedAt[u] < Fallback THEN "waiting"
    ELSE "ready"

Claimed(m, u) == Reassign(m, {u}, "matched")

\* leaveQueue() for every user of U: only queued players go.
Left(m, U) == Reassign(m, {u \in U : m.status[u] = "queued"}, "none")

\* release() for every user of U: queued or matched, the slot is free.
Released(m, U) == Reassign(m, U, "none")
=============================================================================
