------------------------------ MODULE MCGameHub ------------------------------
(* Instances of the hub.  A user who replaces or recovers a connection needs *)
(* two: a connection is used again only when nothing refers to it.           *)
EXTENDS GameHub, TLC

CONSTANTS ua, ub, uc, a1, a2, b1, c1, r1, r2, m1

MCUserOf == [c \in Conns |-> IF c \in {a1, a2} THEN ua ELSE IF c = b1 THEN ub ELSE uc]
MCRating == [u \in Users |-> IF u = ua THEN 1000 ELSE IF u = ub THEN 1150 ELSE 1300]
\* The two connections of a user differ in nothing, nor do the rooms.
MCSymmetry == Permutations(Conns \cap {a1, a2}) \cup Permutations(RoomIds)

\* The bound on the guest, whom no registered player can meet: uc is in the hub,
\* or in a room of it, only while nobody else is connected.
MCGuestApart ==
    socket[c1] # "gone" \/ (\E r \in live : c1 \in Seated(rooms[r]))
        => \A c \in Conns \ {c1} : socket[c] = "gone"

MCTPlayers == [m \in TMatches |-> ("left" :> ua) @@ ("right" :> ub)]
=============================================================================
