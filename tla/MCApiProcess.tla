---------------------------- MODULE MCApiProcess ----------------------------
(* The instance of the drain, inside the process that starts and ends it. *)
EXTENDS ApiProcess, TLC

ASSUME InstanceAssumption == NoTournaments

CONSTANTS ua, ub, uc, a1, b1, c1, r1

MCUserOf == [c \in Conns |-> IF c = a1 THEN ua ELSE IF c = b1 THEN ub ELSE uc]
MCRating == [u \in Users |-> IF u = ua THEN 1000 ELSE IF u = ub THEN 1150 ELSE 1300]
MCTPlayers == [m \in TMatches |-> ("left" :> ua) @@ ("right" :> ub)]
=============================================================================
