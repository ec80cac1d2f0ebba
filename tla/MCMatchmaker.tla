---------------------------- MODULE MCMatchmaker ----------------------------
(* Three registered users: the second is in reach of both others, of one at  *)
(* exactly the limit, and these are out of reach of each other; and two guests *)
(* with the ratings of registered users.                                     *)
EXTENDS Matchmaker, TLC

CONSTANTS u1, u2, u3, g1, g2

MCRating == (u1 :> 1000) @@ (u2 :> 1200) @@ (u3 :> 1300) @@ (g1 :> 1200) @@ (g2 :> 1000)
=============================================================================
