---------------------------- MODULE MCGuestAccess ----------------------------
(* Two users with a session from the same address, and a third from another. *)
EXTENDS GuestAccess, TLC

CONSTANTS u1, u2, i1, i2

MCSessionIp == [u \in Users |-> IF u \in {u1, u2} THEN i1 ELSE i2]
MCSymmetry == Permutations(Users \cap {u1, u2}) \cup Permutations(Sockets) \cup Permutations(Tickets)
=============================================================================
