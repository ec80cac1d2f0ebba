----------------------------- MODULE MCRoomLoop -----------------------------
(* Two rooms on one interval; a step is two fractions of time. *)
EXTENDS RoomLoop
MCTimestep == 2
MCMaxTicks == 2
MCMaxLag == MCMaxTicks * MCTimestep
=============================================================================
