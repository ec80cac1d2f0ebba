-------------------------------- MODULE Clock --------------------------------
(***************************************************************************)
(* The clock that RoomSession and Matchmaker are handed: both take the     *)
(* instant as an argument, which their caller reads from Date.now().       *)
(***************************************************************************)
EXTENDS Naturals

CONSTANT MaxNow                 \* bound: the last instant of the clock

ASSUME MaxNowAssumption == MaxNow \in Nat

VARIABLE now                    \* the nowMs the caller passes

ClockAdvances ==
    /\ now < MaxNow
    /\ now' = now + 1
=============================================================================
