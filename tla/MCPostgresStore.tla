-------------------------- MODULE MCPostgresStore --------------------------
(* Four players and a late comer; user 2 also plays outside the tournament. *)
EXTENDS PostgresStore

CONSTANTS k1, k2, k3, k4, k5, s1, s2

Cmd(k, w, l, m) == [key |-> k, winner |-> w, loser |-> l, slot |-> m]

\* Two rooms played the first semifinal, and the ends of the first disagree;
\* whoever takes the last place is its other player.
MCCommands ==
    {Cmd(k1, 1, 4, "semifinal1"), Cmd(k1, 4, 1, "semifinal1"), Cmd(k2, 1, 4, "semifinal1"),
     Cmd(k3, 2, 3, "semifinal2"), Cmd(k4, 2, 1, "final"), Cmd(k5, 2, 1, NoSlot)}
MCStartRating == [u \in Users |-> IF u = 1 THEN 805 ELSE 1000 + u]
MCEarly == <<1, 2, 3>>
=============================================================================
