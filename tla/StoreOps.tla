------------------------------ MODULE StoreOps ------------------------------
(***************************************************************************)
(* The rows both repositories of packages/db keep about players, results   *)
(* and one tournament, and what a result does to them.                     *)
(***************************************************************************)
EXTENDS Integers, Sequences, FiniteSets, Functions

CONSTANTS
    Users,          \* players and NPCs, in the order of their identifiers
    Keys,           \* result keys; the hub makes one for each room
    Commands,       \* the finalizeMatch commands the hub may issue
    StartRating,    \* the rating of every user at the start
    Early,          \* who has joined the tournament, in the order of joining
    NoUser, NoKey, NoSlot

Capacity == 4
Semifinals == {"semifinal1", "semifinal2"}
Slots == Semifinals \cup {"final"}

Ratings == {r \in Int : r >= 800}

ASSUME UsersAssumption == Users \subseteq Nat
ASSUME NoAssumption == NoUser \notin Users /\ NoKey \notin Keys /\ NoSlot \notin Slots
ASSUME RatingAssumption == StartRating \in [Users -> Ratings]
ASSUME EarlyAssumption ==
    /\ Early \in Seq(Users)
    /\ Len(Early) < Capacity
    /\ \A i, j \in DOMAIN Early : Early[i] = Early[j] => i = j
\* What assertFinalizeMatchCommand lets through, with both sides taken: the
\* hub finishes a room with two users, or with a user and an NPC.
ASSUME CommandsAssumption ==
    /\ Commands \subseteq [key : Keys, winner : Users, loser : Users, slot : Slots \cup {NoSlot}]
    /\ \A c \in Commands : c.winner # c.loser

\* The table f with the row v under the key k.
Put(f, k, v) == [x \in DOMAIN f \cup {k} |-> IF x = k THEN v ELSE f[x]]

NewUsers == [u \in Users |-> [rating |-> StartRating[u], wins |-> 0, losses |-> 0]]
OpenCup == [status |-> "open", winner |-> NoUser]

RatingWon(rating) == rating + 16
RatingLost(rating) == IF rating - 12 < 800 THEN 800 ELSE rating - 12

Won(user, before) == [user EXCEPT !.wins = @ + 1, !.rating = RatingWon(before)]
Lost(user, before) == [user EXCEPT !.losses = @ + 1, !.rating = RatingLost(before)]

\* The users after a result, given the ratings it starts from.
Rated(users, c, before) ==
    [users EXCEPT ![c.winner] = Won(@, before[c.winner]),
                  ![c.loser] = Lost(@, before[c.loser])]

Participants(row) == {row.left, row.right}
Pairing(l, r) ==
    [left |-> l, right |-> r, status |-> "ready", result |-> NoKey, winner |-> NoUser]
Decided(row, c) == [row EXCEPT !.status = "finished", !.result = c.key, !.winner = c.winner]

\* A new row where there was none: the unique constraint keeps the old one.
Ensure(rows, s, row) == IF s \in DOMAIN rows THEN rows ELSE Put(rows, s, row)

SemifinalRows(rows, entries) ==
    Ensure(Ensure(rows, "semifinal1", Pairing(entries[1], entries[4])),
           "semifinal2", Pairing(entries[2], entries[3]))

BothDecided(rows) ==
    \A s \in Semifinals : s \in DOMAIN rows /\ rows[s].status = "finished"

\* The bracket and the tournament after the result c of one of its matches.
Advanced(rows, c) ==
    LET linked == [rows EXCEPT ![c.slot] = Decided(@, c)]
    IN  IF c.slot \in Semifinals /\ BothDecided(linked)
        THEN Ensure(linked, "final", Pairing(linked["semifinal1"].winner,
                                             linked["semifinal2"].winner))
        ELSE linked

Crowned(cup, c) ==
    IF c.slot = "final" THEN [status |-> "finished", winner |-> c.winner] ELSE cup
=============================================================================
