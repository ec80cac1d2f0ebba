---------------------------- MODULE MemoryStore ----------------------------
(***************************************************************************)
(* The memory repository: every method runs to its end before the next.    *)
(* It is what the transactions of PostgresStore have to add up to.         *)
(***************************************************************************)
EXTENDS StoreOps

VARIABLES
    users,          \* rating, wins and losses of each user
    results,        \* finished matches by result key
    entries,        \* who joined the tournament, by seed
    cup,            \* the tournament's status and winner
    bracket         \* its matches by slot

vars == <<users, results, entries, cup, bracket>>

Init ==
    /\ users = NewUsers
    /\ results = <<>>
    /\ entries = Early
    /\ cup = OpenCup
    /\ bracket = <<>>

\* A key seen before is answered with the match it has.
FinalizeMatch(c) ==
    /\ c.key \notin DOMAIN results
    /\ c.slot # NoSlot => /\ c.slot \in DOMAIN bracket
                          /\ bracket[c.slot].result = NoKey
                          /\ {c.winner, c.loser} \subseteq Participants(bracket[c.slot])
    /\ results' = Put(results, c.key, [winner |-> c.winner, loser |-> c.loser])
    /\ users' = Rated(users, c, [u \in Users |-> users[u].rating])
    /\ bracket' = IF c.slot = NoSlot THEN bracket ELSE Advanced(bracket, c)
    /\ cup' = Crowned(cup, c)
    /\ UNCHANGED entries

JoinTournament(u) ==
    LET joined == u \in Range(entries)
        now == IF joined THEN entries ELSE Append(entries, u)
        full == Len(now) >= Capacity
    IN  /\ joined \/ Len(entries) < Capacity
        /\ entries' = now
        /\ cup' = [cup EXCEPT !.status = IF full THEN "running" ELSE "open"]
        /\ bracket' = IF full /\ Semifinals \cap DOMAIN bracket = {}
                      THEN SemifinalRows(bracket, now)
                      ELSE bracket
        /\ UNCHANGED <<users, results>>

StartTournamentMatch(s) ==
    /\ s \in DOMAIN bracket
    /\ bracket' = [bracket EXCEPT ![s].status = "running"]
    /\ UNCHANGED <<users, results, entries, cup>>

Next ==
    \/ \E c \in Commands : FinalizeMatch(c)
    \/ \E u \in Users : JoinTournament(u)
    \/ \E s \in Slots : StartTournamentMatch(s)

Spec == Init /\ [][Next]_vars
=============================================================================
