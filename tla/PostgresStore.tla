--------------------------- MODULE PostgresStore ---------------------------
(***************************************************************************)
(* The transactions of the Postgres repository on users, matches and one   *)
(* tournament, at READ COMMITTED, statement by statement: what another     *)
(* session sees is what was committed, and a statement waits for the row   *)
(* locks and the unique keys of the others.  `users' to `history' are the  *)
(* committed tables; the writes of a transaction are in its record until   *)
(* it commits, which is sound because each row it writes is locked.        *)
(***************************************************************************)
EXTENDS StoreOps, FiniteSetsExt

CONSTANT Sessions               \* the connections of the pool

\* Rows of tournament_matches, its tables, and what a transaction keeps.
Rows == [left : Users, right : Users, status : {"ready", "running", "finished"},
         result : Keys \cup {NoKey}, winner : Users \cup {NoUser}]
IsTable(f, S, T) == DOMAIN f \subseteq S /\ f \in [DOMAIN f -> T]

FinalizeStages == {"insert", "refWinner", "refLoser", "lockFirst", "lockSecond",
                   "lockMatch", "lockCup", "link", "commit"}

\* A finalizeMatch that has written the rows w, a joinTournament, or neither.
Finalizing(w) == [kind : {"finalize"}, stage : FinalizeStages, cmd : Commands,
                  rating : [Users -> Int], row : Rows \cup {NoSlot}, written : {w}]
Joining == [kind : {"join"}, stage : {"join", "enter", "refSeed1", "refSeed2", "refSeed3", "commit"},
            user : Users, seed : Nat]
NoTxn == [kind |-> "none"]

VARIABLES
    users, results, entries, cup, bracket,      \* as in MemoryStore
    history,        \* rating_history: one row for each user of each result
    locks,          \* the row locks and pending unique keys of each session
    txn             \* the transaction each session is in, or NoTxn

tables == <<users, results, entries, cup, bracket, history>>
vars == <<users, results, entries, cup, bracket, history, locks, txn>>

\* Row locks.  A foreign key takes "share" (FOR KEY SHARE) on the row it names,
\* `for update' takes "update"; a pending insert holds its unique key.
Lock(row, mode) == [row |-> row, mode |-> mode]
Conflict(a, b) == a.row = b.row /\ "update" \in {a.mode, b.mode}

UserRow(u) == <<"user", u>>
SlotRow(s) == <<"slot", s>>
KeyRow(k) == <<"key", k>>
CupRow == <<"tournament", "the one">>

First(c) == IF c.winner < c.loser THEN c.winner ELSE c.loser
Second(c) == IF c.winner < c.loser THEN c.loser ELSE c.winner

Idle(s) == txn[s] = NoTxn
At(s, stage) == txn[s] # NoTxn /\ txn[s].stage = stage
Finalizes(s) == txn[s] # NoTxn /\ txn[s].kind = "finalize"

\* The rows the final refers to, once this result is linked.
FinalRefs(s) ==
    LET rows == Advanced(bracket, txn[s].cmd)
    IN  IF "final" \in DOMAIN rows \ DOMAIN bracket
        THEN Participants(rows["final"]) ELSE {}

\* The next entry takes the last place.
LastPlace == Cardinality(DOMAIN entries) + 1 >= Capacity

\* What the next statement of each stage has to lock.
Wanted(s) ==
    LET t == txn[s]
    IN  CASE t.stage = "insert" -> {Lock(KeyRow(t.cmd.key), "update")}
          [] t.stage = "refWinner" -> {Lock(UserRow(t.cmd.winner), "share")}
          [] t.stage = "refLoser" -> {Lock(UserRow(t.cmd.loser), "share")}
          [] t.stage = "lockFirst" -> {Lock(UserRow(First(t.cmd)), "update")}
          [] t.stage = "lockSecond" -> {Lock(UserRow(Second(t.cmd)), "update")}
          [] t.stage = "lockMatch" -> {Lock(SlotRow(t.cmd.slot), "update")}
          [] t.stage \in {"lockCup", "join"} -> {Lock(CupRow, "update")}
          [] t.stage = "link" -> {Lock(UserRow(u), "share") : u \in FinalRefs(s)}
          [] t.stage = "enter" -> {Lock(UserRow(t.user), "share")}
          [] t.stage = "refSeed1" -> {Lock(UserRow(entries[1]), "share")}
          [] t.stage = "refSeed2" -> {Lock(UserRow(entries[2]), "share")}
          [] t.stage = "refSeed3" -> {Lock(UserRow(entries[3]), "share")}
          [] t.stage = "commit" -> {}

\* The sessions whose locks the next statement of s waits for.
Blockers(s) ==
    IF Idle(s) THEN {}
    ELSE {o \in Sessions \ {s} : \E w \in Wanted(s), h \in locks[o] : Conflict(w, h)}

Granted(s) == Blockers(s) = {} /\ locks' = [locks EXCEPT ![s] = @ \cup Wanted(s)]
Goto(s, stage) == txn' = [txn EXCEPT ![s].stage = stage]

\* Commit and rollback both let every lock go.
Ended(s) ==
    /\ txn' = [txn EXCEPT ![s] = NoTxn]
    /\ locks' = [locks EXCEPT ![s] = {}]

Init ==
    /\ users = NewUsers
    /\ results = <<>>
    /\ entries = Early
    /\ cup = OpenCup
    /\ bracket = <<>>
    /\ history = {}
    /\ locks = [s \in Sessions |-> {}]
    /\ txn = [s \in Sessions |-> NoTxn]

-----------------------------------------------------------------------------
(* finalizeMatch *)

BeginFinalize(s, c) ==
    /\ Idle(s)
    /\ txn' = [txn EXCEPT ![s] = [kind |-> "finalize", stage |-> "insert", cmd |-> c,
                                  rating |-> [u \in Users |-> 0],
                                  row |-> NoSlot, written |-> <<>>]]
    /\ UNCHANGED <<tables, locks>>

\* on conflict do nothing: the result that is there is the answer.
AnswerExisting(s) ==
    /\ At(s, "insert")
    /\ Blockers(s) = {}
    /\ txn[s].cmd.key \in DOMAIN results
    /\ Ended(s)
    /\ UNCHANGED tables

InsertResult(s) ==
    /\ At(s, "insert")
    /\ txn[s].cmd.key \notin DOMAIN results
    /\ Granted(s)
    /\ Goto(s, "refWinner")
    /\ UNCHANGED tables

\* The foreign keys of the new row are checked when the insert ends.
CheckWinner(s) ==
    /\ At(s, "refWinner")
    /\ Granted(s)
    /\ Goto(s, "refLoser")
    /\ UNCHANGED tables

CheckLoser(s) ==
    /\ At(s, "refLoser")
    /\ Granted(s)
    /\ Goto(s, "lockFirst")
    /\ UNCHANGED tables

\* Mutant: the rating is read without `for update'.
LockUserNot(s, stage, u, next) ==
    /\ At(s, stage)
    /\ txn' = [txn EXCEPT ![s].stage = next, ![s].rating[u] = users[u].rating]
    /\ UNCHANGED <<tables, locks>>

LockUser(s, stage, u, next) ==
    /\ At(s, stage)
    /\ Granted(s)
    /\ txn' = [txn EXCEPT ![s].stage = next, ![s].rating[u] = users[u].rating]
    /\ UNCHANGED tables

LockFirst(s) == Finalizes(s) /\ LockUser(s, "lockFirst", First(txn[s].cmd), "lockSecond")

LockSecond(s) ==
    /\ Finalizes(s)
    /\ LockUser(s, "lockSecond", Second(txn[s].cmd),
                IF txn[s].cmd.slot = NoSlot THEN "commit" ELSE "lockMatch")

LockMatch(s) ==
    /\ At(s, "lockMatch")
    /\ txn[s].cmd.slot \in DOMAIN bracket
    /\ Granted(s)
    /\ txn' = [txn EXCEPT ![s].stage = "lockCup", ![s].row = bracket[txn[s].cmd.slot]]
    /\ UNCHANGED tables

\* Mutant: the tournament is read without `for update'.
LockCupNot(s) ==
    /\ At(s, "lockCup")
    /\ Goto(s, "link")
    /\ UNCHANGED <<tables, locks>>

LockCup(s) ==
    /\ At(s, "lockCup")
    /\ Granted(s)
    /\ Goto(s, "link")
    /\ UNCHANGED tables

\* Mutant: nobody looks whether the match has a result.
LinkableAgain(s) ==
    {txn[s].cmd.winner, txn[s].cmd.loser} \subseteq Participants(txn[s].row)

\* The row may be linked if no result has it and both sides are its players.
Linkable(s) ==
    LET t == txn[s]
    IN  /\ t.row.result = NoKey
        /\ {t.cmd.winner, t.cmd.loser} \subseteq Participants(t.row)

Link(s) ==
    /\ At(s, "link")
    /\ Linkable(s)
    /\ Granted(s)
    /\ LET rows == Advanced(bracket, txn[s].cmd)
           changed == {m \in DOMAIN rows : m = txn[s].cmd.slot \/ m \notin DOMAIN bracket}
       IN  txn' = [txn EXCEPT ![s].stage = "commit", ![s].written = Restrict(rows, changed)]
    /\ UNCHANGED tables

Overlay(f, g) == [x \in DOMAIN f \cup DOMAIN g |-> IF x \in DOMAIN g THEN g[x] ELSE f[x]]

HistoryRows(s) ==
    LET t == txn[s]
        Entry(u, after) == [key |-> t.cmd.key, user |-> u,
                            before |-> t.rating[u], after |-> after]
    IN  {Entry(t.cmd.winner, RatingWon(t.rating[t.cmd.winner])),
         Entry(t.cmd.loser, RatingLost(t.rating[t.cmd.loser]))}

CommitResult(s) ==
    /\ Finalizes(s)
    /\ At(s, "commit")
    /\ LET c == txn[s].cmd
       IN  /\ results' = Put(results, c.key, [winner |-> c.winner, loser |-> c.loser])
           /\ users' = Rated(users, c, txn[s].rating)
           /\ bracket' = Overlay(bracket, txn[s].written)
           /\ cup' = Crowned(cup, c)
    /\ history' = history \cup HistoryRows(s)
    /\ Ended(s)
    /\ UNCHANGED entries

-----------------------------------------------------------------------------
(* joinTournament and startTournamentMatch *)

BeginJoin(s, u) ==
    /\ Idle(s)
    /\ txn' = [txn EXCEPT ![s] = [kind |-> "join", stage |-> "join", user |-> u, seed |-> 0]]
    /\ UNCHANGED <<tables, locks>>

\* Who joined before is answered, and a full tournament refuses.
RefuseJoin(s) ==
    /\ At(s, "join")
    /\ Blockers(s) = {}
    /\ \/ txn[s].user \in Range(entries)
       \/ Cardinality(DOMAIN entries) >= Capacity
    /\ Ended(s)
    /\ UNCHANGED tables

TakeSeed(s) ==
    /\ At(s, "join")
    /\ txn[s].user \notin Range(entries)
    /\ Cardinality(DOMAIN entries) < Capacity
    /\ Granted(s)
    /\ txn' = [txn EXCEPT ![s].stage = "enter",
                          ![s].seed = 1 + Max(DOMAIN entries \cup {0})]
    /\ UNCHANGED tables

Enter(s) ==
    /\ At(s, "enter")
    /\ txn[s].seed \notin DOMAIN entries
    /\ Granted(s)
    /\ Goto(s, IF LastPlace THEN "refSeed1" ELSE "commit")
    /\ UNCHANGED tables

\* The foreign keys of the two semifinals, row by row, after the last place.
CheckSeeds(s) ==
    /\ \/ At(s, "refSeed1") /\ Goto(s, "refSeed2")
       \/ At(s, "refSeed2") /\ Goto(s, "refSeed3")
       \/ At(s, "refSeed3") /\ Goto(s, "commit")
    /\ Granted(s)
    /\ UNCHANGED tables

CommitEntry(s) ==
    /\ At(s, "commit")
    /\ txn[s].kind = "join"
    /\ entries' = Put(entries, txn[s].seed, txn[s].user)
    /\ IF LastPlace
       THEN /\ cup' = [cup EXCEPT !.status = "running"]
            /\ bracket' = SemifinalRows(bracket, entries')
       ELSE UNCHANGED <<cup, bracket>>
    /\ Ended(s)
    /\ UNCHANGED <<users, results, history>>

\* Mutant: the update has no condition on the status.
StartAnyMatch(m) ==
    /\ m \in DOMAIN bracket
    /\ \A s \in Sessions : Lock(SlotRow(m), "update") \notin locks[s]
    /\ bracket' = [bracket EXCEPT ![m].status = "running"]
    /\ UNCHANGED <<users, results, entries, cup, history, locks, txn>>

\* One statement, which waits for a result that holds the row and then reads
\* the status it left.
StartTournamentMatch(m) ==
    /\ m \in DOMAIN bracket
    /\ \A s \in Sessions : Lock(SlotRow(m), "update") \notin locks[s]
    /\ bracket[m].status \in {"ready", "running"}
    /\ bracket' = [bracket EXCEPT ![m].status = "running"]
    /\ UNCHANGED <<users, results, entries, cup, history, locks, txn>>

-----------------------------------------------------------------------------
\* A statement fails, the connection is lost or the process dies: whatever the
\* transaction did is gone, and whoever asked may ask again.
Rollback(s) ==
    /\ ~Idle(s)
    /\ Ended(s)
    /\ UNCHANGED tables

\* Mutant: the refusal is answered and the transaction stays open.
RefuseLinkOpen(s) ==
    /\ At(s, "link") /\ ~Linkable(s)
    /\ UNCHANGED vars

\* A row that may not be linked makes the repository throw.
RefuseLink(s) ==
    /\ \/ At(s, "link") /\ ~Linkable(s)
       \/ At(s, "lockMatch") /\ txn[s].cmd.slot \notin DOMAIN bracket
    /\ Ended(s)
    /\ UNCHANGED tables

\* Sessions that wait for each other in a circle.
Deadlocked(S) == S # {} /\ \A s \in S : Blockers(s) \cap S # {}

\* The database finds the circle and gives up one of its transactions.
BreakDeadlock(s) ==
    /\ \E S \in SUBSET Sessions : s \in S /\ Deadlocked(S)
    /\ Ended(s)
    /\ UNCHANGED tables

Step(s) ==
    \/ AnswerExisting(s) \/ InsertResult(s) \/ CheckWinner(s) \/ CheckLoser(s)
    \/ LockFirst(s) \/ LockSecond(s) \/ LockMatch(s) \/ LockCup(s) \/ Link(s)
    \/ RefuseLink(s) \/ CommitResult(s)
    \/ RefuseJoin(s) \/ TakeSeed(s) \/ Enter(s) \/ CheckSeeds(s)
    \/ CommitEntry(s)

Next ==
    \/ \E s \in Sessions : \/ Step(s) \/ Rollback(s) \/ BreakDeadlock(s)
                           \/ \E c \in Commands : BeginFinalize(s, c)
                           \/ \E u \in Users : BeginJoin(s, u)
    \/ \E m \in Slots : StartTournamentMatch(m)

Spec == Init /\ [][Next]_vars

\* Waiting statements are served in turn, and circles are found.
FairSpec ==
    /\ Spec
    /\ \A s \in Sessions : SF_vars(Step(s))
    /\ WF_vars(\E s \in Sessions : BreakDeadlock(s))

-----------------------------------------------------------------------------
TypeOK ==
    /\ users \in [Users -> [rating : Ratings, wins : Nat, losses : Nat]]
    /\ IsTable(results, Keys, [winner : Users, loser : Users])
    /\ entries \in Seq(Users)
    /\ cup \in [status : {"open", "running", "finished"}, winner : Users \cup {NoUser}]
    /\ IsTable(bracket, Slots, Rows)
    /\ history \subseteq [key : Keys, user : Users, before : Int, after : Int]
    /\ DOMAIN locks = Sessions
    /\ DOMAIN txn = Sessions
    /\ \A s \in Sessions :
         \/ Idle(s)
         \/ txn[s] \in Joining
         \/ Finalizes(s) /\ txn[s] \in Finalizing(txn[s].written)
                         /\ IsTable(txn[s].written, Slots, Rows)

\* The points between the two ratings of each row of H, from the field `from'
\* up to the field `to', one by one.
Points(H, from, to) == UNION {{<<h, p>> : p \in (h[from] + 1)..h[to]} : h \in H}
HistoryOf(u) == {h \in history : h.user = u}

\* However results of the same players overlap, wait, fail and are repeated,
\* each result counts once: the rating of a user is what the history adds up
\* to, the points won less those lost, and wins and losses are the results it
\* is in (finalizeMatch).
LedgerBalanced ==
    /\ \A u \in Users :
         /\ users[u].rating = StartRating[u] + Cardinality(Points(HistoryOf(u), "before", "after"))
                                             - Cardinality(Points(HistoryOf(u), "after", "before"))
         /\ users[u].wins = Cardinality({k \in DOMAIN results : results[k].winner = u})
         /\ users[u].losses = Cardinality({k \in DOMAIN results : results[k].loser = u})
    /\ \A k \in DOMAIN results :
         {h.user : h \in {x \in history : x.key = k}} = {results[k].winner, results[k].loser}

\* The bracket follows from the entries and the results: the semifinals are
\* there when the last place is taken, the final when both are decided, even
\* if they end at the same time, and it decides the tournament.  A match has
\* the result of one room (joinTournament, finalizeMatch).
BracketFollows ==
    /\ \A i, j \in DOMAIN entries : entries[i] = entries[j] => i = j
    /\ Semifinals \subseteq DOMAIN bracket <=> Len(entries) = Capacity
    /\ cup.status = "open" <=> Len(entries) < Capacity
    /\ "final" \in DOMAIN bracket <=> BothDecided(bracket)
    /\ "final" \in DOMAIN bracket =>
         /\ Participants(bracket["final"]) = {bracket[m].winner : m \in Semifinals}
         /\ cup.winner = bracket["final"].winner
    /\ cup.status = "finished" <=> cup.winner # NoUser
    /\ \A m \in DOMAIN bracket :
         LET row == bracket[m]
         IN  /\ row.status = "finished" <=> row.result # NoKey
             /\ row.result # NoKey =>
                  /\ row.result \in DOMAIN results
                  /\ results[row.result].winner = row.winner
                  /\ Participants(row) = {results[row.result].winner, results[row.result].loser}
             /\ \A n \in DOMAIN bracket :
                  n # m => bracket[n].result # row.result \/ row.result = NoKey

\* What was decided stands: a result, the match it is linked to and a seed do
\* not change, and the tournament goes forward (a late startTournamentMatch, a
\* second room of the same match, a repeated finalizeMatch).
DecisionsStand ==
    [][/\ \A k \in DOMAIN results : k \in DOMAIN results' /\ results'[k] = results[k]
       /\ \A m \in DOMAIN bracket :
            bracket[m].result # NoKey => m \in DOMAIN bracket' /\ bracket'[m] = bracket[m]
       /\ \A i \in DOMAIN entries : i \in DOMAIN entries' /\ entries'[i] = entries[i]
       /\ cup.status = "finished" => cup' = cup
       /\ cup.status = "running" => cup'.status # "open"]_vars

\* Every step of the transactions is a step of the memory repository or none:
\* at its commit a result or an entry happens as if it were alone.
Memory == INSTANCE MemoryStore
              WITH users <- users, results <- results, entries <- entries,
                   cup <- cup, bracket <- bracket
ImplementsMemory == Memory!Spec

\* Every transaction ends, by itself or as the victim of a circle of waits.
TransactionsEnd == \A s \in Sessions : ~Idle(s) ~> Idle(s)

=============================================================================
