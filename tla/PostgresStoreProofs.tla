------------------------ MODULE PostgresStoreProofs ------------------------
(***************************************************************************)
(* PostgresStore for every set of users, commands and sessions: its types, *)
(* that the transactions implement the memory repository, and the bracket. *)
(***************************************************************************)
EXTENDS PostgresStore, FiniteSetTheorems, TLAPS

\* No two sessions hold locks that conflict.
Exclusive ==
    \A s, o \in Sessions :
        s # o => \A a \in locks[s], b \in locks[o] : ~Conflict(a, b)

Holds(s, row) == Lock(row, "update") \in locks[s]

\* The rows a result of a match of the tournament writes at its commit.
Pending(rows, c) ==
    Restrict(Advanced(rows, c),
             {m \in DOMAIN Advanced(rows, c) : m = c.slot \/ m \notin DOMAIN rows})

Typed(t) ==
    \/ t = NoTxn
    \/ t \in Joining
    \/ t.kind = "finalize" /\ t \in Finalizing(t.written) /\ IsTable(t.written, Slots, Rows)

\* What a finalizeMatch at each stage knows and holds: the part every result
\* has, and the part of a result of a tournament match.
RatingRead(s, u) == Holds(s, UserRow(u)) /\ txn[s].rating[u] = users[u].rating

KnowsPlayers(s) ==
    LET t == txn[s]
    IN  /\ t.stage # "insert" => Holds(s, KeyRow(t.cmd.key)) /\ t.cmd.key \notin DOMAIN results
        /\ t.stage \in {"lockSecond", "lockMatch", "lockCup", "link", "commit"}
              => RatingRead(s, First(t.cmd))
        /\ t.stage \in {"lockMatch", "lockCup", "link", "commit"}
              => RatingRead(s, Second(t.cmd))
        /\ t.cmd.slot = NoSlot
              => t.written = <<>> /\ t.stage \notin {"lockMatch", "lockCup", "link"}

KnowsMatch(s) ==
    LET t == txn[s]
    IN  t.cmd.slot # NoSlot =>
        /\ t.stage \in {"lockCup", "link", "commit"}
              => /\ t.cmd.slot \in DOMAIN bracket
                 /\ t.row = bracket[t.cmd.slot]
                 /\ Holds(s, SlotRow(t.cmd.slot))
        /\ t.stage \in {"link", "commit"} => Holds(s, CupRow)
        /\ t.stage = "commit" => Linkable(s) /\ t.written = Pending(bracket, t.cmd)

\* The stages at which a joinTournament checks the players of the semifinals.
SeedStages == {"refSeed1", "refSeed2", "refSeed3"}

\* What a joinTournament knows when it has locked the tournament.
KnowsEntry(s) ==
    LET t == txn[s]
    IN  t.stage \in {"enter", "commit"} \cup SeedStages =>
        /\ Holds(s, CupRow)
        /\ t.user \notin Range(entries)
        /\ Len(entries) < Capacity
        /\ t.seed = Len(entries) + 1

Knows(s) ==
    /\ txn[s].kind = "finalize" => KnowsPlayers(s) /\ KnowsMatch(s)
    /\ txn[s].kind = "join" => KnowsEntry(s)

\* There are rows of matches when the last place is taken, not before, a winner
\* of the tournament when there is a final, and one of a match with its result.
Room ==
    /\ Len(entries) <= Capacity
    /\ Len(entries) < Capacity => DOMAIN bracket = {} /\ cup.status = "open"
    /\ "final" \notin DOMAIN bracket => cup.winner = NoUser
    /\ \A m \in DOMAIN bracket : bracket[m].result = NoKey => bracket[m].winner = NoUser

Inv == TypeOK /\ Exclusive /\ Room /\ BracketFollows /\ \A s \in Sessions : Knows(s)

-----------------------------------------------------------------------------
(* Operators *)

LEMMA SlotNames ==
    /\ Slots = {"semifinal1", "semifinal2", "final"}
    /\ Semifinals = {"semifinal1", "semifinal2"}
    /\ NoSlot \notin Slots /\ NoUser \notin Users /\ NoKey \notin Keys
  BY NoAssumption DEF Slots, Semifinals

LEMMA CommandFields ==
    ASSUME NEW c \in Commands
    PROVE  /\ c.key \in Keys /\ c.winner \in Users /\ c.loser \in Users
           /\ c.slot \in Slots \cup {NoSlot} /\ c.winner # c.loser
           /\ {First(c), Second(c)} = {c.winner, c.loser}
  BY CommandsAssumption DEF First, Second

LEMMA Decides ==
    ASSUME NEW row \in Rows, NEW c \in Commands
    PROVE  /\ Decided(row, c) \in Rows
           /\ Decided(row, c).left = row.left /\ Decided(row, c).right = row.right
           /\ Decided(row, c).status = "finished"
           /\ Decided(row, c).result = c.key
           /\ Decided(row, c).winner = c.winner
           /\ Participants(Decided(row, c)) = Participants(row)
  BY CommandFields DEF Decided, Rows, Participants

LEMMA Pairs ==
    ASSUME NEW l \in Users, NEW r \in Users
    PROVE  /\ Pairing(l, r) \in Rows
           /\ Pairing(l, r).status = "ready" /\ Pairing(l, r).result = NoKey
           /\ Pairing(l, r).winner = NoUser
           /\ Participants(Pairing(l, r)) = {l, r}
  BY DEF Pairing, Rows, Participants

\* The bracket after a result of the match c.slot: the row is decided, the
\* final appears when both semifinals are, and nothing else changes.
MakesFinal(rows, c) ==
    /\ c.slot \in Semifinals
    /\ \A m \in Semifinals : m \in DOMAIN rows /\ (m # c.slot => rows[m].status = "finished")
    /\ "final" \notin DOMAIN rows

Winner(rows, c, m) == IF m = c.slot THEN c.winner ELSE rows[m].winner

LEMMA AdvancedRows ==
    ASSUME NEW rows, DOMAIN rows \subseteq Slots, \A m \in DOMAIN rows : rows[m] \in Rows,
           NEW c \in Commands, c.slot \in DOMAIN rows
    PROVE  /\ Advanced(rows, c) =
                [m \in DOMAIN rows \cup (IF MakesFinal(rows, c) THEN {"final"} ELSE {}) |->
                   IF m = c.slot THEN Decided(rows[c.slot], c)
                   ELSE IF m \in DOMAIN rows THEN rows[m]
                   ELSE Pairing(Winner(rows, c, "semifinal1"), Winner(rows, c, "semifinal2"))]
  <1> DEFINE linked == [rows EXCEPT ![c.slot] = Decided(@, c)]
  <1>1. /\ DOMAIN linked = DOMAIN rows
        /\ linked[c.slot] = Decided(rows[c.slot], c)
        /\ \A m \in DOMAIN rows : m # c.slot => linked[m] = rows[m]
    OBVIOUS
  <1>2. linked[c.slot].status = "finished" /\ linked[c.slot].winner = c.winner
    BY <1>1, Decides
  <1>3. c.slot \in Semifinals /\ BothDecided(linked) /\ "final" \notin DOMAIN rows
           <=> MakesFinal(rows, c)
    BY <1>1, <1>2 DEF BothDecided, MakesFinal
  <1>4. CASE ~MakesFinal(rows, c)
    <2>1. Advanced(rows, c) = linked
      BY <1>1, <1>3, <1>4 DEF Advanced, Ensure
    <2> QED BY <1>4, <2>1
  <1>5. CASE MakesFinal(rows, c)
    <2>1. /\ "semifinal1" \in DOMAIN rows /\ "semifinal2" \in DOMAIN rows
      BY <1>5, SlotNames DEF MakesFinal
    <2>2. /\ linked["semifinal1"].winner = Winner(rows, c, "semifinal1")
          /\ linked["semifinal2"].winner = Winner(rows, c, "semifinal2")
      BY <1>1, <1>2, <2>1 DEF Winner
    <2> DEFINE final == Pairing(Winner(rows, c, "semifinal1"), Winner(rows, c, "semifinal2"))
    <2>3. Advanced(rows, c) = Put(linked, "final", final)
      BY <1>1, <1>3, <1>5, <2>2 DEF Advanced, Ensure, MakesFinal
    <2> HIDE DEF final
    <2>4. c.slot # "final" /\ "final" \notin DOMAIN rows
      BY <1>5 DEF MakesFinal, Semifinals
    <2>5. Put(linked, "final", final) =
            [m \in DOMAIN rows \cup {"final"} |->
                   IF m = c.slot THEN Decided(rows[c.slot], c)
                   ELSE IF m \in DOMAIN rows THEN rows[m] ELSE final]
      BY <1>1, <2>4 DEF Put
    <2> QED BY <1>5, <2>3, <2>5 DEF final
  <1> QED BY <1>4, <1>5

LEMMA AdvancedAt ==
    ASSUME NEW rows, IsTable(rows, Slots, Rows), NEW c \in Commands, c.slot \in DOMAIN rows
    PROVE  /\ \A m : m \in DOMAIN Advanced(rows, c)
                     <=> m \in DOMAIN rows \/ (MakesFinal(rows, c) /\ m = "final")
           /\ Advanced(rows, c) = [m \in DOMAIN Advanced(rows, c) |-> Advanced(rows, c)[m]]
           /\ Advanced(rows, c)[c.slot] = Decided(rows[c.slot], c)
           /\ \A m \in DOMAIN rows : m # c.slot => Advanced(rows, c)[m] = rows[m]
           /\ MakesFinal(rows, c) =>
                Advanced(rows, c)["final"] = Pairing(Winner(rows, c, "semifinal1"),
                                                     Winner(rows, c, "semifinal2"))
  <1>1. DOMAIN rows \subseteq Slots /\ \A m \in DOMAIN rows : rows[m] \in Rows
    BY DEF IsTable
  <1> DEFINE A == Advanced(rows, c)
             D == DOMAIN rows \cup (IF MakesFinal(rows, c) THEN {"final"} ELSE {})
             final == Pairing(Winner(rows, c, "semifinal1"), Winner(rows, c, "semifinal2"))
             F(m) == IF m = c.slot THEN Decided(rows[c.slot], c)
                     ELSE IF m \in DOMAIN rows THEN rows[m] ELSE final
  <1>2. A = [m \in D |-> F(m)]
    BY <1>1, AdvancedRows
  <1>3. MakesFinal(rows, c) => c.slot # "final" /\ "final" \notin DOMAIN rows
    BY DEF MakesFinal, Semifinals
  <1>4. c.slot \in D /\ DOMAIN rows \subseteq D /\ (MakesFinal(rows, c) => "final" \in D)
    OBVIOUS
  <1>5. /\ F(c.slot) = Decided(rows[c.slot], c)
        /\ \A m \in DOMAIN rows : m # c.slot => F(m) = rows[m]
        /\ MakesFinal(rows, c) => F("final") = final
    BY <1>3
  <1> HIDE DEF A, D, F, final
  <1>6. DOMAIN A = D /\ \A m \in D : A[m] = F(m)
    BY <1>2
  <1>7. A = [m \in DOMAIN A |-> A[m]]
    BY <1>2
  <1>8. /\ A[c.slot] = Decided(rows[c.slot], c)
        /\ \A m \in DOMAIN rows : m # c.slot => A[m] = rows[m]
        /\ MakesFinal(rows, c) => A["final"] = final
    BY <1>4, <1>5, <1>6
  <1>9. \A m : m \in D <=> m \in DOMAIN rows \/ (MakesFinal(rows, c) /\ m = "final")
    BY DEF D
  <1> QED BY <1>6, <1>7, <1>8, <1>9 DEF A, final

LEMMA AdvancedTyped ==
    ASSUME NEW rows, IsTable(rows, Slots, Rows), NEW c \in Commands, c.slot \in DOMAIN rows,
           MakesFinal(rows, c) => \A m \in Semifinals : m # c.slot => rows[m].winner \in Users
    PROVE  IsTable(Advanced(rows, c), Slots, Rows)
  <1> DEFINE A == Advanced(rows, c)
  <1>1. DOMAIN rows \subseteq Slots /\ \A m \in DOMAIN rows : rows[m] \in Rows
    BY DEF IsTable
  <1>2. Decided(rows[c.slot], c) \in Rows
    BY <1>1, Decides
  <1>3. MakesFinal(rows, c) =>
          Pairing(Winner(rows, c, "semifinal1"), Winner(rows, c, "semifinal2")) \in Rows
    BY Pairs, CommandFields, SlotNames DEF Winner
  <1>4. DOMAIN A \subseteq Slots
    BY <1>1, AdvancedAt, SlotNames
  <1>5. \A m \in DOMAIN A : A[m] \in Rows
    BY <1>1, <1>2, <1>3, AdvancedAt
  <1>6. A = [m \in DOMAIN A |-> A[m]]
    BY AdvancedAt
  <1> HIDE DEF A
  <1>7. A \in [DOMAIN A -> Rows]
    BY <1>5, <1>6
  <1> QED BY <1>4, <1>7 DEF IsTable, A

LEMMA OverlayPending ==
    ASSUME NEW rows, IsTable(rows, Slots, Rows), NEW c \in Commands, c.slot \in DOMAIN rows
    PROVE  Overlay(rows, Pending(rows, c)) = Advanced(rows, c)
  <1> DEFINE A == Advanced(rows, c)
             P == Pending(rows, c)
  <1>1. DOMAIN rows \subseteq DOMAIN A
    BY AdvancedAt
  <1>2. \A m \in DOMAIN rows : m # c.slot => A[m] = rows[m]
    BY AdvancedAt
  <1>3. A = [m \in DOMAIN A |-> A[m]]
    BY AdvancedAt
  <1>4. P = [m \in {n \in DOMAIN A : n = c.slot \/ n \notin DOMAIN rows} |-> A[m]]
    BY DEF Pending, Restrict
  <1> HIDE DEF A, P
  <1>5. DOMAIN rows \cup DOMAIN P = DOMAIN A
    BY <1>1, <1>4
  <1>6. \A m \in DOMAIN A : (IF m \in DOMAIN P THEN P[m] ELSE rows[m]) = A[m]
    BY <1>1, <1>2, <1>4
  <1>7. Overlay(rows, P) = A
    BY <1>3, <1>5, <1>6 DEF Overlay
  <1> QED BY <1>7 DEF A, P

-----------------------------------------------------------------------------
(* The steps of a session before its commit *)

\* s goes on, alone, and takes no lock, what it wants or nothing any more.
Moves(s) ==
    /\ UNCHANGED tables
    /\ txn' = [txn EXCEPT ![s] = txn'[s]]
    /\ \/ locks' = locks
       \/ locks' = [locks EXCEPT ![s] = {}]
       \/ ~Idle(s) /\ Granted(s)

LEMMA MovesExclusive ==
    ASSUME TypeOK, Exclusive, NEW s \in Sessions, Moves(s)
    PROVE  Exclusive'
  <1>1. CASE locks' = locks
    BY <1>1 DEF Exclusive
  <1>2. CASE locks' = [locks EXCEPT ![s] = {}]
    BY <1>2 DEF Exclusive, TypeOK
  <1>3. CASE ~Idle(s) /\ Granted(s)
    <2>1. locks' = [locks EXCEPT ![s] = @ \cup Wanted(s)] /\ DOMAIN locks = Sessions
      BY <1>3 DEF Granted, TypeOK
    <2>2. \A o \in Sessions : o # s => \A w \in Wanted(s), h \in locks[o] : ~Conflict(w, h)
      BY <1>3 DEF Granted, Blockers
    <2>3. \A a, b : Conflict(a, b) <=> Conflict(b, a)
      BY DEF Conflict
    <2> HIDE DEF Conflict
    <2>4. SUFFICES ASSUME NEW p \in Sessions, NEW q \in Sessions, p # q,
                          NEW a \in locks'[p], NEW b \in locks'[q]
                   PROVE  ~Conflict(a, b)
      BY DEF Exclusive
    <2>5. CASE p = s
      <3>1. a \in locks[s] \/ a \in Wanted(s)
        BY <2>1, <2>4, <2>5
      <3>2. b \in locks[q]
        BY <2>1, <2>4, <2>5
      <3> QED BY <2>2, <2>4, <2>5, <3>1, <3>2 DEF Exclusive
    <2>6. CASE q = s
      <3>1. b \in locks[s] \/ b \in Wanted(s)
        BY <2>1, <2>4, <2>6
      <3>2. a \in locks[p]
        BY <2>1, <2>4, <2>6
      <3> QED BY <2>2, <2>3, <2>4, <2>6, <3>1, <3>2 DEF Exclusive
    <2>7. CASE p # s /\ q # s
      <3>1. a \in locks[p] /\ b \in locks[q]
        BY <2>1, <2>4, <2>7
      <3> QED BY <2>4, <3>1 DEF Exclusive
    <2> QED BY <2>5, <2>6, <2>7
  <1> QED BY <1>1, <1>2, <1>3 DEF Moves

\* What a session knows is not disturbed while the tables stay.
LEMMA MovesInv ==
    ASSUME Inv, NEW s \in Sessions, Moves(s), Typed(txn'[s]), Knows(s)'
    PROVE  Inv'
  <1>1. Exclusive'
    BY MovesExclusive DEF Inv
  <1>2. /\ DOMAIN txn = Sessions /\ DOMAIN txn' = Sessions /\ DOMAIN locks' = Sessions
        /\ \A o \in Sessions \ {s} : txn'[o] = txn[o] /\ locks'[o] = locks[o]
    BY DEF Inv, TypeOK, Moves, Granted
  <1>3. UNCHANGED <<users, results, entries, cup, bracket, history>>
    BY DEF Moves, tables
  <1>4. Room' /\ BracketFollows'
    BY <1>3 DEF Inv, Room, BracketFollows, BothDecided
  <1>5. ASSUME NEW o \in Sessions \ {s} PROVE Knows(o)'
    <2>1. Knows(o) /\ txn'[o] = txn[o] /\ locks'[o] = locks[o]
      BY <1>2 DEF Inv
    <2> QED BY <1>3, <2>1 DEF Knows, KnowsPlayers, KnowsMatch, KnowsEntry, RatingRead, Holds,
                              Linkable
  <1>6. \A o \in Sessions : Typed(txn'[o])
    BY <1>2 DEF Inv, TypeOK, Typed, Idle, Finalizes
  <1>7. TypeOK'
    BY <1>2, <1>3, <1>6 DEF Inv, TypeOK, Typed, Idle, Finalizes
  <1> QED BY <1>1, <1>4, <1>5, <1>7 DEF Inv

LEMMA EndsInv ==
    ASSUME Inv, NEW s \in Sessions, Ended(s), UNCHANGED tables
    PROVE  Inv'
  <1>1. txn'[s] = NoTxn /\ Moves(s)
    BY DEF Ended, Moves, Inv, TypeOK
  <1>2. Knows(s)' /\ Typed(txn'[s])
    BY <1>1 DEF Knows, Typed, NoTxn
  <1> QED BY <1>1, <1>2, MovesInv

LEMMA FinalizeFields ==
    ASSUME Inv, NEW s \in Sessions, Finalizes(s)
    PROVE  /\ txn[s] \in Finalizing(txn[s].written)
           /\ IsTable(txn[s].written, Slots, Rows)
           /\ txn[s].kind = "finalize" /\ txn[s].stage \in FinalizeStages
           /\ txn[s].cmd \in Commands /\ txn[s].rating \in [Users -> Int]
           /\ txn[s].row \in Rows \cup {NoSlot}
           /\ ~Idle(s) /\ KnowsPlayers(s) /\ KnowsMatch(s)
  <1>1. txn[s].kind = "finalize" /\ ~Idle(s)
    BY DEF Finalizes, Idle
  <1>2. txn[s] \notin Joining
    BY <1>1 DEF Joining
  <1>3. txn[s] \in Finalizing(txn[s].written) /\ IsTable(txn[s].written, Slots, Rows)
    BY <1>1, <1>2 DEF Inv, TypeOK
  <1>4. Knows(s)
    BY DEF Inv
  <1> DEFINE w == txn[s].written
  <1>5. txn[s] \in Finalizing(w)
    BY <1>3
  <1> HIDE DEF w
  <1>6. /\ txn[s].stage \in FinalizeStages
        /\ txn[s].cmd \in Commands /\ txn[s].rating \in [Users -> Int]
        /\ txn[s].row \in Rows \cup {NoSlot}
    BY <1>5 DEF Finalizing
  <1> QED BY <1>1, <1>3, <1>4, <1>6 DEF Knows

LEMMA JoinFields ==
    ASSUME Inv, NEW s \in Sessions, txn[s] # NoTxn, txn[s].kind = "join"
    PROVE  /\ txn[s] \in Joining
           /\ txn[s].user \in Users
           /\ KnowsEntry(s)
  <1>1. ~Finalizes(s) /\ ~Idle(s)
    BY DEF Finalizes, Idle
  <1>2. txn[s] \in Joining
    BY <1>1 DEF Inv, TypeOK
  <1>3. Knows(s)
    BY DEF Inv
  <1> QED BY <1>2, <1>3 DEF Knows, Joining

\* A transaction at one of these stages finalizes, and at one of those joins.
LEMMA StageKind ==
    ASSUME Inv, NEW s \in Sessions, txn[s] # NoTxn
    PROVE  /\ txn[s].stage \in FinalizeStages \ {"commit"} => Finalizes(s)
           /\ txn[s].stage \in {"join", "enter"} \cup SeedStages => txn[s].kind = "join"
           /\ txn[s].kind \in {"join", "finalize"}
  <1>1. \/ txn[s] \in Joining
        \/ Finalizes(s) /\ txn[s].stage \in FinalizeStages
    BY FinalizeFields DEF Inv, TypeOK, Idle
  <1> QED BY <1>1 DEF Joining, FinalizeStages, Finalizes, SeedStages

LEMMA BeginInv ==
    ASSUME Inv, NEW s \in Sessions,
           \/ \E c \in Commands : BeginFinalize(s, c)
           \/ \E u \in Users : BeginJoin(s, u)
    PROVE  Inv'
  <1>1. ASSUME NEW c \in Commands, BeginFinalize(s, c)
        PROVE  Inv'
    <2> DEFINE t == [kind |-> "finalize", stage |-> "insert", cmd |-> c,
                     rating |-> [u \in Users |-> 0], row |-> NoSlot, written |-> <<>>]
    <2>1. txn' = [txn EXCEPT ![s] = t] /\ locks' = locks /\ UNCHANGED tables
      BY <1>1 DEF BeginFinalize
    <2>2. IsTable(<<>>, Slots, Rows)
      BY DEF IsTable
    <2>3. t \in Finalizing(<<>>) /\ t.written = <<>>
      BY DEF Finalizing, FinalizeStages
    <2>4. t.kind = "finalize" /\ t.stage = "insert"
      OBVIOUS
    <2> HIDE DEF t
    <2>5. txn'[s] = t /\ Moves(s)
      BY <2>1 DEF Moves, Inv, TypeOK
    <2>6. Typed(txn'[s]) /\ Knows(s)'
      BY <2>2, <2>3, <2>4, <2>5 DEF Typed, Knows, KnowsPlayers, KnowsMatch
    <2> QED BY <2>5, <2>6, MovesInv
  <1>2. ASSUME NEW u \in Users, BeginJoin(s, u)
        PROVE  Inv'
    <2> DEFINE t == [kind |-> "join", stage |-> "join", user |-> u, seed |-> 0]
    <2>1. txn' = [txn EXCEPT ![s] = t] /\ locks' = locks /\ UNCHANGED tables
      BY <1>2 DEF BeginJoin
    <2>2. t \in Joining /\ t.kind = "join" /\ t.stage = "join"
      BY DEF Joining
    <2> HIDE DEF t
    <2>3. txn'[s] = t /\ Moves(s)
      BY <2>1 DEF Moves, Inv, TypeOK
    <2>4. Typed(txn'[s]) /\ Knows(s)'
      BY <2>2, <2>3 DEF Typed, Knows, KnowsEntry, SeedStages
    <2> QED BY <2>3, <2>4, MovesInv
  <1> QED BY <1>1, <1>2

\* The stages of a finalizeMatch that only lock, and what each locked.
LEMMA Restaged ==
    ASSUME Inv, NEW s \in Sessions, Finalizes(s), NEW stage \in FinalizeStages,
           txn' = [txn EXCEPT ![s].stage = stage]
    PROVE  /\ txn' = [txn EXCEPT ![s] = txn'[s]]
           /\ Typed(txn'[s]) /\ txn'[s].kind = "finalize" /\ txn'[s].stage = stage
           /\ txn'[s].cmd = txn[s].cmd /\ txn'[s].rating = txn[s].rating
           /\ txn'[s].row = txn[s].row /\ txn'[s].written = txn[s].written
  <1> DEFINE t == [txn[s] EXCEPT !.stage = stage]
             w == txn[s].written
  <1>1. txn'[s] = t /\ txn' = [txn EXCEPT ![s] = t]
    BY DEF Inv, TypeOK
  <1>2. txn[s] \in Finalizing(w) /\ IsTable(w, Slots, Rows)
    BY FinalizeFields
  <1>3. w = txn[s].written
    OBVIOUS
  <1> HIDE DEF w
  <1>4. /\ t \in Finalizing(w) /\ t.kind = "finalize" /\ t.stage = stage
        /\ t.cmd = txn[s].cmd /\ t.rating = txn[s].rating
        /\ t.row = txn[s].row /\ t.written = txn[s].written
    BY <1>2 DEF Finalizing
  <1> HIDE DEF t
  <1> QED BY <1>1, <1>2, <1>3, <1>4 DEF Typed

LEMMA GrantedHolds ==
    ASSUME Inv, NEW s \in Sessions, Granted(s)
    PROVE  locks'[s] = locks[s] \cup Wanted(s)
  BY DEF Inv, TypeOK, Granted

LEMMA LocksInv ==
    ASSUME Inv, NEW s \in Sessions,
           InsertResult(s) \/ CheckWinner(s) \/ CheckLoser(s) \/ LockCup(s)
    PROVE  Inv'
  <1>1. /\ Finalizes(s) /\ UNCHANGED tables /\ Granted(s)
        /\ \E stage \in FinalizeStages : txn' = [txn EXCEPT ![s].stage = stage]
    BY StageKind DEF InsertResult, CheckWinner, CheckLoser, LockCup, At, Goto, FinalizeStages
  <1>2. Moves(s) /\ Typed(txn'[s])
    BY <1>1, Restaged DEF Moves, Finalizes, Idle
  <1>3. /\ locks'[s] = locks[s] \cup Wanted(s)
        /\ UNCHANGED <<users, results, entries, cup, bracket>>
    BY <1>1, GrantedHolds DEF tables
  <1>4. KnowsPlayers(s) /\ KnowsMatch(s)
    BY <1>1, FinalizeFields
  <1>5. CASE InsertResult(s)
    <2>1. txn[s].stage = "insert" /\ txn' = [txn EXCEPT ![s].stage = "refWinner"]
      BY <1>5 DEF InsertResult, At, Goto
    <2>2. /\ txn'[s].kind = "finalize" /\ txn'[s].stage = "refWinner"
          /\ txn'[s].cmd = txn[s].cmd /\ txn'[s].written = txn[s].written
      BY <1>1, <2>1, Restaged DEF FinalizeStages
    <2>3. Lock(KeyRow(txn[s].cmd.key), "update") \in locks'[s]
      BY <1>3, <2>1 DEF Wanted
    <2>4. txn[s].cmd.key \notin DOMAIN results
      BY <1>5 DEF InsertResult
    <2>5. Knows(s)'
      BY <1>3, <1>4, <2>2, <2>3, <2>4 DEF Knows, KnowsPlayers, KnowsMatch, Holds
    <2> QED BY <1>2, <2>5, MovesInv
  <1>6. CASE CheckWinner(s) \/ CheckLoser(s)
    <2>1. PICK stage \in {"refLoser", "lockFirst"} : txn' = [txn EXCEPT ![s].stage = stage]
      BY <1>6 DEF CheckWinner, CheckLoser, Goto
    <2>2. /\ txn'[s].kind = "finalize" /\ txn'[s].stage = stage
          /\ txn'[s].cmd = txn[s].cmd /\ txn'[s].written = txn[s].written
      BY <1>1, <2>1, Restaged DEF FinalizeStages
    <2>3. txn[s].stage \in {"refWinner", "refLoser"}
      BY <1>6 DEF CheckWinner, CheckLoser, At
    <2>4. Knows(s)'
      BY <1>3, <1>4, <2>2, <2>3 DEF Knows, KnowsPlayers, KnowsMatch, Holds
    <2> QED BY <1>2, <2>4, MovesInv
  <1>7. CASE LockCup(s)
    <2>1. txn[s].stage = "lockCup" /\ txn' = [txn EXCEPT ![s].stage = "link"]
      BY <1>7 DEF LockCup, At, Goto
    <2>2. /\ txn'[s].kind = "finalize" /\ txn'[s].stage = "link"
          /\ txn'[s].cmd = txn[s].cmd /\ txn'[s].written = txn[s].written
          /\ txn'[s].rating = txn[s].rating /\ txn'[s].row = txn[s].row
      BY <1>1, <2>1, Restaged DEF FinalizeStages
    <2>3. Lock(CupRow, "update") \in locks'[s]
      BY <1>3, <2>1 DEF Wanted
    <2>4. KnowsPlayers(s)'
      BY <1>3, <1>4, <2>1, <2>2 DEF KnowsPlayers, RatingRead, Holds
    <2>5. KnowsMatch(s)'
      BY <1>3, <1>4, <2>1, <2>2, <2>3 DEF KnowsMatch, Holds
    <2> QED BY <1>2, <2>2, <2>4, <2>5, MovesInv DEF Knows
  <1> QED BY <1>5, <1>6, <1>7

LEMMA LockUserInv ==
    ASSUME Inv, NEW s \in Sessions, LockFirst(s) \/ LockSecond(s)
    PROVE  Inv'
  <1>1. Finalizes(s) /\ UNCHANGED tables /\ Granted(s)
    BY DEF LockFirst, LockSecond, LockUser
  <1> DEFINE t == txn[s]
             w == txn[s].written
             u == IF LockFirst(s) THEN First(txn[s].cmd) ELSE Second(txn[s].cmd)
             next == IF LockFirst(s) THEN "lockSecond"
                     ELSE IF txn[s].cmd.slot = NoSlot THEN "commit" ELSE "lockMatch"
             n == [[t EXCEPT !.stage = next]
                     EXCEPT !.rating = [@ EXCEPT ![u] = users[u].rating]]
  <1>2. txn' = [txn EXCEPT ![s].stage = next, ![s].rating[u] = users[u].rating]
    BY DEF LockFirst, LockSecond, LockUser
  <1>3. txn'[s] = n /\ txn' = [txn EXCEPT ![s] = n]
    <2> HIDE DEF u, next
    <2>1. DOMAIN txn = Sessions
      BY DEF Inv, TypeOK
    <2>2. txn'[s] = n
      BY <1>2, <2>1
    <2>3. txn' = [o \in Sessions |-> IF o = s THEN txn'[s] ELSE txn[o]]
      BY <1>2, <2>1
    <2> HIDE DEF n
    <2>4. [txn EXCEPT ![s] = n] = [o \in Sessions |-> IF o = s THEN n ELSE txn[o]]
      BY <2>1
    <2> QED BY <2>2, <2>3, <2>4
  <1>4. /\ t \in Finalizing(w) /\ IsTable(w, Slots, Rows) /\ w = t.written
        /\ t.cmd \in Commands /\ t.rating \in [Users -> Int] /\ ~Idle(s)
        /\ KnowsPlayers(s) /\ KnowsMatch(s)
    BY <1>1, FinalizeFields
  <1>5. u \in {First(t.cmd), Second(t.cmd)} /\ u \in Users
    BY <1>4, CommandFields
  <1>6. users[u].rating \in Int
    BY <1>5 DEF Inv, TypeOK, Ratings
  <1>7. next \in {"lockSecond", "lockMatch", "commit"}
    OBVIOUS
  <1>8. /\ (next = "lockSecond" <=> LockFirst(s))
        /\ (next = "lockMatch" => t.cmd.slot # NoSlot)
        /\ (next = "commit" => t.cmd.slot = NoSlot)
    OBVIOUS
  <1>9. /\ (LockFirst(s) => t.stage = "lockFirst" /\ u = First(t.cmd))
        /\ (~LockFirst(s) => t.stage = "lockSecond" /\ u = Second(t.cmd))
    BY DEF LockFirst, LockSecond, LockUser, At
  <1>10. Lock(UserRow(u), "update") \in locks'[s]
    BY <1>1, <1>9, GrantedHolds DEF Wanted
  <1>11. locks[s] \subseteq locks'[s] /\ UNCHANGED <<users, results, entries, cup, bracket>>
    BY <1>1, GrantedHolds DEF tables
  <1> HIDE DEF next, u
  <1>12. /\ n \in Finalizing(w) /\ n.kind = "finalize" /\ n.stage = next /\ n.cmd = t.cmd
         /\ n.rating = [t.rating EXCEPT ![u] = users[u].rating]
         /\ n.row = t.row /\ n.written = w
    BY <1>4, <1>5, <1>6, <1>7 DEF Finalizing, FinalizeStages
  <1> HIDE DEF n
  <1>13. Moves(s) /\ Typed(txn'[s])
    BY <1>1, <1>3, <1>4, <1>12 DEF Moves, Typed
  <1>14. n.rating[u] = users[u].rating
    BY <1>4, <1>5, <1>12
  <1>15. ~LockFirst(s) => RatingRead(s, First(t.cmd))
    BY <1>4, <1>9 DEF KnowsPlayers
  <1>16. ~LockFirst(s) => n.rating[First(t.cmd)] = users[First(t.cmd)].rating
    BY <1>4, <1>12, <1>14, <1>15, CommandFields DEF RatingRead
  <1>17. RatingRead(s, First(t.cmd))'
    BY <1>3, <1>9, <1>10, <1>11, <1>12, <1>14, <1>15, <1>16 DEF RatingRead, Holds
  <1>18. ~LockFirst(s) => RatingRead(s, Second(t.cmd))'
    BY <1>3, <1>9, <1>10, <1>11, <1>12, <1>14 DEF RatingRead, Holds
  <1>19. Holds(s, KeyRow(t.cmd.key))' /\ t.cmd.key \notin DOMAIN results
    BY <1>3, <1>4, <1>9, <1>11, <1>12 DEF KnowsPlayers, Holds
  <1>20. t.cmd.slot = NoSlot => w = <<>>
    BY <1>4 DEF KnowsPlayers
  <1>21. KnowsPlayers(s)'
    BY <1>3, <1>7, <1>8, <1>11, <1>12, <1>17, <1>18, <1>19, <1>20 DEF KnowsPlayers, RatingRead
  <1>22. KnowsMatch(s)'
    BY <1>3, <1>7, <1>8, <1>11, <1>12 DEF KnowsMatch
  <1> QED BY <1>3, <1>12, <1>13, <1>21, <1>22, MovesInv DEF Knows

LEMMA LockMatchInv ==
    ASSUME Inv, NEW s \in Sessions, LockMatch(s)
    PROVE  Inv'
  <1> DEFINE t == txn[s]
             w == txn[s].written
             n == [t EXCEPT !.stage = "lockCup", !.row = bracket[t.cmd.slot]]
  <1>1. Finalizes(s) /\ UNCHANGED tables /\ Granted(s) /\ t.stage = "lockMatch"
    BY StageKind DEF LockMatch, At, FinalizeStages
  <1>2. txn'[s] = n /\ txn' = [txn EXCEPT ![s] = n] /\ t.cmd.slot \in DOMAIN bracket
    BY DEF LockMatch, Inv, TypeOK
  <1>3. /\ t \in Finalizing(w) /\ IsTable(w, Slots, Rows) /\ w = t.written /\ ~Idle(s)
        /\ KnowsPlayers(s)
    BY <1>1, FinalizeFields
  <1>4. bracket[t.cmd.slot] \in Rows
    BY <1>2 DEF Inv, TypeOK, IsTable
  <1>5. Lock(SlotRow(t.cmd.slot), "update") \in locks'[s] /\ locks[s] \subseteq locks'[s]
    BY <1>1, GrantedHolds DEF Wanted
  <1>6. UNCHANGED <<users, results, entries, cup, bracket>>
    BY <1>1 DEF tables
  <1>7. /\ n \in Finalizing(w) /\ n.kind = "finalize" /\ n.stage = "lockCup" /\ n.cmd = t.cmd
        /\ n.rating = t.rating /\ n.row = bracket[t.cmd.slot] /\ n.written = w
    BY <1>3, <1>4 DEF Finalizing, FinalizeStages
  <1> HIDE DEF n
  <1>8. Moves(s) /\ Typed(txn'[s])
    BY <1>1, <1>2, <1>3, <1>7 DEF Moves, Typed
  <1>9. KnowsPlayers(s)'
    BY <1>1, <1>2, <1>3, <1>5, <1>6, <1>7 DEF KnowsPlayers, RatingRead, Holds
  <1>10. KnowsMatch(s)'
    BY <1>2, <1>5, <1>6, <1>7 DEF KnowsMatch, Holds
  <1> QED BY <1>2, <1>7, <1>8, <1>9, <1>10, MovesInv DEF Knows

\* The row of a finished match has a winner.
LEMMA WinnerKnown ==
    ASSUME Inv, NEW m \in DOMAIN bracket, bracket[m].status = "finished"
    PROVE  bracket[m].winner \in Users
  <1>1. bracket[m].result \in DOMAIN results /\ results[bracket[m].result].winner = bracket[m].winner
    BY DEF Inv, BracketFollows
  <1> QED BY <1>1 DEF Inv, TypeOK, IsTable

LEMMA BracketTyped ==
    ASSUME Inv, NEW c \in Commands, c.slot \in DOMAIN bracket
    PROVE  /\ IsTable(bracket, Slots, Rows)
           /\ IsTable(Advanced(bracket, c), Slots, Rows)
           /\ IsTable(Pending(bracket, c), Slots, Rows)
  <1>1. IsTable(bracket, Slots, Rows)
    BY DEF Inv, TypeOK
  <1>2. MakesFinal(bracket, c) =>
          \A m \in Semifinals : m # c.slot => bracket[m].winner \in Users
    BY WinnerKnown DEF MakesFinal
  <1> DEFINE A == Advanced(bracket, c)
  <1>3. IsTable(A, Slots, Rows)
    BY <1>1, <1>2, AdvancedTyped
  <1> HIDE DEF A
  <1>4. DOMAIN A \subseteq Slots /\ \A m \in DOMAIN A : A[m] \in Rows
    BY <1>3 DEF IsTable
  <1> DEFINE S == {m \in DOMAIN A : m = c.slot \/ m \notin DOMAIN bracket}
             P == [m \in S |-> A[m]]
  <1>5. P = Pending(bracket, c)
    BY DEF Pending, Restrict, A
  <1>6. DOMAIN P = S /\ P \in [S -> Rows] /\ S \subseteq Slots
    BY <1>4
  <1> HIDE DEF P, S
  <1>7. IsTable(P, Slots, Rows)
    BY <1>6 DEF IsTable
  <1> QED BY <1>1, <1>3, <1>5, <1>7 DEF A

LEMMA LinkInv ==
    ASSUME Inv, NEW s \in Sessions, Link(s)
    PROVE  Inv'
  <1> DEFINE t == txn[s]
             w == txn[s].written
             p == Pending(bracket, txn[s].cmd)
             n == [[t EXCEPT !.stage = "commit"] EXCEPT !.written = p]
  <1>1. /\ Finalizes(s) /\ UNCHANGED tables /\ Granted(s)
        /\ t.stage = "link" /\ Linkable(s)
    BY StageKind DEF Link, At, FinalizeStages
  <1>2. txn' = [txn EXCEPT ![s].stage = "commit", ![s].written = p]
    BY DEF Link, Pending
  <1> HIDE DEF p
  <1>3. DOMAIN txn = Sessions
    BY DEF Inv, TypeOK
  <1>4. txn'[s] = n
    BY <1>2, <1>3
  <1>5. txn' = [txn EXCEPT ![s] = txn'[s]]
    BY <1>2, <1>3
  <1>6. /\ t \in Finalizing(w) /\ w = t.written /\ ~Idle(s) /\ t.cmd \in Commands
        /\ KnowsPlayers(s) /\ KnowsMatch(s)
    BY <1>1, FinalizeFields
  <1>7. t.cmd.slot # NoSlot
    BY <1>1, <1>6 DEF KnowsPlayers
  <1>8. t.cmd.slot \in DOMAIN bracket /\ t.row = bracket[t.cmd.slot]
    BY <1>1, <1>6, <1>7 DEF KnowsMatch
  <1>9. IsTable(p, Slots, Rows)
    BY <1>6, <1>8, BracketTyped DEF p
  <1>10. locks[s] \subseteq locks'[s] /\ UNCHANGED <<users, results, entries, cup, bracket>>
    BY <1>1, GrantedHolds DEF tables
  <1>11. /\ n \in Finalizing(p) /\ n.kind = "finalize" /\ n.stage = "commit"
         /\ n.cmd = t.cmd /\ n.rating = t.rating /\ n.row = t.row /\ n.written = p
    BY <1>6 DEF Finalizing, FinalizeStages
  <1> HIDE DEF n
  <1>12. Moves(s) /\ Typed(txn'[s])
    BY <1>1, <1>4, <1>5, <1>6, <1>9, <1>11 DEF Moves, Typed
  <1>13. KnowsPlayers(s)'
    BY <1>1, <1>4, <1>6, <1>7, <1>10, <1>11 DEF KnowsPlayers, RatingRead, Holds
  <1>14. Linkable(s)'
    BY <1>1, <1>4, <1>11 DEF Linkable
  <1>15. txn'[s].written = Pending(bracket', txn'[s].cmd)
    BY <1>4, <1>10, <1>11 DEF p
  <1>16. KnowsMatch(s)'
    BY <1>1, <1>4, <1>6, <1>8, <1>10, <1>11, <1>14, <1>15 DEF KnowsMatch, Holds
  <1> QED BY <1>4, <1>11, <1>12, <1>13, <1>16, MovesInv DEF Knows

LEMMA EntriesCount ==
    ASSUME TypeOK
    PROVE  /\ Cardinality(DOMAIN entries) = Len(entries) /\ Len(entries) \in Nat
           /\ DOMAIN entries = 1..Len(entries)
           /\ Max(DOMAIN entries \cup {0}) = Len(entries)
  <1>1. entries \in Seq(Users) /\ Len(entries) \in Nat /\ DOMAIN entries = 1..Len(entries)
    BY DEF TypeOK
  <1>2. Cardinality(1..Len(entries)) = Len(entries)
    BY <1>1, FS_Interval
  <1> DEFINE S == DOMAIN entries \cup {0}
             n == Len(entries)
  <1>3. n \in S /\ S \subseteq Int /\ \A x \in S : n >= x
    <2>1. n \in Nat /\ S = (1..n) \cup {0}
      BY <1>1
    <2> HIDE DEF S, n
    <2>2. n \in 1..n \/ n = 0
      BY <2>1
    <2> QED BY <2>1, <2>2
  <1> HIDE DEF S, n
  <1>4. \A x \in S : (\A y \in S : x >= y) => x = n
    BY <1>3
  <1>5. Max(S) = n
    BY <1>3, <1>4 DEF Max
  <1> QED BY <1>1, <1>2, <1>5 DEF S, n

LEMMA JoinStepsInv ==
    ASSUME Inv, NEW s \in Sessions, TakeSeed(s) \/ Enter(s) \/ CheckSeeds(s)
    PROVE  Inv'
  <1> DEFINE t == txn[s]
  <1>1. UNCHANGED tables /\ Granted(s) /\ t # NoTxn /\ t.stage \in {"join", "enter"} \cup SeedStages
    BY DEF TakeSeed, Enter, CheckSeeds, SeedStages, At
  <1>2. t.kind = "join"
    BY <1>1, StageKind
  <1>3. t \in Joining /\ KnowsEntry(s) /\ ~Idle(s)
    BY <1>1, <1>2, JoinFields DEF Idle
  <1>4. DOMAIN txn = Sessions
    BY DEF Inv, TypeOK
  <1>5. /\ locks'[s] = locks[s] \cup Wanted(s)
        /\ UNCHANGED <<users, results, entries, cup, bracket>>
    BY <1>1, GrantedHolds DEF tables
  <1>6. CASE TakeSeed(s)
    <2> DEFINE q == 1 + Len(entries)
               n == [[t EXCEPT !.stage = "enter"] EXCEPT !.seed = q]
    <2>1. q \in Nat /\ q = 1 + Max(DOMAIN entries \cup {0}) /\ q = Len(entries) + 1
      BY EntriesCount DEF Inv
    <2> HIDE DEF q
    <2>2. txn' = [txn EXCEPT ![s].stage = "enter", ![s].seed = q] /\ t.stage = "join"
      BY <1>6, <2>1 DEF TakeSeed, At
    <2>3. txn'[s] = n /\ txn' = [txn EXCEPT ![s] = txn'[s]]
      BY <1>4, <2>2
    <2>4. /\ n \in Joining /\ n.kind = "join" /\ n.stage = "enter"
          /\ n.user = t.user /\ n.seed = q
      BY <1>3, <2>1 DEF Joining
    <2> HIDE DEF n
    <2>5. Moves(s) /\ Typed(txn'[s])
      BY <1>1, <1>3, <2>3, <2>4 DEF Moves, Typed
    <2>6. Lock(CupRow, "update") \in locks'[s]
      BY <1>5, <2>2 DEF Wanted
    <2>7. t.user \notin Range(entries) /\ Len(entries) < Capacity
      BY <1>6, EntriesCount DEF TakeSeed, Inv
    <2>8. KnowsEntry(s)'
      BY <1>5, <2>1, <2>3, <2>4, <2>6, <2>7 DEF KnowsEntry, Holds
    <2> QED BY <2>3, <2>4, <2>5, <2>8, MovesInv DEF Knows
  <1>7. CASE Enter(s) \/ CheckSeeds(s)
    <2>0. PICK k \in {"commit"} \cup SeedStages : Goto(s, k)
      BY <1>7 DEF Enter, CheckSeeds, SeedStages
    <2> DEFINE n == [t EXCEPT !.stage = k]
    <2>1. /\ txn'[s] = n /\ txn' = [txn EXCEPT ![s] = n]
          /\ t.stage \in {"enter"} \cup SeedStages
      BY <1>4, <1>7, <2>0 DEF Enter, CheckSeeds, At, Goto, SeedStages
    <2>2. /\ n \in Joining /\ n.kind = "join" /\ n.stage = k
          /\ n.user = t.user /\ n.seed = t.seed
      BY <1>3 DEF Joining, SeedStages
    <2> HIDE DEF n
    <2>3. Moves(s) /\ Typed(txn'[s])
      BY <1>1, <1>3, <2>1, <2>2 DEF Moves, Typed
    <2>4. KnowsEntry(s)'
      BY <1>3, <1>5, <2>1, <2>2 DEF KnowsEntry, Holds
    <2> QED BY <2>1, <2>2, <2>3, <2>4, MovesInv DEF Knows
  <1> QED BY <1>6, <1>7

-----------------------------------------------------------------------------
(* What a commit does to the tables, and what it keeps *)

\* A result, an entry and a start, as if they were alone.
Finalized(c) ==
    /\ c.key \notin DOMAIN results
    /\ c.slot # NoSlot => /\ c.slot \in DOMAIN bracket
                          /\ bracket[c.slot].result = NoKey
                          /\ {c.winner, c.loser} \subseteq Participants(bracket[c.slot])
    /\ results' = Put(results, c.key, [winner |-> c.winner, loser |-> c.loser])
    /\ users' = Rated(users, c, [u \in Users |-> users[u].rating])
    /\ bracket' = IF c.slot = NoSlot THEN bracket ELSE Advanced(bracket, c)
    /\ cup' = Crowned(cup, c)
    /\ UNCHANGED entries

Entered(u) ==
    /\ u \notin Range(entries)
    /\ Len(entries) < Capacity
    /\ entries' = Append(entries, u)
    /\ IF Len(entries) + 1 >= Capacity
       THEN /\ cup' = [cup EXCEPT !.status = "running"]
            /\ bracket' = SemifinalRows(bracket, entries')
       ELSE UNCHANGED <<cup, bracket>>
    /\ UNCHANGED <<users, results>>

Started(m) ==
    /\ m \in DOMAIN bracket
    /\ bracket[m].status \in {"ready", "running"}
    /\ bracket' = [bracket EXCEPT ![m].status = "running"]
    /\ UNCHANGED <<users, results, entries, cup>>

Stand ==
    /\ \A k \in DOMAIN results : k \in DOMAIN results' /\ results'[k] = results[k]
    /\ \A m \in DOMAIN bracket :
         bracket[m].result # NoKey => m \in DOMAIN bracket' /\ bracket'[m] = bracket[m]
    /\ \A i \in DOMAIN entries : i \in DOMAIN entries' /\ entries'[i] = entries[i]
    /\ cup.status = "finished" => cup' = cup
    /\ cup.status = "running" => cup'.status # "open"

\* The parts of BracketFollows about one row, about another row and about the
\* final.
RowFollows(m) ==
    /\ bracket[m].status = "finished" <=> bracket[m].result # NoKey
    /\ bracket[m].result # NoKey =>
         /\ bracket[m].result \in DOMAIN results
         /\ results[bracket[m].result].winner = bracket[m].winner
         /\ Participants(bracket[m]) = {results[bracket[m].result].winner,
                                        results[bracket[m].result].loser}

Apart(m, n) == bracket[n].result # bracket[m].result \/ bracket[m].result = NoKey

FinalFollows ==
    "final" \in DOMAIN bracket =>
        /\ Participants(bracket["final"]) = {bracket[m].winner : m \in Semifinals}
        /\ cup.winner = bracket["final"].winner

LEMMA FollowsParts ==
    BracketFollows <=>
      /\ \A i, j \in DOMAIN entries : entries[i] = entries[j] => i = j
      /\ Semifinals \subseteq DOMAIN bracket <=> Len(entries) = Capacity
      /\ cup.status = "open" <=> Len(entries) < Capacity
      /\ "final" \in DOMAIN bracket <=> BothDecided(bracket)
      /\ FinalFollows
      /\ cup.status = "finished" <=> cup.winner # NoUser
      /\ \A m \in DOMAIN bracket : RowFollows(m)
      /\ \A m, n \in DOMAIN bracket : m # n => Apart(m, n)
  BY DEF BracketFollows, FinalFollows, RowFollows, Apart

LEMMA FollowsNext ==
    ASSUME \A i, j \in DOMAIN entries' : entries'[i] = entries'[j] => i = j,
           Semifinals \subseteq DOMAIN bracket' <=> Len(entries') = Capacity,
           cup'.status = "open" <=> Len(entries') < Capacity,
           "final" \in DOMAIN bracket' <=> BothDecided(bracket'),
           FinalFollows',
           cup'.status = "finished" <=> cup'.winner # NoUser,
           \A m \in DOMAIN bracket' : RowFollows(m)',
           \A m, n \in DOMAIN bracket' : m # n => Apart(m, n)'
    PROVE  BracketFollows'
  BY DEF BracketFollows, FinalFollows, RowFollows, Apart

LEMMA StartedFollows ==
    ASSUME Inv, NEW m \in Slots, Started(m)
    PROVE  BracketFollows' /\ Room' /\ Stand /\ IsTable(bracket', Slots, Rows)
  <1>1. /\ DOMAIN bracket' = DOMAIN bracket /\ m \in DOMAIN bracket
        /\ UNCHANGED <<users, results, entries, cup>>
        /\ \A n \in DOMAIN bracket : n # m => bracket'[n] = bracket[n]
        /\ bracket'[m] = [bracket[m] EXCEPT !.status = "running"]
    BY DEF Started
  <1>2. DOMAIN bracket \subseteq Slots /\ \A n \in DOMAIN bracket : bracket[n] \in Rows
    BY DEF Inv, TypeOK, IsTable
  <1>3. /\ bracket'[m] \in Rows /\ bracket'[m].status = "running"
        /\ bracket'[m].left = bracket[m].left /\ bracket'[m].right = bracket[m].right
        /\ bracket'[m].result = bracket[m].result /\ bracket'[m].winner = bracket[m].winner
    BY <1>1, <1>2 DEF Rows
  <1>4. bracket[m].status # "finished" /\ bracket[m].result = NoKey
    BY <1>1 DEF Started, Inv, BracketFollows
  <1>5. \A n \in DOMAIN bracket :
          /\ bracket'[n].left = bracket[n].left /\ bracket'[n].right = bracket[n].right
          /\ bracket'[n].result = bracket[n].result /\ bracket'[n].winner = bracket[n].winner
          /\ (bracket'[n].status = "finished" <=> bracket[n].status = "finished")
    BY <1>1, <1>3, <1>4
  <1>6. IsTable(bracket', Slots, Rows)
    <2>1. bracket' = [n \in DOMAIN bracket' |-> bracket'[n]]
      BY <1>1 DEF Started
    <2> QED BY <1>1, <1>2, <1>3, <2>1 DEF IsTable
  <1>7. Stand
    BY <1>1, <1>4 DEF Stand
  <1>8. Room'
    BY <1>1, <1>5 DEF Inv, Room
  <1>9. BothDecided(bracket') <=> BothDecided(bracket)
    BY <1>1, <1>5 DEF BothDecided
  <1>10. \A n \in DOMAIN bracket : Participants(bracket'[n]) = Participants(bracket[n])
    BY <1>5 DEF Participants
  <1>11. \A n \in DOMAIN bracket' : RowFollows(n)'
    <2>1. \A n \in DOMAIN bracket : RowFollows(n)
      BY FollowsParts DEF Inv
    <2> QED BY <1>1, <1>5, <1>10, <2>1 DEF RowFollows
  <1>12. \A n, o \in DOMAIN bracket' : n # o => Apart(n, o)'
    <2>1. \A n, o \in DOMAIN bracket : n # o => Apart(n, o)
      BY FollowsParts DEF Inv
    <2> QED BY <1>1, <1>5, <2>1 DEF Apart
  <1>13. FinalFollows'
    <2>1. SUFFICES ASSUME "final" \in DOMAIN bracket' PROVE FinalFollows'
      BY DEF FinalFollows
    <2>2. FinalFollows /\ BothDecided(bracket)
      BY <1>1, <2>1, FollowsParts DEF Inv
    <2>3. Semifinals \subseteq DOMAIN bracket
      BY <2>2 DEF BothDecided
    <2>4. {bracket'[n].winner : n \in Semifinals} = {bracket[n].winner : n \in Semifinals}
      BY <1>5, <2>3
    <2> QED BY <1>1, <1>5, <1>10, <2>1, <2>2, <2>4 DEF FinalFollows
  <1>14. BracketFollows'
    <2>1. BracketFollows
      BY DEF Inv
    <2>2. /\ \A i, j \in DOMAIN entries : entries[i] = entries[j] => i = j
          /\ Semifinals \subseteq DOMAIN bracket <=> Len(entries) = Capacity
          /\ cup.status = "open" <=> Len(entries) < Capacity
          /\ "final" \in DOMAIN bracket <=> BothDecided(bracket)
          /\ cup.status = "finished" <=> cup.winner # NoUser
      BY <2>1, FollowsParts
    <2> QED BY <1>1, <1>9, <1>11, <1>12, <1>13, <2>2, FollowsNext
  <1> QED BY <1>6, <1>7, <1>8, <1>14

LEMMA EnteredFollows ==
    ASSUME Inv, NEW u \in Users, Entered(u)
    PROVE  /\ BracketFollows' /\ Room' /\ Stand /\ IsTable(bracket', Slots, Rows)
           /\ entries' \in Seq(Users) /\ cup' \in [status : {"open", "running", "finished"},
                                                   winner : Users \cup {NoUser}]
  <1> DEFINE n == Len(entries)
  <1>1. /\ entries \in Seq(Users) /\ n \in Nat /\ n < 4 /\ Capacity = 4 /\ DOMAIN entries = 1..n
        /\ entries' = Append(entries, u) /\ UNCHANGED <<users, results>>
    BY DEF Inv, TypeOK, Entered, Capacity
  <1>2. /\ entries' \in Seq(Users) /\ Len(entries') = n + 1 /\ DOMAIN entries' = 1..(n + 1)
        /\ entries'[n + 1] = u /\ \A i \in 1..n : entries'[i] = entries[i]
    BY <1>1
  <1>3. \A i, j \in DOMAIN entries' : entries'[i] = entries'[j] => i = j
    <2>1. \A i, j \in 1..n : entries[i] = entries[j] => i = j
      BY <1>1 DEF Inv, BracketFollows
    <2>2. \A i \in 1..n : entries[i] # u
      BY <1>1 DEF Entered, Range
    <2>3. \A i \in DOMAIN entries' : i \in 1..n \/ i = n + 1
      BY <1>1, <1>2
    <2> QED BY <1>2, <2>1, <2>2, <2>3
  <1>4. /\ DOMAIN bracket = {} /\ cup.status = "open" /\ cup.winner = NoUser
        /\ cup \in [status : {"open", "running", "finished"}, winner : Users \cup {NoUser}]
    BY <1>1 DEF Inv, Room, TypeOK
  <1>5. CASE n + 1 < 4
    <2>1. UNCHANGED <<cup, bracket>>
      BY <1>1, <1>5 DEF Entered
    <2>2. BracketFollows'
      <3>1. ~BothDecided(bracket') /\ ~(Semifinals \subseteq DOMAIN bracket')
        BY <1>4, <2>1 DEF BothDecided, Semifinals
      <3> QED BY <1>1, <1>2, <1>3, <1>4, <1>5, <2>1, <3>1, FollowsNext DEF FinalFollows
    <2>3. Room'
      BY <1>1, <1>2, <1>4, <1>5, <2>1 DEF Room
    <2>4. Stand
      BY <1>1, <1>2, <1>4, <2>1 DEF Stand
    <2>5. IsTable(bracket', Slots, Rows)
      BY <2>1 DEF Inv, TypeOK
    <2> QED BY <1>2, <1>4, <2>1, <2>2, <2>3, <2>4, <2>5
  <1>6. CASE n + 1 = 4
    <2> DEFINE p == Pairing(entries'[1], entries'[4])
               q == Pairing(entries'[2], entries'[3])
    <2>1. cup' = [cup EXCEPT !.status = "running"] /\ bracket' = SemifinalRows(bracket, entries')
      BY <1>1, <1>6 DEF Entered
    <2>2. \A i \in 1..4 : entries'[i] \in Users
      BY <1>2, <1>6
    <2>3. /\ p \in Rows /\ p.status = "ready" /\ p.result = NoKey /\ p.winner = NoUser
          /\ q \in Rows /\ q.status = "ready" /\ q.result = NoKey /\ q.winner = NoUser
      BY <2>2, Pairs
    <2>4. SemifinalRows(bracket, entries') =
            Ensure(Ensure(bracket, "semifinal1", p), "semifinal2", q)
      BY DEF SemifinalRows
    <2> HIDE DEF p, q
    <2>5. Ensure(bracket, "semifinal1", p) = Put(bracket, "semifinal1", p)
      BY <1>4 DEF Ensure
    <2>6. DOMAIN Put(bracket, "semifinal1", p) = {"semifinal1"}
      BY <1>4 DEF Put
    <2>7. bracket' = [m \in Semifinals |-> IF m = "semifinal1" THEN p ELSE q]
      BY <1>4, <2>1, <2>4, <2>5, <2>6 DEF Put, Ensure, Semifinals
    <2>8. /\ DOMAIN bracket' = Semifinals /\ bracket'["semifinal1"] = p
          /\ bracket'["semifinal2"] = q
      BY <2>7 DEF Semifinals
    <2>9. cup'.status = "running" /\ cup'.winner = NoUser
          /\ cup' \in [status : {"open", "running", "finished"}, winner : Users \cup {NoUser}]
      BY <1>4, <2>1
    <2>10. \A m \in DOMAIN bracket' :
             /\ bracket'[m] \in Rows /\ bracket'[m].status = "ready" /\ bracket'[m].result = NoKey
      BY <2>3, <2>8 DEF Semifinals
    <2>11. "final" \notin DOMAIN bracket' /\ ~BothDecided(bracket')
      BY <2>8, <2>10 DEF Semifinals, BothDecided
    <2>12. BracketFollows'
      <3>1. \A m \in DOMAIN bracket' : RowFollows(m)'
        BY <2>10 DEF RowFollows
      <3>2. \A m, o \in DOMAIN bracket' : Apart(m, o)'
        BY <2>10 DEF Apart
      <3>3. FinalFollows'
        BY <2>11 DEF FinalFollows
      <3> QED BY <1>1, <1>2, <1>3, <1>6, <2>8, <2>9, <2>11, <3>1, <3>2, <3>3, FollowsNext
    <2>13. Room'
      <3>1. \A m \in DOMAIN bracket' : bracket'[m].winner = NoUser
        BY <2>3, <2>8 DEF Semifinals
      <3> QED BY <1>1, <1>2, <1>6, <2>9, <3>1 DEF Room
    <2>14. Stand
      BY <1>1, <1>2, <1>4 DEF Stand
    <2>15. IsTable(bracket', Slots, Rows)
      BY <2>7, <2>8, <2>10, SlotNames DEF IsTable
    <2> QED BY <1>2, <2>9, <2>12, <2>13, <2>14, <2>15
  <1>7. n + 1 < 4 \/ n + 1 = 4
    BY <1>1
  <1> QED BY <1>5, <1>6, <1>7

LEMMA FinalizedFollows ==
    ASSUME Inv, NEW c \in Commands, Finalized(c)
    PROVE  /\ BracketFollows' /\ Room' /\ Stand /\ IsTable(bracket', Slots, Rows)
           /\ IsTable(results', Keys, [winner : Users, loser : Users])
           /\ cup' \in [status : {"open", "running", "finished"}, winner : Users \cup {NoUser}]
  <1> DEFINE r == [winner |-> c.winner, loser |-> c.loser]
  <1>1. /\ c.key \in Keys /\ c.winner \in Users /\ c.loser \in Users /\ c.winner # c.loser
        /\ c.slot \in Slots \cup {NoSlot} /\ c.key # NoKey /\ c.winner # NoUser
    BY CommandFields, SlotNames
  <1>2. /\ c.key \notin DOMAIN results /\ results' = Put(results, c.key, r) /\ entries' = entries
        /\ cup' = Crowned(cup, c)
    BY DEF Finalized
  <1>3. /\ DOMAIN results' = DOMAIN results \cup {c.key} /\ results'[c.key] = r
        /\ \A k \in DOMAIN results : results'[k] = results[k] /\ k # c.key
    BY <1>2 DEF Put
  <1>4. IsTable(results', Keys, [winner : Users, loser : Users])
    <2>1. IsTable(results, Keys, [winner : Users, loser : Users])
      BY DEF Inv, TypeOK
    <2>2. r \in [winner : Users, loser : Users]
      BY <1>1
    <2> HIDE DEF r
    <2>3. \A k \in DOMAIN results' : results'[k] \in [winner : Users, loser : Users]
      BY <1>3, <2>1, <2>2 DEF IsTable
    <2>4. results' = [k \in DOMAIN results' |-> results'[k]]
      BY <1>2 DEF Put
    <2> QED BY <1>1, <1>3, <2>1, <2>3, <2>4 DEF IsTable
  <1>5. /\ cup \in [status : {"open", "running", "finished"}, winner : Users \cup {NoUser}]
        /\ IsTable(bracket, Slots, Rows) /\ DOMAIN bracket \subseteq Slots
        /\ \A m \in DOMAIN bracket : bracket[m] \in Rows
    BY DEF Inv, TypeOK, IsTable
  <1>6. cup' \in [status : {"open", "running", "finished"}, winner : Users \cup {NoUser}]
    BY <1>1, <1>2, <1>5 DEF Crowned
  <1>7. /\ \A i, j \in DOMAIN entries : entries[i] = entries[j] => i = j
        /\ Semifinals \subseteq DOMAIN bracket <=> Len(entries) = Capacity
        /\ cup.status = "open" <=> Len(entries) < Capacity
        /\ "final" \in DOMAIN bracket <=> BothDecided(bracket)
        /\ cup.status = "finished" <=> cup.winner # NoUser
        /\ FinalFollows
        /\ \A m \in DOMAIN bracket : RowFollows(m)
        /\ \A m, n \in DOMAIN bracket : m # n => Apart(m, n)
    BY FollowsParts DEF Inv
  <1>8. \A m \in DOMAIN bracket : bracket[m].result # NoKey => bracket[m].result \in DOMAIN results
    BY <1>7 DEF RowFollows
  <1>9. CASE c.slot = NoSlot
    <2>1. bracket' = bracket /\ cup' = cup
      BY <1>2, <1>9, SlotNames DEF Finalized, Crowned
    <2>2. \A m \in DOMAIN bracket' : RowFollows(m)'
      BY <1>3, <1>7, <1>8, <2>1 DEF RowFollows
    <2>3. \A m, n \in DOMAIN bracket' : m # n => Apart(m, n)'
      BY <1>7, <2>1 DEF Apart
    <2>4. FinalFollows' /\ Room'
      BY <1>2, <1>7, <2>1 DEF FinalFollows, Inv, Room
    <2>5. BracketFollows'
      BY <1>2, <1>7, <2>1, <2>2, <2>3, <2>4, FollowsNext
    <2>6. Stand
      BY <1>2, <1>3, <2>1 DEF Stand
    <2> QED BY <1>4, <1>5, <1>6, <2>1, <2>4, <2>5, <2>6
  <1>10. CASE c.slot # NoSlot
    <2> DEFINE z == c.slot
    <2>1. /\ z \in DOMAIN bracket /\ bracket[z].result = NoKey /\ z \in Slots
          /\ {c.winner, c.loser} \subseteq Participants(bracket[z])
          /\ bracket' = Advanced(bracket, c)
      BY <1>1, <1>10 DEF Finalized
    <2>2. IsTable(bracket', Slots, Rows)
      BY <2>1, BracketTyped
    <2>3. /\ \A m : m \in DOMAIN bracket'
                  <=> m \in DOMAIN bracket \/ (MakesFinal(bracket, c) /\ m = "final")
          /\ bracket'[z] = Decided(bracket[z], c)
          /\ \A m \in DOMAIN bracket : m # z => bracket'[m] = bracket[m]
          /\ MakesFinal(bracket, c) =>
                bracket'["final"] = Pairing(Winner(bracket, c, "semifinal1"),
                                            Winner(bracket, c, "semifinal2"))
      BY <1>5, <2>1, AdvancedAt
    <2>4. /\ bracket'[z].status = "finished" /\ bracket'[z].result = c.key
          /\ bracket'[z].winner = c.winner
          /\ Participants(bracket'[z]) = Participants(bracket[z])
      BY <1>5, <2>1, <2>3, Decides
    <2>5. Len(entries) = Capacity /\ Semifinals \subseteq DOMAIN bracket
      <3>1. DOMAIN bracket # {} /\ Room
        BY <2>1 DEF Inv
      <3>2. Len(entries) \in Nat
        BY DEF Inv, TypeOK
      <3>3. Len(entries) <= Capacity /\ ~(Len(entries) < Capacity)
        BY <3>1 DEF Room
      <3>4. Len(entries) = Capacity
        <4>1. \A n \in Nat : n <= Capacity /\ ~(n < Capacity) => n = Capacity
          BY DEF Capacity
        <4> QED BY <3>2, <3>3, <4>1
      <3> QED BY <1>7, <3>4
    <2>6. bracket[z].status # "finished"
      BY <1>7, <2>1 DEF RowFollows
    <2>7. MakesFinal(bracket, c) => z \in Semifinals /\ "final" \notin DOMAIN bracket /\ z # "final"
      BY DEF MakesFinal, Semifinals
    <2>8. z \in Semifinals => "final" \notin DOMAIN bracket
      BY <1>7, <2>6 DEF BothDecided
    <2>9. z \in Semifinals \/ z = "final"
      BY <2>1 DEF Slots
    <2>10. "final" \in DOMAIN bracket' <=> BothDecided(bracket')
      <3>1. CASE MakesFinal(bracket, c)
        <4>1. \A m \in Semifinals : m \in DOMAIN bracket' /\ bracket'[m].status = "finished"
          BY <2>3, <2>4, <2>5, <3>1 DEF MakesFinal
        <4> QED BY <2>3, <3>1, <4>1 DEF BothDecided
      <3>2. CASE ~MakesFinal(bracket, c) /\ z = "final"
        <4>1. \A m \in Semifinals : bracket'[m] = bracket[m]
          BY <2>3, <2>5, <3>2 DEF Semifinals
        <4> QED BY <1>7, <2>1, <2>3, <2>5, <3>2, <4>1 DEF BothDecided
      <3>3. CASE ~MakesFinal(bracket, c) /\ z # "final"
        <4>1. z \in Semifinals /\ "final" \notin DOMAIN bracket
          BY <2>8, <2>9, <3>3
        <4>2. PICK m \in Semifinals : m # z /\ bracket[m].status # "finished"
          BY <2>5, <3>3, <4>1 DEF MakesFinal
        <4>3. bracket'[m] = bracket[m]
          BY <2>3, <2>5, <4>2
        <4> QED BY <2>3, <3>3, <4>1, <4>2, <4>3 DEF BothDecided
      <3> QED BY <3>1, <3>2, <3>3
    <2>11. z # "final" => cup' = cup
      BY <1>2 DEF Crowned
    <2>12. z = "final" => cup'.status = "finished" /\ cup'.winner = c.winner
      BY <1>2 DEF Crowned
    <2>13. FinalFollows'
      <3>1. SUFFICES ASSUME "final" \in DOMAIN bracket' PROVE FinalFollows'
        BY DEF FinalFollows
      <3>2. CASE MakesFinal(bracket, c)
        <4>1. \A m \in Semifinals : Winner(bracket, c, m) = bracket'[m].winner
          BY <2>3, <2>4, <2>5 DEF Winner
        <4>2. \A m \in Semifinals : bracket'[m].winner \in Users
          <5>1. \A m \in Semifinals : m # z => bracket[m].winner \in Users
            BY <2>5, <3>2, WinnerKnown DEF MakesFinal
          <5> QED BY <1>1, <2>3, <2>4, <2>5, <5>1
        <4> DEFINE a == bracket'["semifinal1"].winner
                   b == bracket'["semifinal2"].winner
        <4>3. bracket'["final"] = Pairing(a, b) /\ a \in Users /\ b \in Users
          BY <2>3, <3>2, <4>1, <4>2 DEF Semifinals
        <4>4. {bracket'[m].winner : m \in Semifinals} = {a, b}
          BY DEF Semifinals
        <4> HIDE DEF a, b
        <4>5. Participants(bracket'["final"]) = {a, b} /\ bracket'["final"].winner = NoUser
          BY <4>3, Pairs
        <4>6. cup'.winner = NoUser
          BY <2>7, <2>11, <3>2 DEF Inv, Room
        <4> QED BY <4>4, <4>5, <4>6 DEF FinalFollows
      <3>3. CASE ~MakesFinal(bracket, c)
        <4>1. "final" \in DOMAIN bracket /\ z = "final"
          BY <2>3, <2>8, <2>9, <3>1, <3>3
        <4>2. \A m \in Semifinals : bracket'[m] = bracket[m]
          BY <2>3, <2>5, <4>1 DEF Semifinals
        <4>3. {bracket'[m].winner : m \in Semifinals} = {bracket[m].winner : m \in Semifinals}
          BY <4>2
        <4> QED BY <1>7, <2>4, <2>12, <4>1, <4>3 DEF FinalFollows
      <3> QED BY <3>2, <3>3
    <2>14. Room'
      <3>1. Room /\ (MakesFinal(bracket, c) => bracket'["final"].winner = NoUser)
        BY <2>3 DEF Inv, Pairing
      <3>2. \A m \in DOMAIN bracket' : bracket'[m].result = NoKey => bracket'[m].winner = NoUser
        BY <1>1, <2>3, <2>4, <3>1 DEF Room
      <3> QED BY <1>2, <2>1, <2>3, <2>5, <2>11, <3>1, <3>2 DEF Room
    <2>15. cup'.status = "open" <=> Len(entries') < Capacity
      BY <1>2, <1>7, <2>5, <2>11, <2>12
    <2>16. cup'.status = "finished" <=> cup'.winner # NoUser
      BY <1>1, <1>7, <2>11, <2>12
    <2>17. \A m \in DOMAIN bracket' : RowFollows(m)'
      <3>1. ASSUME NEW m \in DOMAIN bracket' PROVE RowFollows(m)'
        <4>1. CASE m = z
          <5>1. \A a, b, x, y : x # y /\ {x, y} \subseteq {a, b} => {a, b} = {x, y}
            OBVIOUS
          <5>2. Participants(bracket[z]) = {c.winner, c.loser}
            BY <1>1, <2>1, <5>1 DEF Participants
          <5> QED BY <1>1, <1>3, <2>4, <4>1, <5>2 DEF RowFollows
        <4>2. CASE m # z /\ m \in DOMAIN bracket
          BY <1>3, <1>7, <1>8, <2>3, <4>2 DEF RowFollows
        <4>3. CASE m \notin DOMAIN bracket
          <5>1. MakesFinal(bracket, c) /\ m = "final"
            BY <2>3, <3>1, <4>3
          <5>2. bracket'[m].status = "ready" /\ bracket'[m].result = NoKey
            BY <2>3, <5>1 DEF Pairing
          <5> QED BY <5>2 DEF RowFollows
        <4> QED BY <4>1, <4>2, <4>3
      <3> QED BY <3>1
    <2>18. \A m, n \in DOMAIN bracket' : m # n => Apart(m, n)'
      <3>1. \A m \in DOMAIN bracket' \ {z} :
              bracket'[m].result = NoKey \/ (m \in DOMAIN bracket /\ bracket'[m] = bracket[m])
        <4>1. MakesFinal(bracket, c) => bracket'["final"].result = NoKey
          BY <2>3 DEF Pairing
        <4> QED BY <2>3, <4>1
      <3>2. \A m \in DOMAIN bracket' \ {z} : bracket'[m].result # c.key
        BY <1>1, <1>2, <1>8, <3>1
      <3> QED BY <1>7, <2>4, <3>1, <3>2 DEF Apart
    <2>19. BracketFollows'
      <3>1. Semifinals \subseteq DOMAIN bracket' <=> Len(entries') = Capacity
        BY <1>2, <2>3, <2>5
      <3> QED BY <1>2, <1>7, <2>10, <2>13, <2>15, <2>16, <2>17, <2>18, <3>1, FollowsNext
    <2>20. Stand
      <3>1. \A m \in DOMAIN bracket :
              bracket[m].result # NoKey => m \in DOMAIN bracket' /\ bracket'[m] = bracket[m]
        BY <2>1, <2>3
      <3>2. cup.status = "finished" => cup' = cup
        <4>1. SUFFICES ASSUME cup.status = "finished", z = "final" PROVE FALSE
          BY <2>11
        <4>2. bracket[z].winner = cup.winner /\ cup.winner # NoUser /\ cup.winner \in Users
          BY <1>5, <1>7, <2>1, <4>1 DEF FinalFollows
        <4>3. bracket[z].winner = NoUser
          BY <2>1 DEF Inv, Room
        <4> QED BY <4>2, <4>3
      <3>3. cup.status = "running" => cup'.status # "open"
        BY <2>11, <2>12
      <3> QED BY <1>2, <1>3, <3>1, <3>2, <3>3 DEF Stand
    <2> QED BY <1>4, <1>6, <2>2, <2>14, <2>19, <2>20
  <1> QED BY <1>9, <1>10

-----------------------------------------------------------------------------
(* The commits *)

LEMMA RatedFields ==
    ASSUME TypeOK, NEW c \in Commands, NEW before \in [Users -> Int],
           before[c.winner] = users[c.winner].rating, before[c.loser] = users[c.loser].rating
    PROVE  /\ Rated(users, c, before) = Rated(users, c, [u \in Users |-> users[u].rating])
           /\ Rated(users, c, before) \in [Users -> [rating : Ratings, wins : Nat, losses : Nat]]
           /\ \A u \in Users \ {c.winner, c.loser} : Rated(users, c, before)[u] = users[u]
  <1> DEFINE Row == [rating : Ratings, wins : Nat, losses : Nat]
             w == c.winner
             l == c.loser
             a == Won(users[w], before[w])
             b == Lost(users[l], before[l])
  <1>1. w \in Users /\ l \in Users /\ w # l
    BY CommandFields
  <1>2. users \in [Users -> Row]
    BY DEF TypeOK
  <1>3. Rated(users, c, before) = [users EXCEPT ![w] = a, ![l] = b]
    BY <1>1, <1>2 DEF Rated
  <1>4. Rated(users, c, [u \in Users |-> users[u].rating]) = [users EXCEPT ![w] = a, ![l] = b]
    <2> DEFINE g == [u \in Users |-> users[u].rating]
    <2>1. g[w] = before[w] /\ g[l] = before[l]
      BY <1>1
    <2> HIDE DEF g
    <2> QED BY <1>1, <1>2, <2>1 DEF Rated
  <1>5. /\ users[w] \in Row /\ users[l] \in Row
        /\ before[w] \in Ratings /\ before[l] \in Ratings
    BY <1>1, <1>2
  <1>6. /\ RatingWon(before[w]) \in Ratings /\ RatingLost(before[l]) \in Ratings
    BY <1>5 DEF RatingWon, RatingLost, Ratings
  <1>7. a \in Row /\ b \in Row
    <2>1. ASSUME NEW r \in Row, NEW x \in Ratings
          PROVE  /\ [r EXCEPT !.wins = @ + 1, !.rating = x] \in Row
                 /\ [r EXCEPT !.losses = @ + 1, !.rating = x] \in Row
      <3>1. r.wins + 1 \in Nat /\ r.losses + 1 \in Nat
        OBVIOUS
      <3>2. \A n \in Nat : /\ [r EXCEPT !.wins = n, !.rating = x] \in Row
                            /\ [r EXCEPT !.losses = n, !.rating = x] \in Row
        OBVIOUS
      <3> QED BY <3>1, <3>2
    <2> HIDE DEF Row
    <2> QED BY <1>5, <1>6, <2>1 DEF Won, Lost
  <1> HIDE DEF a, b
  <1> QED BY <1>1, <1>2, <1>3, <1>4, <1>7

LEMMA CommitIsFinalized ==
    ASSUME Inv, NEW s \in Sessions, CommitResult(s)
    PROVE  /\ txn[s].cmd \in Commands /\ Finalized(txn[s].cmd)
           /\ users' \in [Users -> [rating : Ratings, wins : Nat, losses : Nat]]
           /\ \A u \in Users \ {txn[s].cmd.winner, txn[s].cmd.loser} : users'[u] = users[u]
           /\ history' \subseteq [key : Keys, user : Users, before : Int, after : Int]
  <1> DEFINE t == txn[s]
             c == txn[s].cmd
  <1>1. /\ t.stage = "commit" /\ c \in Commands /\ t.rating \in [Users -> Int]
        /\ KnowsPlayers(s) /\ KnowsMatch(s)
    BY FinalizeFields DEF CommitResult, At
  <1>2. c.key \in Keys /\ c.winner \in Users /\ c.loser \in Users /\ c.slot \in Slots \cup {NoSlot}
    BY <1>1, CommandFields
  <1>3. /\ t.rating[First(c)] = users[First(c)].rating
        /\ t.rating[Second(c)] = users[Second(c)].rating
        /\ c.key \notin DOMAIN results
    BY <1>1 DEF KnowsPlayers, RatingRead
  <1>4. /\ t.rating[c.winner] = users[c.winner].rating
        /\ t.rating[c.loser] = users[c.loser].rating
    <2>1. c.winner \in {First(c), Second(c)} /\ c.loser \in {First(c), Second(c)}
      BY <1>1, CommandFields
    <2> QED BY <1>3, <2>1
  <1>5. users' = Rated(users, c, t.rating)
    BY DEF CommitResult
  <1>6. users' = Rated(users, c, [u \in Users |-> users[u].rating])
        /\ users' \in [Users -> [rating : Ratings, wins : Nat, losses : Nat]]
        /\ \A u \in Users \ {c.winner, c.loser} : users'[u] = users[u]
    BY <1>1, <1>4, <1>5, RatedFields DEF Inv
  <1>7. c.slot # NoSlot => /\ c.slot \in DOMAIN bracket
                           /\ bracket[c.slot].result = NoKey
                           /\ {c.winner, c.loser} \subseteq Participants(bracket[c.slot])
    BY <1>1 DEF KnowsMatch, Linkable
  <1>8. bracket' = IF c.slot = NoSlot THEN bracket ELSE Advanced(bracket, c)
    <2>1. bracket' = Overlay(bracket, t.written) /\ IsTable(bracket, Slots, Rows)
      BY DEF CommitResult, Inv, TypeOK
    <2>2. CASE c.slot = NoSlot
      <3>1. t.written = <<>>
        BY <1>1, <2>2 DEF KnowsPlayers
      <3>2. bracket' = [x \in DOMAIN bracket |-> bracket[x]]
        BY <2>1, <3>1 DEF Overlay
      <3> QED BY <2>1, <2>2, <3>2 DEF IsTable
    <2>3. CASE c.slot # NoSlot
      BY <1>1, <1>7, <2>1, <2>3, OverlayPending DEF KnowsMatch
    <2> QED BY <2>2, <2>3
  <1>9. HistoryRows(s) \subseteq [key : Keys, user : Users, before : Int, after : Int]
    BY <1>1, <1>2 DEF HistoryRows, RatingWon, RatingLost
  <1>10. history' \subseteq [key : Keys, user : Users, before : Int, after : Int]
    BY <1>9 DEF CommitResult, Inv, TypeOK
  <1>11. /\ results' = Put(results, c.key, [winner |-> c.winner, loser |-> c.loser])
         /\ cup' = Crowned(cup, c) /\ UNCHANGED entries
    BY DEF CommitResult
  <1>12. Finalized(c)
    BY <1>3, <1>6, <1>7, <1>8, <1>11 DEF Finalized
  <1> QED BY <1>1, <1>6, <1>10, <1>12

LEMMA CommitIsEntered ==
    ASSUME Inv, NEW s \in Sessions, CommitEntry(s)
    PROVE  txn[s].user \in Users /\ Entered(txn[s].user)
  <1> DEFINE u == txn[s].user
             n == Len(entries)
  <1>1. u \in Users /\ KnowsEntry(s) /\ txn[s].stage = "commit"
    BY JoinFields DEF CommitEntry, At
  <1>2. u \notin Range(entries) /\ n < Capacity /\ txn[s].seed = n + 1
    BY <1>1 DEF KnowsEntry
  <1>3. entries \in Seq(Users) /\ n \in Nat /\ DOMAIN entries = 1..n /\ Cardinality(DOMAIN entries) = n
    BY EntriesCount DEF Inv, TypeOK
  <1>4. entries' = Append(entries, u)
    <2>1. entries' = [i \in 1..(n + 1) |-> IF i = n + 1 THEN u ELSE entries[i]]
      <3>1. DOMAIN entries \cup {n + 1} = 1..(n + 1)
        BY <1>3
      <3> HIDE DEF n
      <3> QED BY <1>2, <3>1 DEF CommitEntry, Put
    <2>2. Append(entries, u) = [i \in 1..(n + 1) |-> IF i = n + 1 THEN u ELSE entries[i]]
      BY <1>1, <1>3
    <2> QED BY <2>1, <2>2
  <1> QED BY <1>1, <1>2, <1>3, <1>4 DEF CommitEntry, Entered, LastPlace

\* A session that holds a row for update is alone with it.
LEMMA Alone ==
    ASSUME Inv, NEW s \in Sessions, NEW o \in Sessions, s # o,
           NEW row, Holds(s, row)
    PROVE  ~Holds(o, row)
  <1>1. Conflict(Lock(row, "update"), Lock(row, "update"))
    BY DEF Conflict, Lock
  <1> QED BY <1>1 DEF Inv, Exclusive, Holds

LEMMA EndedOthers ==
    ASSUME Inv, NEW s \in Sessions, Ended(s)
    PROVE  /\ DOMAIN txn' = Sessions /\ DOMAIN locks' = Sessions
           /\ txn'[s] = NoTxn /\ Exclusive'
           /\ \A o \in Sessions \ {s} : txn'[o] = txn[o] /\ locks'[o] = locks[o]
  BY DEF Inv, TypeOK, Ended, Exclusive

LEMMA FinalizedOthers ==
    ASSUME Inv, NEW s \in Sessions, CommitResult(s), NEW o \in Sessions \ {s}
    PROVE  Knows(o)'
  <1> DEFINE c == txn[s].cmd
             t == txn[o]
  <1>1. /\ c \in Commands /\ Finalized(c) /\ KnowsPlayers(s) /\ KnowsMatch(s)
        /\ txn[s].stage = "commit" /\ Knows(o)
        /\ \A u \in Users \ {c.winner, c.loser} : users'[u] = users[u]
    BY CommitIsFinalized, FinalizeFields DEF CommitResult, At, Inv
  <1>2. t = txn'[o] /\ locks'[o] = locks[o]
    BY EndedOthers DEF CommitResult
  <1>3. /\ Holds(s, KeyRow(c.key))
        /\ Holds(s, UserRow(First(c))) /\ Holds(s, UserRow(Second(c)))
        /\ c.slot # NoSlot => Holds(s, SlotRow(c.slot)) /\ Holds(s, CupRow)
    BY <1>1 DEF KnowsPlayers, KnowsMatch, RatingRead
  <1>4. DOMAIN results' = DOMAIN results \cup {c.key} /\ entries' = entries
    BY <1>1 DEF Finalized, Put
  <1>5. \A k : Holds(o, KeyRow(k)) /\ k \notin DOMAIN results => k \notin DOMAIN results'
    BY <1>3, <1>4, Alone
  <1>6. \A u \in Users : RatingRead(o, u) => RatingRead(o, u)'
    <2>1. SUFFICES ASSUME NEW u \in Users, RatingRead(o, u) PROVE RatingRead(o, u)'
      OBVIOUS
    <2>2. u # First(c) /\ u # Second(c)
      BY <1>3, <2>1, Alone DEF RatingRead
    <2>3. u \notin {c.winner, c.loser}
      BY <1>1, <2>2, CommandFields
    <2>4. users'[u] = users[u]
      BY <1>1, <2>3
    <2> QED BY <1>2, <2>1, <2>4 DEF RatingRead, Holds
  <1>7. CASE t.kind = "finalize"
    <2>1. Finalizes(o)
      BY <1>7 DEF Finalizes, NoTxn
    <2>2. /\ t.cmd \in Commands /\ KnowsPlayers(o) /\ KnowsMatch(o)
          /\ First(t.cmd) \in Users /\ Second(t.cmd) \in Users
      BY <2>1, FinalizeFields, CommandFields
    <2>3. KnowsPlayers(o)'
      <3>1. txn'[o] = txn[o] /\ KnowsPlayers(o)
        BY <1>2, <2>2
      <3>2. Holds(o, KeyRow(txn[o].cmd.key)) => Holds(o, KeyRow(txn[o].cmd.key))'
        BY <1>2, <3>1 DEF Holds
      <3>3. /\ RatingRead(o, First(txn[o].cmd)) => RatingRead(o, First(txn[o].cmd))'
            /\ RatingRead(o, Second(txn[o].cmd)) => RatingRead(o, Second(txn[o].cmd))'
        BY <1>6, <2>2, <3>1
      <3>4. Holds(o, KeyRow(txn[o].cmd.key)) /\ txn[o].cmd.key \notin DOMAIN results
               => txn[o].cmd.key \notin DOMAIN results'
        BY <1>5
      <3> QED BY <3>1, <3>2, <3>3, <3>4 DEF KnowsPlayers
    <2>4. CASE c.slot = NoSlot
      <3>1. bracket' = bracket
        BY <1>1, <2>4 DEF Finalized
      <3>2. KnowsMatch(o)'
        BY <1>2, <2>2, <3>1 DEF KnowsMatch, Holds, Linkable
      <3> QED BY <1>2, <1>7, <2>3, <3>2 DEF Knows
    <2>5. CASE c.slot # NoSlot
      <3>1. ~Holds(o, CupRow) /\ ~Holds(o, SlotRow(c.slot))
        BY <1>3, <2>5, Alone
      <3>2. IsTable(bracket, Slots, Rows) /\ c.slot \in DOMAIN bracket
            /\ bracket' = Advanced(bracket, c)
        BY <1>1, <2>5 DEF Finalized, Inv, TypeOK
      <3>3. \A m \in DOMAIN bracket : m \in DOMAIN bracket' /\ (m # c.slot => bracket'[m] = bracket[m])
        BY <1>1, <3>2, AdvancedAt
      <3>4. t.cmd.slot # NoSlot => t.stage \notin {"link", "commit"}
        BY <2>2, <3>1 DEF KnowsMatch
      <3>5. t.cmd.slot # NoSlot /\ t.stage = "lockCup" => t.cmd.slot # c.slot
        BY <2>2, <3>1 DEF KnowsMatch
      <3>6. KnowsMatch(o)'
        BY <1>2, <2>2, <3>3, <3>4, <3>5 DEF KnowsMatch, Holds
      <3> QED BY <1>2, <1>7, <2>3, <3>6 DEF Knows
    <2> QED BY <2>4, <2>5
  <1>8. CASE t.kind = "join"
    BY <1>1, <1>2, <1>4, <1>8 DEF Knows, KnowsEntry, Holds
  <1>9. CASE t.kind \notin {"join", "finalize"}
    BY <1>2, <1>9 DEF Knows
  <1> QED BY <1>7, <1>8, <1>9

LEMMA EnteredOthers ==
    ASSUME Inv, NEW s \in Sessions, CommitEntry(s), NEW o \in Sessions \ {s}
    PROVE  Knows(o)'
  <1> DEFINE t == txn[o]
  <1>1. /\ Entered(txn[s].user) /\ KnowsEntry(s) /\ Knows(o) /\ txn[s].stage = "commit"
    BY CommitIsEntered, JoinFields DEF CommitEntry, At, Inv
  <1>2. t = txn'[o] /\ locks'[o] = locks[o]
    BY EndedOthers DEF CommitEntry
  <1>3. ~Holds(o, CupRow)
    BY <1>1, Alone DEF KnowsEntry
  <1>4. UNCHANGED <<users, results>> /\ DOMAIN bracket = {}
    BY <1>1 DEF Entered, Inv, Room
  <1>5. CASE t.kind = "finalize"
    <2>1. KnowsPlayers(o) /\ KnowsMatch(o)
      BY <1>1, <1>5 DEF Knows
    <2>2. KnowsPlayers(o)'
      BY <1>2, <1>4, <2>1 DEF KnowsPlayers, RatingRead, Holds
    <2>3. t.cmd.slot # NoSlot => t.stage \notin {"lockCup", "link", "commit"}
      BY <1>4, <2>1 DEF KnowsMatch
    <2>4. KnowsMatch(o)'
      BY <1>2, <2>3 DEF KnowsMatch
    <2> QED BY <1>2, <1>5, <2>2, <2>4 DEF Knows
  <1>6. CASE t.kind = "join"
    <2>1. t.stage \notin {"enter", "commit"} \cup SeedStages
      BY <1>1, <1>3, <1>6 DEF Knows, KnowsEntry
    <2> QED BY <1>2, <1>6, <2>1 DEF Knows, KnowsEntry
  <1>7. CASE t.kind \notin {"join", "finalize"}
    BY <1>2, <1>7 DEF Knows
  <1> QED BY <1>5, <1>6, <1>7

\* The two tables differ at most in the status of the unfinished match m.
SameButStatus(rows, after, m) ==
    /\ IsTable(after, Slots, Rows) /\ DOMAIN after = DOMAIN rows
    /\ \A n \in DOMAIN rows : n # m => after[n] = rows[n]
    /\ rows[m].status # "finished" /\ after[m].status # "finished"
    /\ after[m].winner = rows[m].winner

\* What a result adds to the bracket does not depend on the start of another
\* match.
LEMMA PendingStarted ==
    ASSUME NEW rows, IsTable(rows, Slots, Rows), NEW c \in Commands, c.slot \in DOMAIN rows,
           NEW m \in DOMAIN rows, m # c.slot, NEW after, SameButStatus(rows, after, m)
    PROVE  Pending(after, c) = Pending(rows, c)
  <1>1. MakesFinal(after, c) <=> MakesFinal(rows, c)
    BY DEF MakesFinal, SameButStatus
  <1>2. \A n \in DOMAIN rows : Winner(after, c, n) = Winner(rows, c, n)
    BY DEF Winner, SameButStatus
  <1> DEFINE A == Advanced(rows, c)
             B == Advanced(after, c)
             S == {n \in DOMAIN A : n = c.slot \/ n \notin DOMAIN rows}
             T == {n \in DOMAIN B : n = c.slot \/ n \notin DOMAIN after}
  <1>3. /\ \A n : n \in DOMAIN A <=> n \in DOMAIN rows \/ (MakesFinal(rows, c) /\ n = "final")
        /\ A[c.slot] = Decided(rows[c.slot], c)
        /\ MakesFinal(rows, c) => A["final"] = Pairing(Winner(rows, c, "semifinal1"),
                                                       Winner(rows, c, "semifinal2"))
    BY AdvancedAt DEF SameButStatus
  <1>4. /\ \A n : n \in DOMAIN B <=> n \in DOMAIN after \/ (MakesFinal(after, c) /\ n = "final")
        /\ B[c.slot] = Decided(after[c.slot], c)
        /\ MakesFinal(after, c) => B["final"] = Pairing(Winner(after, c, "semifinal1"),
                                                        Winner(after, c, "semifinal2"))
    BY AdvancedAt DEF SameButStatus
  <1>5. Pending(rows, c) = [n \in S |-> A[n]] /\ Pending(after, c) = [n \in T |-> B[n]]
    BY DEF Pending, Restrict
  <1> HIDE DEF A, B
  <1>6. S = T
    BY <1>1, <1>3, <1>4 DEF SameButStatus
  <1>7. A[c.slot] = B[c.slot]
    BY <1>3, <1>4 DEF SameButStatus
  <1>8. MakesFinal(rows, c) => A["final"] = B["final"]
    <2>1. MakesFinal(rows, c) => "semifinal1" \in DOMAIN rows /\ "semifinal2" \in DOMAIN rows
      BY DEF MakesFinal, Semifinals
    <2> QED BY <1>1, <1>2, <1>3, <1>4, <2>1
  <1>9. \A n \in S : A[n] = B[n]
    BY <1>3, <1>7, <1>8
  <1> HIDE DEF S, T
  <1> QED BY <1>5, <1>6, <1>9

LEMMA StartIsStarted ==
    ASSUME Inv, NEW m \in Slots, StartTournamentMatch(m)
    PROVE  Inv' /\ Started(m)
  <1>1. /\ Started(m) /\ UNCHANGED <<users, results, entries, cup, history, locks, txn>>
        /\ bracket' = [bracket EXCEPT ![m].status = "running"] /\ m \in DOMAIN bracket
        /\ bracket[m].status # "finished"
        /\ \A o \in Sessions : ~Holds(o, SlotRow(m))
    BY DEF StartTournamentMatch, Started, Holds
  <1>2. BracketFollows' /\ Room' /\ IsTable(bracket', Slots, Rows)
    BY <1>1, StartedFollows
  <1>3. TypeOK'
    BY <1>1, <1>2 DEF Inv, TypeOK, Idle, Finalizes
  <1>4. Exclusive'
    BY <1>1 DEF Inv, Exclusive
  <1>5. ASSUME NEW o \in Sessions PROVE Knows(o)'
    <2> DEFINE t == txn[o]
    <2>1. Knows(o) /\ t = txn'[o] /\ locks'[o] = locks[o]
      BY <1>1 DEF Inv
    <2>2. CASE t.kind = "finalize"
      <3>1. Finalizes(o)
        BY <2>2 DEF Finalizes, NoTxn
      <3>2. t.cmd \in Commands /\ KnowsPlayers(o) /\ KnowsMatch(o)
        BY <3>1, FinalizeFields
      <3>3. KnowsPlayers(o)'
        BY <1>1, <3>2 DEF KnowsPlayers, RatingRead, Holds
      <3>4. KnowsMatch(o)'
        <4>1. CASE t.cmd.slot # NoSlot /\ t.stage \in {"lockCup", "link", "commit"}
          <5>1. t.cmd.slot \in DOMAIN bracket /\ t.cmd.slot # m
            BY <1>1, <3>2, <4>1 DEF KnowsMatch
          <5>2. t.cmd.slot \in DOMAIN bracket' /\ bracket'[t.cmd.slot] = bracket[t.cmd.slot]
            BY <1>1, <5>1
          <5>3. IsTable(bracket, Slots, Rows)
            BY DEF Inv, TypeOK
          <5>4. Pending(bracket', t.cmd) = Pending(bracket, t.cmd)
            <6>1. /\ DOMAIN bracket' = DOMAIN bracket
                  /\ bracket'[m] = [bracket[m] EXCEPT !.status = "running"]
                  /\ \A n \in DOMAIN bracket : n # m => bracket'[n] = bracket[n]
              BY <1>1, <5>3 DEF IsTable
            <6>2. bracket[m] \in Rows
              BY <1>1, <5>3 DEF IsTable
            <6>3. bracket'[m].status # "finished" /\ bracket'[m].winner = bracket[m].winner
              BY <6>1, <6>2 DEF Rows
            <6>4. IsTable(bracket', Slots, Rows)
              BY <1>2
            <6>5. SameButStatus(bracket, bracket', m)
              BY <1>1, <6>1, <6>3, <6>4 DEF SameButStatus
            <6>6. m \in DOMAIN bracket /\ m # t.cmd.slot /\ t.cmd \in Commands
              BY <1>1, <3>2, <5>1
            <6> HIDE DEF t
            <6> QED BY <5>1, <5>3, <6>5, <6>6, PendingStarted
          <5> QED BY <1>1, <3>2, <4>1, <5>1, <5>2, <5>4 DEF KnowsMatch, Holds, Linkable
        <4>2. CASE ~(t.cmd.slot # NoSlot /\ t.stage \in {"lockCup", "link", "commit"})
          BY <1>1, <4>2 DEF KnowsMatch
        <4> QED BY <4>1, <4>2
      <3> QED BY <2>1, <2>2, <3>3, <3>4 DEF Knows
    <2>3. CASE t.kind = "join"
      BY <1>1, <2>1, <2>3 DEF Knows, KnowsEntry, Holds
    <2>4. CASE t.kind \notin {"join", "finalize"}
      BY <1>1, <2>4 DEF Knows
    <2> QED BY <2>2, <2>3, <2>4
  <1> QED BY <1>1, <1>2, <1>3, <1>4, <1>5 DEF Inv

LEMMA CommitInv ==
    ASSUME Inv, NEW s \in Sessions, CommitResult(s) \/ CommitEntry(s)
    PROVE  Inv'
  <1>1. /\ DOMAIN txn' = Sessions /\ DOMAIN locks' = Sessions
        /\ txn'[s] = NoTxn /\ Exclusive'
        /\ \A o \in Sessions \ {s} : txn'[o] = txn[o]
    BY EndedOthers DEF CommitResult, CommitEntry
  <1>2. \A o \in Sessions \ {s} : Knows(o)'
    BY FinalizedOthers, EnteredOthers
  <1>3. Knows(s)'
    BY <1>1 DEF Knows, NoTxn
  <1>4. \A o \in Sessions : Typed(txn'[o])
    BY <1>1 DEF Inv, TypeOK, Typed, Idle, Finalizes
  <1>5. \A o \in Sessions :
          \/ Idle(o)'
          \/ txn'[o] \in Joining
          \/ /\ Finalizes(o)' /\ txn'[o] \in Finalizing(txn'[o].written)
             /\ IsTable(txn'[o].written, Slots, Rows)
    BY <1>4 DEF Typed, Idle, Finalizes
  <1>6. CASE CommitResult(s)
    <2> DEFINE c == txn[s].cmd
    <2>1. /\ c \in Commands /\ Finalized(c)
          /\ users' \in [Users -> [rating : Ratings, wins : Nat, losses : Nat]]
          /\ history' \subseteq [key : Keys, user : Users, before : Int, after : Int]
      BY <1>6, CommitIsFinalized
    <2>2. entries' = entries /\ entries \in Seq(Users)
      BY <2>1 DEF Finalized, Inv, TypeOK
    <2> HIDE DEF c
    <2>3. /\ BracketFollows' /\ Room' /\ IsTable(bracket', Slots, Rows)
          /\ IsTable(results', Keys, [winner : Users, loser : Users])
          /\ cup' \in [status : {"open", "running", "finished"}, winner : Users \cup {NoUser}]
      BY <2>1, FinalizedFollows
    <2>4. TypeOK'
      BY <1>1, <1>5, <2>1, <2>2, <2>3 DEF TypeOK
    <2> QED BY <1>1, <1>2, <1>3, <2>3, <2>4 DEF Inv
  <1>7. CASE CommitEntry(s)
    <2> DEFINE u == txn[s].user
    <2>1. u \in Users /\ Entered(u) /\ UNCHANGED <<users, results, history>>
      BY <1>7, CommitIsEntered DEF CommitEntry
    <2> HIDE DEF u
    <2>2. /\ BracketFollows' /\ Room' /\ IsTable(bracket', Slots, Rows) /\ entries' \in Seq(Users)
          /\ cup' \in [status : {"open", "running", "finished"}, winner : Users \cup {NoUser}]
      BY <2>1, EnteredFollows
    <2>3. TypeOK'
      BY <1>1, <1>5, <2>1, <2>2 DEF Inv, TypeOK
    <2> QED BY <1>1, <1>2, <1>3, <2>2, <2>3 DEF Inv
  <1> QED BY <1>6, <1>7

-----------------------------------------------------------------------------
(* The theorems *)

LEMMA InitInv == Init => Inv
  <1> SUFFICES ASSUME Init PROVE Inv
    OBVIOUS
  <1>1. users \in [Users -> [rating : Ratings, wins : Nat, losses : Nat]]
    BY RatingAssumption DEF Init, NewUsers
  <1>2. /\ entries \in Seq(Users) /\ Len(entries) < Capacity /\ Len(entries) \in Nat
        /\ \A i, j \in DOMAIN entries : entries[i] = entries[j] => i = j
    BY EarlyAssumption DEF Init
  <1>3. DOMAIN results = {} /\ DOMAIN bracket = {} /\ history = {}
        /\ DOMAIN locks = Sessions /\ DOMAIN txn = Sessions
        /\ \A s \in Sessions : locks[s] = {} /\ txn[s] = NoTxn
    BY DEF Init
  <1>4. cup.status = "open" /\ cup.winner = NoUser
        /\ cup \in [status : {"open", "running", "finished"}, winner : Users \cup {NoUser}]
    BY DEF Init, OpenCup
  <1>5. IsTable(results, Keys, [winner : Users, loser : Users]) /\ IsTable(bracket, Slots, Rows)
    BY DEF Init, IsTable
  <1>6. TypeOK
    BY <1>1, <1>2, <1>3, <1>4, <1>5 DEF TypeOK, Idle
  <1>7. Exclusive
    BY <1>3 DEF Exclusive
  <1>8. Room
    BY <1>2, <1>3, <1>4 DEF Room, Capacity
  <1>9. BracketFollows
    <2>1. ~BothDecided(bracket) /\ ~(Semifinals \subseteq DOMAIN bracket)
      BY <1>3 DEF BothDecided, Semifinals
    <2>2. Len(entries) # Capacity
      <3>1. \A n \in Nat : n < Capacity => n # Capacity
        BY DEF Capacity
      <3> QED BY <1>2, <3>1
    <2> QED BY <1>2, <1>3, <1>4, <2>1, <2>2 DEF BracketFollows
  <1>10. \A s \in Sessions : Knows(s)
    BY <1>3 DEF Knows, NoTxn
  <1> QED BY <1>6, <1>7, <1>8, <1>9, <1>10 DEF Inv

\* What a step is: one commit or start as if it were alone, or nothing.
LEMMA NextInv ==
    ASSUME Inv, [Next]_vars
    PROVE  /\ Inv'
           /\ \/ UNCHANGED <<users, results, entries, cup, bracket>>
              \/ \E c \in Commands : Finalized(c)
              \/ \E u \in Users : Entered(u)
              \/ \E m \in Slots : Started(m)
  <1>1. CASE UNCHANGED vars
    <2>1. UNCHANGED <<users, results, entries, cup, bracket, history, locks, txn>>
      BY <1>1 DEF vars
    <2>2. TypeOK' /\ Exclusive' /\ Room' /\ BracketFollows'
      BY <2>1 DEF Inv, TypeOK, Exclusive, Room, BracketFollows, BothDecided, Idle, Finalizes
    <2>3. \A s \in Sessions : Knows(s)'
      BY <2>1 DEF Inv, Knows, KnowsPlayers, KnowsMatch, KnowsEntry, RatingRead, Holds, Linkable
    <2> QED BY <2>1, <2>2, <2>3 DEF Inv
  <1>2. ASSUME NEW s \in Sessions,
               \/ AnswerExisting(s) \/ RefuseLink(s) \/ RefuseJoin(s) \/ Rollback(s)
               \/ BreakDeadlock(s)
        PROVE  Inv' /\ UNCHANGED tables
    BY <1>2, EndsInv DEF AnswerExisting, RefuseLink, RefuseJoin, Rollback, BreakDeadlock
  <1>3. ASSUME NEW s \in Sessions,
               \/ InsertResult(s) \/ CheckWinner(s) \/ CheckLoser(s) \/ LockCup(s)
               \/ LockFirst(s) \/ LockSecond(s) \/ LockMatch(s) \/ Link(s)
               \/ TakeSeed(s) \/ Enter(s) \/ CheckSeeds(s)
        PROVE  Inv' /\ UNCHANGED tables
    <2>1. Inv'
      BY <1>3, LocksInv, LockUserInv, LockMatchInv, LinkInv, JoinStepsInv
    <2>2. UNCHANGED tables
      BY <1>3 DEF InsertResult, CheckWinner, CheckLoser, LockCup, LockFirst, LockSecond,
                  LockUser, LockMatch, Link, TakeSeed, Enter, CheckSeeds
    <2> QED BY <2>1, <2>2
  <1>4. ASSUME NEW s \in Sessions,
               \/ \E c \in Commands : BeginFinalize(s, c)
               \/ \E u \in Users : BeginJoin(s, u)
        PROVE  Inv' /\ UNCHANGED tables
    <2>1. Inv'
      BY <1>4, BeginInv
    <2>2. UNCHANGED tables
      BY <1>4 DEF BeginFinalize, BeginJoin
    <2> QED BY <2>1, <2>2
  <1>5. ASSUME NEW s \in Sessions, CommitResult(s)
        PROVE  Inv' /\ \E c \in Commands : Finalized(c)
    BY <1>5, CommitInv, CommitIsFinalized
  <1>6. ASSUME NEW s \in Sessions, CommitEntry(s)
        PROVE  Inv' /\ \E u \in Users : Entered(u)
    BY <1>6, CommitInv, CommitIsEntered
  <1>7. ASSUME NEW m \in Slots, StartTournamentMatch(m)
        PROVE  Inv' /\ Started(m)
    BY <1>7, StartIsStarted
  <1>8. UNCHANGED tables => UNCHANGED <<users, results, entries, cup, bracket>>
    BY DEF tables
  <1>9. CASE Next
    <2>1. CASE \E m \in Slots : StartTournamentMatch(m)
      BY <2>1, <1>7
    <2>2. CASE \E s \in Sessions : CommitResult(s) \/ CommitEntry(s)
      BY <2>2, <1>5, <1>6
    <2>3. CASE \E s \in Sessions :
                 \/ AnswerExisting(s) \/ RefuseLink(s) \/ RefuseJoin(s) \/ Rollback(s)
                 \/ BreakDeadlock(s)
      BY <2>3, <1>2, <1>8
    <2>4. CASE \E s \in Sessions :
                 \/ InsertResult(s) \/ CheckWinner(s) \/ CheckLoser(s) \/ LockCup(s)
                 \/ LockFirst(s) \/ LockSecond(s) \/ LockMatch(s) \/ Link(s)
                 \/ TakeSeed(s) \/ Enter(s) \/ CheckSeeds(s)
      BY <2>4, <1>3, <1>8
    <2>5. CASE \E s \in Sessions : \/ \E c \in Commands : BeginFinalize(s, c)
                                   \/ \E u \in Users : BeginJoin(s, u)
      BY <2>5, <1>4, <1>8
    <2> QED BY <1>9, <2>1, <2>2, <2>3, <2>4, <2>5 DEF Next, Step
  <1> QED BY <1>1, <1>9

LEMMA Invariance == Spec => []Inv
<1>1. Inv /\ [Next]_vars => Inv'
  BY NextInv
<1> QED BY <1>1, InitInv, PTL DEF Spec

\* The tables and what each transaction keeps are of the kinds the code
\* declares, and no two sessions hold locks that conflict (the schema, and the
\* row locks of finalizeMatch and joinTournament).
THEOREM TypeCorrect == Spec => [](TypeOK /\ Exclusive)
<1>1. Inv => TypeOK /\ Exclusive
  BY DEF Inv
<1> QED BY <1>1, Invariance, PTL

\* The bracket follows from the entries and the results, for any players,
\* commands and number of connections (joinTournament, finalizeMatch).
THEOREM BracketIsRight == Spec => []BracketFollows
<1>1. Inv => BracketFollows
  BY DEF Inv
<1> QED BY <1>1, Invariance, PTL

LEMMA StepStands == ASSUME Inv, [Next]_vars PROVE Stand
  <1>1. CASE UNCHANGED <<users, results, entries, cup, bracket>>
    BY <1>1 DEF Stand
  <1>2. ASSUME NEW c \in Commands, Finalized(c) PROVE Stand
    BY <1>2, FinalizedFollows
  <1>3. ASSUME NEW u \in Users, Entered(u) PROVE Stand
    BY <1>3, EnteredFollows
  <1>4. ASSUME NEW m \in Slots, Started(m) PROVE Stand
    BY <1>4, StartedFollows
  <1> QED BY <1>1, <1>2, <1>3, <1>4, NextInv

\* What was decided stands: results, linked matches and seeds do not change and
\* the tournament does not go back (startTournamentMatch, finalizeMatch).
THEOREM Decisions == Spec => DecisionsStand
<1>1. Inv /\ [Next]_vars => [Stand]_vars
  BY StepStands
<1>2. [][Stand]_vars => DecisionsStand
  BY PTL DEF Stand, DecisionsStand
<1> QED BY <1>1, <1>2, Invariance, PTL DEF Spec

LEMMA StepImplements == ASSUME Inv, [Next]_vars PROVE [Memory!Next]_Memory!vars
  <1> USE DEF Memory!Next, Memory!vars
  <1>1. CASE UNCHANGED <<users, results, entries, cup, bracket>>
    BY <1>1
  <1>2. ASSUME NEW c \in Commands, Finalized(c) PROVE Memory!FinalizeMatch(c)
    BY <1>2 DEF Finalized, Memory!FinalizeMatch, Put, Memory!Put, Participants,
                Memory!Participants, Rated, Memory!Rated, Won, Memory!Won, Lost, Memory!Lost,
                RatingWon, Memory!RatingWon, RatingLost, Memory!RatingLost, Advanced,
                Memory!Advanced, Decided, Memory!Decided, BothDecided, Memory!BothDecided,
                Ensure, Memory!Ensure, Pairing, Memory!Pairing, Crowned, Memory!Crowned,
                Semifinals, Memory!Semifinals
  <1>3. ASSUME NEW u \in Users, Entered(u) PROVE Memory!JoinTournament(u)
    <2>1. /\ entries \in Seq(Users) /\ Len(entries) \in Nat /\ Len(Append(entries, u)) = Len(entries) + 1
      BY DEF Inv, TypeOK
    <2>2. DOMAIN bracket = {} /\ cup = [cup EXCEPT !.status = "open"]
      BY <1>3 DEF Entered, Inv, Room, TypeOK
    <2>3. /\ SemifinalRows(bracket, entries') = Memory!SemifinalRows(bracket, entries')
          /\ Memory!Capacity = Capacity /\ Range(entries) = Memory!Range(entries)
          /\ Memory!Semifinals \cap DOMAIN bracket = {}
      BY <2>2 DEF SemifinalRows, Memory!SemifinalRows, Ensure, Memory!Ensure, Put, Memory!Put,
                  Pairing, Memory!Pairing, Capacity, Memory!Capacity, Range, Memory!Range
    <2>4. /\ u \notin Range(entries) /\ Len(entries) < Capacity
          /\ entries' = Append(entries, u) /\ UNCHANGED <<users, results>>
          /\ Len(entries') = Len(entries) + 1
      BY <1>3, <2>1 DEF Entered
    <2>5. CASE Len(entries) + 1 >= Capacity
      <3>1. cup' = [cup EXCEPT !.status = "running"] /\ bracket' = SemifinalRows(bracket, entries')
        BY <1>3, <2>5 DEF Entered
      <3> QED BY <2>3, <2>4, <2>5, <3>1 DEF Memory!JoinTournament
    <2>6. CASE ~(Len(entries) + 1 >= Capacity)
      <3>1. cup' = cup /\ bracket' = bracket
        BY <1>3, <2>6 DEF Entered
      <3> QED BY <2>2, <2>3, <2>4, <2>6, <3>1 DEF Memory!JoinTournament
    <2> QED BY <2>5, <2>6
  <1>4. ASSUME NEW m \in Slots, Started(m) PROVE m \in Memory!Slots /\ Memory!StartTournamentMatch(m)
    BY <1>4 DEF Started, Memory!StartTournamentMatch, Slots, Memory!Slots, Semifinals,
                Memory!Semifinals
  <1> QED BY <1>1, <1>2, <1>3, <1>4, NextInv

\* Transactions that overlap, wait, fail and are repeated change users, results
\* and the tournament as the methods of the memory repository do, one at a time.
THEOREM Refines == Spec => ImplementsMemory
<1>1. Init => Memory!Init
  BY DEF Init, Memory!Init, NewUsers, Memory!NewUsers, OpenCup, Memory!OpenCup
<1>2. Inv /\ [Next]_vars => [Memory!Next]_Memory!vars
  BY StepImplements
<1> QED BY <1>1, <1>2, Invariance, PTL DEF Spec, ImplementsMemory, Memory!Spec

-----------------------------------------------------------------------------
(* The ledger *)

LEMMA PointsMember ==
    ASSUME NEW H, NEW from, NEW to, NEW e
    PROVE  e \in Points(H, from, to) <=>
              \E h \in H : \E p \in (h[from] + 1)..h[to] : e = <<h, p>>
  BY DEF Points

\* A row more adds the points between its two ratings.
LEMMA PointsAdded ==
    ASSUME NEW H, NEW row, row \notin H, NEW from, NEW to,
           row[from] \in Int, row[to] \in Int, IsFiniteSet(Points(H, from, to))
    PROVE  /\ IsFiniteSet(Points(H \cup {row}, from, to))
           /\ row[from] <= row[to] =>
                Cardinality(Points(H \cup {row}, from, to)) =
                    Cardinality(Points(H, from, to)) + (row[to] - row[from])
           /\ row[to] <= row[from] =>
                Points(H \cup {row}, from, to) = Points(H, from, to)
  <1> DEFINE lo == row[from] + 1
             hi == row[to]
             D == lo..hi
             New == {<<row, p>> : p \in D}
             f == [p \in D |-> <<row, p>>]
  <1>1. lo \in Int /\ hi \in Int
    OBVIOUS
  <1>2. IsFiniteSet(D) /\ Cardinality(D) = IF lo > hi THEN 0 ELSE hi - lo + 1
    <2> HIDE DEF lo, hi
    <2> QED BY <1>1, FS_Interval
  <1>3. IsFiniteSet(New) /\ Cardinality(New) = Cardinality(D)
    <2>1. f \in [D -> New]
      OBVIOUS
    <2>2. \A p, q \in D : f[p] = f[q] => p = q
      <3> HIDE DEF D
      <3> QED OBVIOUS
    <2>3. \A e \in New : \E p \in D : f[p] = e
      <3> HIDE DEF D
      <3> QED OBVIOUS
    <2> HIDE DEF D, New, f
    <2>4. f \in Surjection(D, New)
      BY <2>1, <2>3 DEF Surjection
    <2>5. f \in Injection(D, New)
      BY <2>1, <2>2 DEF Injection, IsInjective
    <2> QED BY <1>2, <2>4, <2>5, FS_Surjection
  <1>4. Points(H \cup {row}, from, to) = Points(H, from, to) \cup New
    <2>1. ASSUME NEW e
          PROVE  e \in Points(H \cup {row}, from, to) <=> e \in Points(H, from, to) \/ e \in New
      <3>1. e \in New <=> \E p \in (row[from] + 1)..row[to] : e = <<row, p>>
        OBVIOUS
      <3> HIDE DEF New
      <3> QED BY <3>1, PointsMember
    <2> QED BY <2>1
  <1>5. Points(H, from, to) \cap New = {}
    <2>1. ASSUME NEW e \in Points(H, from, to), e \in New PROVE FALSE
      <3>1. PICK h \in H : \E p \in (h[from] + 1)..h[to] : e = <<h, p>>
        BY PointsMember
      <3>2. PICK q \in D : e = <<row, q>>
        BY <2>1
      <3>3. h = row
        <4> HIDE DEF D
        <4> QED BY <3>1, <3>2
      <3> QED BY <3>3
    <2> QED BY <2>1
  <1>6. row[to] <= row[from] => New = {}
    BY <1>1
  <1> HIDE DEF D, New
  <1>7. /\ IsFiniteSet(Points(H, from, to) \cup New)
        /\ Cardinality(Points(H, from, to) \cup New)
              = Cardinality(Points(H, from, to)) + Cardinality(New)
    <2>1. Cardinality(Points(H, from, to)) \in Nat /\ Cardinality(New) \in Nat
      BY <1>3, FS_CardinalityType
    <2>2. Cardinality({}) = 0
      BY FS_EmptySet
    <2> DEFINE P == Points(H, from, to)
    <2>3. IsFiniteSet(P) /\ IsFiniteSet(New) /\ P \cap New = {}
      BY <1>3, <1>5
    <2> HIDE DEF P
    <2>4. /\ IsFiniteSet(P \cup New)
          /\ Cardinality(P \cup New) = Cardinality(P) + Cardinality(New) - Cardinality(P \cap New)
      BY <2>3, FS_Union
    <2>5. Cardinality(P) \in Nat /\ Cardinality(New) \in Nat
      BY <2>3, FS_CardinalityType
    <2>6. Cardinality(P \cap New) = 0
      BY <2>2, <2>3
    <2>7. Cardinality(P \cup New) = Cardinality(P) + Cardinality(New)
      BY <2>4, <2>5, <2>6
    <2> QED BY <2>4, <2>7 DEF P
  <1>8. row[from] <= row[to] => Cardinality(New) = row[to] - row[from]
    <2>1. row[from] <= row[to] =>
             (IF row[from] + 1 > row[to] THEN 0 ELSE row[to] - (row[from] + 1) + 1)
                = row[to] - row[from]
      OBVIOUS
    <2> QED BY <1>2, <1>3, <2>1
  <1> QED BY <1>4, <1>6, <1>7, <1>8

\* Only results that are there have rows, and there are finitely many of both.
LedgerInv ==
    /\ LedgerBalanced
    /\ IsFiniteSet(DOMAIN results)
    /\ \A h \in history : h.key \in DOMAIN results
    /\ \A u \in Users : /\ IsFiniteSet(Points(HistoryOf(u), "before", "after"))
                        /\ IsFiniteSet(Points(HistoryOf(u), "after", "before"))

\* What a commit writes: the two rows of the history start from the ratings rw
\* and rl of the winner and the loser.
Written(c, rw, rl) ==
    /\ c.key \notin DOMAIN results
    /\ rw = users[c.winner].rating /\ rl = users[c.loser].rating
    /\ results' = Put(results, c.key, [winner |-> c.winner, loser |-> c.loser])
    /\ users' = [users EXCEPT ![c.winner] = Won(@, rw), ![c.loser] = Lost(@, rl)]
    /\ history' = history \cup
         {[key |-> c.key, user |-> c.winner, before |-> rw, after |-> RatingWon(rw)],
          [key |-> c.key, user |-> c.loser, before |-> rl, after |-> RatingLost(rl)]}

\* They are the ratings of the moment of the commit, because both users have
\* been locked since they were read.
LEMMA CommitWrites ==
    ASSUME Inv, NEW s \in Sessions, CommitResult(s)
    PROVE  \E c \in Commands : \E rw, rl \in Int : Written(c, rw, rl)
  <1> DEFINE t == txn[s]
             c == txn[s].cmd
  <1>1. /\ t.stage = "commit" /\ c \in Commands /\ t.rating \in [Users -> Int]
        /\ KnowsPlayers(s)
    BY FinalizeFields DEF CommitResult, At
  <1>2. /\ t.rating[First(c)] = users[First(c)].rating
        /\ t.rating[Second(c)] = users[Second(c)].rating
        /\ c.key \notin DOMAIN results
    BY <1>1 DEF KnowsPlayers, RatingRead
  <1>3. t.rating[c.winner] = users[c.winner].rating /\ t.rating[c.loser] = users[c.loser].rating
    <2>1. c.winner \in {First(c), Second(c)} /\ c.loser \in {First(c), Second(c)}
      BY <1>1, CommandFields
    <2> QED BY <1>2, <2>1
  <1>4. t.rating[c.winner] \in Int /\ t.rating[c.loser] \in Int
    BY <1>1, CommandFields
  <1>5. /\ results' = Put(results, c.key, [winner |-> c.winner, loser |-> c.loser])
        /\ users' = [users EXCEPT ![c.winner] = Won(@, t.rating[c.winner]),
                                  ![c.loser] = Lost(@, t.rating[c.loser])]
        /\ history' = history \cup HistoryRows(s)
    BY DEF CommitResult, Rated
  <1>6. Written(c, t.rating[c.winner], t.rating[c.loser])
    BY <1>2, <1>3, <1>5 DEF Written, HistoryRows
  <1> QED BY <1>1, <1>4, <1>6

LEMMA ResultCounted ==
    ASSUME NEW K, IsFiniteSet(K), NEW k, k \notin K, NEW P, NEW Q,
           P \in SUBSET K, Q = P \cup {k}
    PROVE  Cardinality(Q) = Cardinality(P) + 1
  <1>1. IsFiniteSet(P) /\ k \notin P
    BY FS_Subset
  <1> QED BY <1>1, FS_AddElement

LEMMA WrittenBalances ==
    ASSUME TypeOK, LedgerInv, NEW c \in Commands, NEW rw, NEW rl, Written(c, rw, rl)
    PROVE  LedgerInv'
  <1> DEFINE w == c.winner
             l == c.loser
             a == [key |-> c.key, user |-> w, before |-> rw, after |-> RatingWon(rw)]
             b == [key |-> c.key, user |-> l, before |-> rl, after |-> RatingLost(rl)]
             Winning(u) == {k \in DOMAIN results : results[k].winner = u}
             Losing(u) == {k \in DOMAIN results : results[k].loser = u}
             Row == [rating : Ratings, wins : Nat, losses : Nat]
  <1>1. /\ c \in Commands /\ c.key \notin DOMAIN results
        /\ results' = Put(results, c.key, [winner |-> w, loser |-> l])
        /\ users' = [users EXCEPT ![w] = Won(@, rw), ![l] = Lost(@, rl)]
        /\ history' = history \cup {a, b}
        /\ rw = users[w].rating /\ rl = users[l].rating
    BY DEF Written
  <1>2. w \in Users /\ l \in Users /\ w # l /\ users \in [Users -> Row]
    BY <1>1, CommandFields DEF TypeOK
  <1>3. /\ rw \in Ratings /\ rl \in Ratings
        /\ rw \in Int /\ rl \in Int
        /\ RatingWon(rw) \in Int /\ rw <= RatingWon(rw) /\ RatingWon(rw) = rw + (RatingWon(rw) - rw)
        /\ RatingLost(rl) \in Int /\ RatingLost(rl) <= rl
    <2>1. rw \in Ratings /\ rl \in Ratings
      BY <1>1, <1>2
    <2> QED BY <2>1 DEF Ratings, RatingWon, RatingLost
  <1>4. a \notin history /\ b \notin history
    BY <1>1 DEF LedgerInv
  <1>5. /\ users'[w] = Won(users[w], rw) /\ users'[l] = Lost(users[l], rl)
        /\ \A u \in Users \ {w, l} : users'[u] = users[u]
    BY <1>1, <1>2
  <1>6. /\ HistoryOf(w)' = HistoryOf(w) \cup {a}
        /\ HistoryOf(l)' = HistoryOf(l) \cup {b}
        /\ \A u \in Users \ {w, l} : HistoryOf(u)' = HistoryOf(u)
    BY <1>1, <1>2 DEF HistoryOf
  <1>7. /\ DOMAIN results' = DOMAIN results \cup {c.key}
        /\ results'[c.key] = [winner |-> w, loser |-> l]
        /\ \A k \in DOMAIN results : results'[k] = results[k]
    BY <1>1 DEF Put
  <1>8. /\ Winning(w)' = Winning(w) \cup {c.key} /\ Losing(l)' = Losing(l) \cup {c.key}
        /\ \A u \in Users \ {w} : Winning(u)' = Winning(u)
        /\ \A u \in Users \ {l} : Losing(u)' = Losing(u)
    BY <1>1, <1>2, <1>7
  <1>9. /\ Cardinality(Winning(w)') = Cardinality(Winning(w)) + 1
        /\ Cardinality(Losing(l)') = Cardinality(Losing(l)) + 1
    <2>1. Winning(w) \in SUBSET DOMAIN results /\ Losing(l) \in SUBSET DOMAIN results
      OBVIOUS
    <2>2. IsFiniteSet(DOMAIN results) /\ c.key \notin DOMAIN results
      BY <1>1 DEF LedgerInv
    <2> HIDE DEF Winning, Losing
    <2> QED BY <1>8, <2>1, <2>2, ResultCounted
  <1>10. /\ users'[w].rating = RatingWon(rw) /\ users'[l].rating = RatingLost(rl)
         /\ users'[w].wins = users[w].wins + 1 /\ users'[w].losses = users[w].losses
         /\ users'[l].losses = users[l].losses + 1 /\ users'[l].wins = users[l].wins
    <2>1. users[w] \in Row /\ users[l] \in Row
      BY <1>2
    <2> HIDE DEF w, l
    <2> QED BY <1>5, <2>1 DEF Won, Lost
  <1>11. /\ a["before"] = rw /\ a["after"] = RatingWon(rw)
         /\ b["before"] = rl /\ b["after"] = RatingLost(rl)
         /\ a.user = w /\ b.user = l /\ a.key = c.key /\ b.key = c.key
    OBVIOUS
  <1>12. ASSUME NEW u \in Users
         PROVE  /\ users[u].rating = StartRating[u]
                      + Cardinality(Points(HistoryOf(u), "before", "after"))
                      - Cardinality(Points(HistoryOf(u), "after", "before"))
                /\ users[u].wins = Cardinality(Winning(u))
                /\ users[u].losses = Cardinality(Losing(u))
                /\ IsFiniteSet(Points(HistoryOf(u), "before", "after"))
                /\ IsFiniteSet(Points(HistoryOf(u), "after", "before"))
                /\ StartRating[u] \in Int
                /\ Cardinality(Points(HistoryOf(u), "before", "after")) \in Nat
                /\ Cardinality(Points(HistoryOf(u), "after", "before")) \in Nat
    <2>1. /\ IsFiniteSet(Points(HistoryOf(u), "before", "after"))
          /\ IsFiniteSet(Points(HistoryOf(u), "after", "before"))
      BY DEF LedgerInv
    <2>2. StartRating[u] \in Int
      BY RatingAssumption DEF Ratings
    <2> QED BY <2>1, <2>2, FS_CardinalityType DEF LedgerInv, LedgerBalanced
  <1> DEFINE Balanced(u) ==
               /\ users'[u].rating = StartRating[u]
                    + Cardinality(Points(HistoryOf(u)', "before", "after"))
                    - Cardinality(Points(HistoryOf(u)', "after", "before"))
               /\ IsFiniteSet(Points(HistoryOf(u)', "before", "after"))
               /\ IsFiniteSet(Points(HistoryOf(u)', "after", "before"))
               /\ users'[u].wins = Cardinality(Winning(u)')
               /\ users'[u].losses = Cardinality(Losing(u)')
  <1> HIDE DEF Winning, Losing, a, b, w, l
  <1>13. Balanced(w)
    <2>1. a \notin HistoryOf(w)
      BY <1>4 DEF HistoryOf
    <2>2. /\ IsFiniteSet(Points(HistoryOf(w) \cup {a}, "before", "after"))
          /\ Cardinality(Points(HistoryOf(w) \cup {a}, "before", "after"))
                = Cardinality(Points(HistoryOf(w), "before", "after")) + (RatingWon(rw) - rw)
      BY <1>2, <1>3, <1>11, <1>12, <2>1, PointsAdded
    <2>3. Points(HistoryOf(w) \cup {a}, "after", "before") = Points(HistoryOf(w), "after", "before")
      BY <1>2, <1>3, <1>11, <1>12, <2>1, PointsAdded
    <2>4. users[w].rating = rw
      BY <1>1
    <2>5. users'[w].rating = StartRating[w]
                    + Cardinality(Points(HistoryOf(w)', "before", "after"))
                    - Cardinality(Points(HistoryOf(w)', "after", "before"))
      BY <1>2, <1>3, <1>6, <1>10, <1>12, <2>2, <2>3, <2>4
    <2> QED BY <1>2, <1>6, <1>8, <1>9, <1>10, <1>12, <2>2, <2>3, <2>5
  <1>14. Balanced(l)
    <2>1. b \notin HistoryOf(l)
      BY <1>4 DEF HistoryOf
    <2>2. /\ IsFiniteSet(Points(HistoryOf(l) \cup {b}, "after", "before"))
          /\ Cardinality(Points(HistoryOf(l) \cup {b}, "after", "before"))
                = Cardinality(Points(HistoryOf(l), "after", "before")) + (rl - RatingLost(rl))
      BY <1>2, <1>3, <1>11, <1>12, <2>1, PointsAdded
    <2>3. Points(HistoryOf(l) \cup {b}, "before", "after") = Points(HistoryOf(l), "before", "after")
      BY <1>2, <1>3, <1>11, <1>12, <2>1, PointsAdded
    <2>4. users[l].rating = rl
      BY <1>1
    <2>5. users'[l].rating = StartRating[l]
                    + Cardinality(Points(HistoryOf(l)', "before", "after"))
                    - Cardinality(Points(HistoryOf(l)', "after", "before"))
      BY <1>2, <1>3, <1>6, <1>10, <1>12, <2>2, <2>3, <2>4
    <2> QED BY <1>2, <1>6, <1>8, <1>9, <1>10, <1>12, <2>2, <2>3, <2>5
  <1>15. ASSUME NEW u \in Users, u # w, u # l PROVE Balanced(u)
    BY <1>5, <1>6, <1>8, <1>12, <1>15
  <1>16. \A u \in Users : Balanced(u)
    <2> HIDE DEF Balanced
    <2> QED BY <1>13, <1>14, <1>15
  <1>17. ASSUME NEW k \in DOMAIN results'
         PROVE  {h.user : h \in {x \in history' : x.key = k}}
                   = {results'[k].winner, results'[k].loser}
    <2>1. CASE k = c.key
      <3>1. {x \in history' : x.key = k} = {a, b}
        BY <1>1, <1>11, <2>1 DEF LedgerInv
      <3>2. {h.user : h \in {a, b}} = {w, l}
        BY <1>11
      <3> QED BY <1>7, <2>1, <3>1, <3>2
    <2>2. CASE k # c.key
      <3>1. k \in DOMAIN results
        BY <1>7, <2>2
      <3>2. {x \in history' : x.key = k} = {x \in history : x.key = k}
        BY <1>1, <1>11, <2>2
      <3> QED BY <1>7, <3>1, <3>2 DEF LedgerInv, LedgerBalanced
    <2> QED BY <2>1, <2>2
  <1>18. LedgerBalanced'
    BY <1>16, <1>17 DEF LedgerBalanced, Winning, Losing
  <1>19. IsFiniteSet(DOMAIN results')
    BY <1>7, FS_AddElement DEF LedgerInv
  <1>20. \A h \in history' : h.key \in DOMAIN results'
    BY <1>1, <1>7, <1>11 DEF LedgerInv
  <1> QED BY <1>16, <1>18, <1>19, <1>20 DEF LedgerInv

LEMMA CommitBalances ==
    ASSUME Inv, LedgerInv, NEW s \in Sessions, CommitResult(s)
    PROVE  LedgerInv'
  <1>1. PICK c \in Commands : \E rw, rl \in Int : Written(c, rw, rl)
    BY CommitWrites
  <1>2. PICK rw \in Int, rl \in Int : Written(c, rw, rl)
    BY <1>1
  <1> QED BY <1>2, WrittenBalances DEF Inv

LEMMA OtherStepsBalance ==
    ASSUME LedgerInv, UNCHANGED <<users, results, history>>
    PROVE  LedgerInv'
  BY DEF LedgerInv, LedgerBalanced, HistoryOf

LEMMA InitBalances == Init => LedgerInv
  <1> SUFFICES ASSUME Init PROVE LedgerInv
    OBVIOUS
  <1>1. /\ DOMAIN results = {} /\ history = {}
        /\ \A u \in Users : users[u] = [rating |-> StartRating[u], wins |-> 0, losses |-> 0]
    BY DEF Init, NewUsers
  <1>2. \A u \in Users : /\ Points(HistoryOf(u), "before", "after") = {}
                         /\ Points(HistoryOf(u), "after", "before") = {}
    BY <1>1, PointsMember DEF HistoryOf
  <1>3. \A u \in Users : StartRating[u] = StartRating[u] + 0 - 0
    BY RatingAssumption DEF Ratings
  <1>4. \A u \in Users : /\ {k \in DOMAIN results : results[k].winner = u} = {}
                         /\ {k \in DOMAIN results : results[k].loser = u} = {}
    BY <1>1
  <1>5. IsFiniteSet({}) /\ Cardinality({}) = 0
    BY FS_EmptySet
  <1>6. ASSUME NEW u \in Users
        PROVE  /\ users[u].rating = StartRating[u]
                    + Cardinality(Points(HistoryOf(u), "before", "after"))
                    - Cardinality(Points(HistoryOf(u), "after", "before"))
               /\ users[u].wins = Cardinality({k \in DOMAIN results : results[k].winner = u})
               /\ users[u].losses = Cardinality({k \in DOMAIN results : results[k].loser = u})
               /\ IsFiniteSet(Points(HistoryOf(u), "before", "after"))
               /\ IsFiniteSet(Points(HistoryOf(u), "after", "before"))
    <2>1. users[u].rating = StartRating[u] /\ users[u].wins = 0 /\ users[u].losses = 0
      <3>1. users[u] = [rating |-> StartRating[u], wins |-> 0, losses |-> 0]
        BY <1>1
      <3> QED BY <3>1
    <2> QED BY <1>2, <1>3, <1>4, <1>5, <2>1
  <1>7. LedgerBalanced
    BY <1>1, <1>6 DEF LedgerBalanced
  <1> QED BY <1>1, <1>5, <1>6, <1>7 DEF LedgerInv

\* For any players, results and number of connections: the ratings, wins and
\* losses are what the results and the history add up to, so no update is lost
\* and none is made twice (finalizeMatch).
THEOREM Ledger == Spec => []LedgerBalanced
<1>1. Inv /\ LedgerInv /\ [Next]_vars => LedgerInv'
  <2> SUFFICES ASSUME Inv, LedgerInv, [Next]_vars PROVE LedgerInv'
    OBVIOUS
  <2>1. ASSUME NEW s \in Sessions, Step(s) \/ Rollback(s) \/ BreakDeadlock(s)
        PROVE  CommitResult(s) \/ UNCHANGED <<users, results, history>>
    BY <2>1 DEF Step, AnswerExisting, InsertResult, CheckWinner, CheckLoser, LockFirst,
                LockSecond, LockUser, LockMatch, LockCup, Link, RefuseLink, RefuseJoin,
                TakeSeed, Enter, CheckSeeds, CommitEntry, Rollback, BreakDeadlock, tables
  <2>2. ASSUME NEW s \in Sessions, \/ \E c \in Commands : BeginFinalize(s, c)
                                   \/ \E u \in Users : BeginJoin(s, u)
        PROVE  UNCHANGED <<users, results, history>>
    BY <2>2 DEF BeginFinalize, BeginJoin, tables
  <2>3. ASSUME NEW m \in Slots, StartTournamentMatch(m)
        PROVE  UNCHANGED <<users, results, history>>
    BY <2>3 DEF StartTournamentMatch
  <2>4. (\E s \in Sessions : CommitResult(s)) \/ UNCHANGED <<users, results, history>>
    BY <2>1, <2>2, <2>3 DEF Next, vars
  <2> QED BY <2>4, CommitBalances, OtherStepsBalance
<1>2. LedgerInv => LedgerBalanced
  BY DEF LedgerInv
<1> QED BY <1>1, <1>2, InitBalances, Invariance, PTL DEF Spec

=============================================================================
