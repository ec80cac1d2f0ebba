----------------------------- MODULE AccountOps -----------------------------
(***************************************************************************)
(* Rows the two repositories keep for accounts: users, friendships and the *)
(* log of admin actions.  A friendship is stored under the unordered pair  *)
(* of its users, as the unique index of the table has it.                  *)
(***************************************************************************)
EXTENDS Naturals, Sequences

CONSTANTS
    Users,      \* handles; an id stands and falls with its handle
    Tokens      \* values of the session cookie

Roles == {"user", "admin"}
Statuses == {"active", "banned"}
Pairs == {{u, v} : u \in Users, v \in Users}

Put(f, k, v) == [x \in DOMAIN f \cup {k} |-> IF x = k THEN v ELSE f[x]]

\* A development login makes the account or takes its role away.
DevUser(users, u) ==
    [role |-> "user", status |-> IF u \in DOMAIN users THEN users[u].status ELSE "active"]

\* Mutant: a request against the direction of the row changes nothing.
RequestedKeeping(rows, a, b) ==
    IF {a, b} \notin DOMAIN rows
    THEN [requester |-> a, addressee |-> b, status |-> "pending"]
    ELSE rows[{a, b}]

\* What a request of a to b leaves of the row of the two.
Requested(rows, a, b) ==
    IF {a, b} \notin DOMAIN rows
    THEN [requester |-> a, addressee |-> b, status |-> "pending"]
    ELSE [rows[{a, b}] EXCEPT !.status =
             IF @ = "pending" /\ rows[{a, b}].requester = b THEN "accepted" ELSE @]

BanStatus(banned) == IF banned THEN "banned" ELSE "active"
=============================================================================
