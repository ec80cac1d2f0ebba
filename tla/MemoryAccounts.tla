--------------------------- MODULE MemoryAccounts ---------------------------
(***************************************************************************)
(* The accounts of the memory repository: every method is one step.  It is *)
(* what the statements and transactions of Accounts have to add up to.     *)
(***************************************************************************)
EXTENDS AccountOps

CONSTANT Early      \* the seeded users

VARIABLES
    users,          \* role and status of each user
    sessions,       \* the user of each session token
    friendships,    \* rows by unordered pair
    log             \* admin actions, oldest first

vars == <<users, sessions, friendships, log>>

Init ==
    /\ users = Early
    /\ sessions = <<>>
    /\ friendships = <<>>
    /\ log = <<>>

UpsertDevUser(u) ==
    /\ users' = Put(users, u, DevUser(users, u))
    /\ UNCHANGED <<sessions, friendships, log>>

CreateSession(t, u) ==
    /\ t \notin DOMAIN sessions
    /\ sessions' = Put(sessions, t, u)
    /\ UNCHANGED <<users, friendships, log>>

DeleteSession(t) ==
    /\ sessions' = [x \in DOMAIN sessions \ {t} |-> sessions[x]]
    /\ UNCHANGED <<users, friendships, log>>

SetUserRole(u, role) ==
    /\ u \in DOMAIN users
    /\ users' = [users EXCEPT ![u].role = role]
    /\ UNCHANGED <<sessions, friendships, log>>

RequestFriend(a, b) ==
    /\ b \in DOMAIN users
    /\ a # b
    /\ friendships' = Put(friendships, {a, b}, Requested(friendships, a, b))
    /\ UNCHANGED <<users, sessions, log>>

AcceptFriend(u, p) ==
    /\ p \in DOMAIN friendships
    /\ friendships[p].addressee = u
    /\ friendships' = [friendships EXCEPT ![p].status = "accepted"]
    /\ UNCHANGED <<users, sessions, log>>

\* The await between the status and the entry lets only readers in between.
SetUserBan(target, banned) ==
    /\ target \in DOMAIN users
    /\ users' = [users EXCEPT ![target].status = BanStatus(banned)]
    /\ log' = Append(log, [target |-> target, banned |-> banned])
    /\ UNCHANGED <<sessions, friendships>>

Next ==
    \/ \E u \in Users : \/ UpsertDevUser(u)
                        \/ \E t \in Tokens : CreateSession(t, u)
                        \/ \E r \in Roles : SetUserRole(u, r)
                        \/ \E p \in Pairs : AcceptFriend(u, p)
                        \/ \E v \in Users : RequestFriend(u, v)
                        \/ \E x \in BOOLEAN : SetUserBan(u, x)
    \/ \E t \in Tokens : DeleteSession(t)

Spec == Init /\ [][Next]_vars
=============================================================================
