----------------------------- MODULE MCAccounts -----------------------------
(* The seeded admin and a player who has yet to log in for the first time.    *)
EXTENDS Accounts

CONSTANTS admin, ann, h1, h2, t1, t2, k1

MCEarly == admin :> [role |-> "admin", status |-> "active"]
MCSymmetry == Permutations({h1, h2}) \cup Permutations({t1, t2})

\* Friendships and tickets share no row: either comes beside bans and logins,
\* not both.
MCTicketsApart == DOMAIN friendships = {} \/ DOMAIN tickets = {}
=============================================================================
