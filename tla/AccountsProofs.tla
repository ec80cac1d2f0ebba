--------------------------- MODULE AccountsProofs ---------------------------
(***************************************************************************)
(* Accounts for every set of users, tokens and handlers and every bound on *)
(* the admin actions: its types, friendship by both sides, the status of a *)
(* user against the log, whom tickets let in, and that the routes and      *)
(* statements implement the memory repository.                             *)
(***************************************************************************)
EXTENDS Accounts, TLAPS

\* What the code keeps besides the types: users are never deleted, so whom a
\* request is of, whom a login or a ban is about and whom an entry of the log
\* names stay known.
Known ==
    /\ \A h \in Handlers :
         requests[h] # NoRequest =>
            /\ requests[h].me \in DOMAIN users
            /\ requests[h].kind \in {"login", "ban"} => requests[h].about \in DOMAIN users
    /\ \A i \in 1..Len(log) : log[i].target \in DOMAIN users

\* The row of two users and who of them asked.
RowAsAsked ==
    \A p \in DOMAIN friendships :
        /\ <<friendships[p].requester, friendships[p].addressee>> \in asked
        /\ friendships[p].status = "accepted"
              <=> <<friendships[p].addressee, friendships[p].requester>> \in asked

AskedHasRow == \A e \in asked : e[1] # e[2] /\ {e[1], e[2]} \in DOMAIN friendships

\* Standing(u), of any log s.
About(s, u) == {i \in 1..Len(s) : s[i].target = u}
Newest(S, i) == i \in S /\ \A j \in S : j <= i
StandingIn(s, u) ==
    IF About(s, u) = {} THEN "active"
    ELSE BanStatus(s[CHOOSE i \in About(s, u) : \A j \in About(s, u) : j <= i].banned)

\* Entries about a user have a newest one; a set of numbers need not.
HasNewest(s) == \A u \in Users : About(s, u) # {} => \E i : Newest(About(s, u), i)

Friends == TypeOK /\ RowAsAsked /\ AskedHasRow

-----------------------------------------------------------------------------
(* Types *)

LEMMA RequestFields ==
    ASSUME TypeOK, NEW h \in Handlers, requests[h] # NoRequest
    PROVE  /\ requests[h] \in Request
           /\ requests[h].kind \in Routes \cup {"login"}
           /\ requests[h].stage \in {"open", "act", "log"}
           /\ requests[h].me \in Users
           /\ requests[h].about \in Users
           /\ requests[h].banned \in BOOLEAN
  BY DEF TypeOK, Request

LEMMA TypeInit == Init => TypeOK /\ Known
  <1> SUFFICES ASSUME Init PROVE TypeOK /\ Known
    OBVIOUS
  <1>1. PICK D \in SUBSET Users : Early \in [D -> [role : Roles, status : {"active"}]]
    BY Values DEF Values, Init
  <1>2. DOMAIN users \subseteq Users /\ \A u \in DOMAIN users : users[u] \in [role : Roles, status : Statuses]
    BY <1>1 DEF Init, Statuses
  <1>3. log \in Seq([target : Users, banned : BOOLEAN]) /\ Len(log) = 0
    BY DEF Init
  <1>4. DOMAIN sessions = {} /\ DOMAIN friendships = {} /\ DOMAIN tickets = {}
    BY DEF Init
  <1> QED
    BY <1>2, <1>3, <1>4 DEF Init, TypeOK, Known

LEMMA TypeStep == ASSUME TypeOK, Known, [Next]_vars PROVE TypeOK' /\ Known'
  <1>1. ASSUME NEW h \in Handlers, NEW k \in Routes, NEW t \in Tokens, NEW u \in Users,
               NEW x \in BOOLEAN, Authenticate(h, k, t, u, x)
        PROVE  TypeOK' /\ Known'
    <2> DEFINE r == [kind |-> k, stage |-> "act", me |-> IF k = "ban" THEN u ELSE sessions[t],
                     about |-> u, banned |-> x]
    <2>1. requests' = [requests EXCEPT ![h] = r] /\ UNCHANGED <<rows, tickets, asked>>
      BY <1>1 DEF Authenticate
    <2>2. sessions[t] \in Users /\ sessions[t] \in DOMAIN users
      BY <1>1 DEF Authenticate, TypeOK
    <2>3. k = "ban" => u \in DOMAIN users
      BY <1>1 DEF Authenticate, Named
    <2>4. r \in Request
      BY <2>2 DEF Request
    <2>5. r.me \in DOMAIN users
      BY <2>2, <2>3
    <2>6. TypeOK'
      BY <2>1, <2>4 DEF TypeOK, rows
    <2>7. ASSUME NEW g \in Handlers, requests'[g] # NoRequest
          PROVE  /\ requests'[g].me \in DOMAIN users
                 /\ requests'[g].kind \in {"login", "ban"} => requests'[g].about \in DOMAIN users
      <3>1. CASE g = h
        <4>1. requests'[g] = r
          BY <2>1, <3>1 DEF TypeOK
        <4>2. k # "login"
          BY DEF Routes
        <4> QED BY <2>3, <2>5, <4>1, <4>2
      <3>2. CASE g # h
        BY <2>1, <2>7, <3>2 DEF TypeOK, Known
      <3> QED BY <3>1, <3>2
    <2> QED BY <2>1, <2>6, <2>7 DEF Known, rows
  <1>2. ASSUME NEW h \in Handlers, NEW u \in Users, UpsertDevUser(h, u)
        PROVE  TypeOK' /\ Known'
    <2> USE <1>2 DEF UpsertDevUser
    <2>1. Login(u) \in Request
      BY DEF Login, Request
    <2>2. DOMAIN users' = DOMAIN users \cup {u}
      BY DEF Put
    <2>3. \A v \in DOMAIN users' : users'[v] \in [role : Roles, status : Statuses]
      BY DEF Put, DevUser, TypeOK, Roles, Statuses
    <2>4. \A k \in DOMAIN tickets' : tickets'[k] \in Ticket /\ tickets'[k].user \in DOMAIN users'
      BY <2>2 DEF TypeOK
    <2>5. TypeOK'
      BY <2>1, <2>2, <2>3, <2>4 DEF TypeOK
    <2> QED BY <2>2, <2>5 DEF TypeOK, Known, Login
  <1>3. ASSUME NEW h \in Handlers, NEW t \in Tokens, CreateSession(h, t)
        PROVE  TypeOK' /\ Known'
    <2> USE <1>3 DEF CreateSession, Answer
    <2>1. requests[h].about \in DOMAIN users
      BY DEF Known, At
    <2>2. /\ DOMAIN sessions' \subseteq Tokens
          /\ \A s \in DOMAIN sessions' : sessions'[s] \in DOMAIN users
      BY <2>1 DEF Put, TypeOK
    <2> QED BY <2>2 DEF TypeOK, Known
  <1>4. ASSUME NEW t \in Tokens, DeleteSession(t)
        PROVE  TypeOK' /\ Known'
    BY <1>4 DEF DeleteSession, Without, TypeOK, Known
  <1>5. ASSUME NEW h \in Handlers, FriendFails(h) \/ BanRollsBack(h)
        PROVE  TypeOK' /\ Known'
    <2>1. requests' = [requests EXCEPT ![h] = NoRequest] /\ UNCHANGED <<rows, tickets, asked>>
      BY <1>5 DEF FriendFails, BanRollsBack, Answer
    <2> QED BY <2>1 DEF TypeOK, Known, rows
  <1>6. ASSUME NEW h \in Handlers, RequestFriend(h)
        PROVE  TypeOK' /\ Known'
    <2> DEFINE a == requests[h].me
               b == requests[h].about
    <2>1. /\ requests' = [requests EXCEPT ![h] = NoRequest] /\ UNCHANGED <<users, sessions, log, tickets>>
          /\ asked' = asked \cup {<<a, b>>}
          /\ friendships' = Put(friendships, {a, b}, Requested(friendships, a, b))
          /\ a # b /\ requests[h] # NoRequest
      BY <1>6 DEF RequestFriend, Askable, Answer, At
    <2>2. a \in Users /\ b \in Users
      BY <2>1, RequestFields
    <2>3. Requested(friendships, a, b) \in Row({a, b})
      <3>1. CASE {a, b} \notin DOMAIN friendships
        BY <2>1, <3>1 DEF Requested, Row
      <3>2. CASE {a, b} \in DOMAIN friendships
        <4>1. friendships[{a, b}] \in Row({a, b})
          BY <3>2 DEF TypeOK
        <4> QED BY <3>2, <4>1 DEF Requested, Row
      <3> QED BY <3>1, <3>2
    <2>4. DOMAIN friendships' \subseteq Pairs
      <3>1. {a, b} \in Pairs
        BY <2>2 DEF Pairs
      <3>2. DOMAIN friendships' = DOMAIN friendships \cup {{a, b}}
        BY <2>1 DEF Put
      <3>3. DOMAIN friendships \subseteq Pairs
        BY DEF TypeOK
      <3> HIDE DEF a, b
      <3> QED BY <3>1, <3>2, <3>3
    <2>5. \A p \in DOMAIN friendships' : friendships'[p] \in Row(p)
      BY <2>1, <2>3 DEF Put, TypeOK
    <2>6. requests' \in [Handlers -> Request \cup {NoRequest}] /\ asked' \subseteq Users \X Users
      BY <2>1, <2>2 DEF TypeOK
    <2>7. Known'
      BY <2>1 DEF Known, TypeOK
    <2>8. TypeOK'
      <3> HIDE DEF a, b
      <3> QED BY <2>1, <2>4, <2>5, <2>6 DEF TypeOK
    <2> QED BY <2>7, <2>8
  <1>7. ASSUME NEW h \in Handlers, AcceptFriend(h)
        PROVE  TypeOK' /\ Known'
    <2> DEFINE a == requests[h].me
               b == requests[h].about
    <2>1. /\ requests' = [requests EXCEPT ![h] = NoRequest] /\ UNCHANGED <<users, sessions, log, tickets>>
          /\ asked' = asked \cup {<<a, b>>}
          /\ friendships' = [friendships EXCEPT ![{a, b}].status = "accepted"]
          /\ requests[h] # NoRequest
      BY <1>7 DEF AcceptFriend, Answer, At
    <2>2. a \in Users /\ b \in Users
      BY <2>1, RequestFields
    <2>3. DOMAIN friendships' = DOMAIN friendships
      BY <2>1
    <2>4. ASSUME NEW p \in DOMAIN friendships PROVE friendships'[p] \in Row(p)
      <3>1. friendships[p] \in Row(p)
        BY DEF TypeOK
      <3>2. \/ friendships'[p] = friendships[p]
            \/ friendships'[p] = [friendships[p] EXCEPT !.status = "accepted"]
        BY <2>1
      <3> QED BY <3>1, <3>2 DEF Row
    <2>5. requests' \in [Handlers -> Request \cup {NoRequest}] /\ asked' \subseteq Users \X Users
      BY <2>1, <2>2 DEF TypeOK
    <2>6. Known'
      BY <2>1 DEF Known, TypeOK
    <2>7. TypeOK'
      <3> HIDE DEF a, b
      <3> QED BY <2>1, <2>3, <2>4, <2>5 DEF TypeOK
    <2> QED BY <2>6, <2>7
  <1>8. ASSUME NEW h \in Handlers, BanUpdate(h)
        PROVE  TypeOK' /\ Known'
    <2>1. /\ requests' = [requests EXCEPT ![h].stage = "log"] /\ UNCHANGED <<rows, tickets, asked>>
          /\ requests[h] # NoRequest
      BY <1>8 DEF BanUpdate, Stage, At
    <2>2. [requests[h] EXCEPT !.stage = "log"] \in Request
      BY <2>1, RequestFields DEF Request
    <2>3. TypeOK'
      BY <2>1, <2>2 DEF TypeOK, rows
    <2>4. \A g \in Handlers : requests'[g] # NoRequest =>
             /\ requests[g] # NoRequest
             /\ requests'[g].about = requests[g].about /\ requests'[g].kind = requests[g].kind
             /\ requests'[g].me = requests[g].me
      BY <2>1, RequestFields DEF TypeOK, Request
    <2> QED BY <2>1, <2>3, <2>4 DEF Known, rows
  <1>9. ASSUME NEW h \in Handlers, BanCommit(h)
        PROVE  TypeOK' /\ Known'
    <2> DEFINE r == requests[h]
               e == [target |-> r.about, banned |-> r.banned]
    <2>1. /\ requests' = [requests EXCEPT ![h] = NoRequest]
          /\ users' = [users EXCEPT ![r.about].status = BanStatus(r.banned)]
          /\ log' = Append(log, e)
          /\ UNCHANGED <<sessions, friendships, tickets, asked>>
          /\ r # NoRequest /\ r.kind = "ban"
      BY <1>9 DEF BanCommit, Answer, At
    <2>2. e \in [target : Users, banned : BOOLEAN] /\ r.about \in DOMAIN users
      BY <2>1, RequestFields DEF Known
    <2>3. log' \in Seq([target : Users, banned : BOOLEAN])
      BY <2>1, <2>2 DEF TypeOK
    <2>4. /\ DOMAIN users' = DOMAIN users
          /\ \A u \in DOMAIN users : users'[u] \in [role : Roles, status : Statuses]
      BY <2>1 DEF TypeOK, BanStatus, Statuses
    <2>5. TypeOK'
      BY <2>1, <2>3, <2>4 DEF TypeOK
    <2>6. \A i \in 1..Len(log') : log'[i].target \in DOMAIN users
      BY <2>1, <2>2 DEF TypeOK, Known
    <2> QED BY <2>1, <2>4, <2>5, <2>6 DEF Known, TypeOK
  <1>10. ASSUME NEW u \in Users, NEW r \in Roles, SetUserRole(u, r)
         PROVE  TypeOK' /\ Known'
    BY <1>10 DEF SetUserRole, TypeOK, Known
  <1>11. ASSUME NEW h \in Handlers, NEW k \in Tickets, CreateWsTicket(h, k)
         PROVE  TypeOK' /\ Known'
    <2> USE <1>11 DEF CreateWsTicket, Answer, rows
    <2>1. [user |-> requests[h].me, state |-> "stored"] \in Ticket
      BY RequestFields DEF At, Ticket
    <2>2. requests[h].me \in DOMAIN users
      BY DEF At, Known
    <2>3. /\ DOMAIN tickets' \subseteq Tickets
          /\ \A j \in DOMAIN tickets' : tickets'[j] \in Ticket /\ tickets'[j].user \in DOMAIN users
      BY <2>1, <2>2 DEF Put, TypeOK
    <2>4. requests' = [requests EXCEPT ![h] = NoRequest] /\ UNCHANGED <<users, sessions, friendships, log, asked>>
      OBVIOUS
    <2> QED BY <2>3, <2>4 DEF TypeOK, Known
  <1>12. ASSUME NEW k \in Tickets, ConsumeWsTicket(k) \/ WsTicketEnds(k)
         PROVE  TypeOK' /\ Known'
    <2>1. UNCHANGED <<users, sessions, friendships, log, requests, asked>>
      BY <1>12 DEF ConsumeWsTicket, WsTicketEnds, rows
    <2>2. tickets' = [tickets EXCEPT ![k].state = "admitted"] \/ tickets' = Without(tickets, k)
      BY <1>12 DEF ConsumeWsTicket, WsTicketEnds
    <2>3. /\ DOMAIN tickets' \subseteq Tickets
          /\ \A j \in DOMAIN tickets' : tickets'[j] \in Ticket /\ tickets'[j].user \in DOMAIN users
      BY <2>2 DEF TypeOK, Ticket, Without
    <2> QED BY <2>1, <2>3 DEF TypeOK, Known
  <1>13. CASE UNCHANGED vars
    BY <1>13 DEF vars, rows, TypeOK, Known
  <1> QED
    BY <1>1, <1>2, <1>3, <1>4, <1>5, <1>6, <1>7, <1>8, <1>9, <1>10, <1>11, <1>12, <1>13 DEF Next

\* Users, sessions, friendships, log, tickets and requests keep their types, a
\* session or a ticket belongs to a user that exists, and the row of a pair names its two users.
THEOREM TypeCorrect == Spec => [](TypeOK /\ Known)
<1>1. Init => TypeOK /\ Known
  BY TypeInit
<1>2. TypeOK /\ Known /\ [Next]_vars => (TypeOK /\ Known)'
  BY TypeStep
<1> QED BY <1>1, <1>2, PTL DEF Spec

-----------------------------------------------------------------------------
(* Friendship *)

LEMMA RowOfPair ==
    ASSUME TypeOK, NEW p \in DOMAIN friendships
    PROVE  /\ friendships[p] \in [requester : p, addressee : p, status : {"pending", "accepted"}]
           /\ friendships[p].requester # friendships[p].addressee
           /\ {friendships[p].requester, friendships[p].addressee} = p
  <1>1. friendships[p] \in Row(p) /\ p \in Pairs
    BY DEF TypeOK
  <1>2. PICK u \in Users, v \in Users : p = {u, v}
    BY <1>1 DEF Pairs
  <1>3. /\ friendships[p] \in [requester : p, addressee : p, status : {"pending", "accepted"}]
        /\ friendships[p].requester # friendships[p].addressee
    BY <1>1 DEF Row
  <1>4. /\ friendships[p].requester \in {u, v}
        /\ friendships[p].addressee \in {u, v}
    BY <1>2, <1>3
  <1>5. {friendships[p].requester, friendships[p].addressee} = {u, v}
    BY <1>3, <1>4
  <1> QED BY <1>2, <1>3, <1>5

LEMMA SamePair ==
    ASSUME NEW a, NEW b, NEW c, NEW d, {a, b} = {c, d}
    PROVE  \/ a = c /\ b = d
           \/ a = d /\ b = c
  OBVIOUS

\* What <<a, b>> among the requests means for the rows of other pairs.
LEMMA OtherRowsKept ==
    ASSUME Friends, NEW a, NEW b, asked' = asked \cup {<<a, b>>},
           NEW p \in DOMAIN friendships, p # {a, b}, friendships'[p] = friendships[p]
    PROVE  /\ <<friendships'[p].requester, friendships'[p].addressee>> \in asked'
           /\ friendships'[p].status = "accepted"
                <=> <<friendships'[p].addressee, friendships'[p].requester>> \in asked'
  <1> DEFINE c == friendships[p].requester
             d == friendships[p].addressee
  <1>1. {c, d} = p
    BY RowOfPair DEF Friends
  <1>2. <<c, d>> \in asked /\ (friendships[p].status = "accepted" <=> <<d, c>> \in asked)
    BY DEF Friends, RowAsAsked
  <1>3. <<d, c>> # <<a, b>>
    BY <1>1, Zenon
  <1> QED BY <1>2, <1>3

\* ... and when the row of the pair exists, for the pairs that have one.
LEMMA AskedKept ==
    ASSUME AskedHasRow, NEW a, NEW b, a # b, asked' = asked \cup {<<a, b>>},
           DOMAIN friendships' = DOMAIN friendships \cup {{a, b}}
    PROVE  AskedHasRow'
  <1> SUFFICES ASSUME NEW e \in asked' PROVE e[1] # e[2] /\ {e[1], e[2]} \in DOMAIN friendships'
    BY DEF AskedHasRow
  <1>1. CASE e \in asked
    BY <1>1 DEF AskedHasRow
  <1>2. CASE e = <<a, b>>
    <2>1. e[1] = a /\ e[2] = b
      BY <1>2
    <2> QED BY <2>1
  <1> QED BY <1>1, <1>2

\* The steps that write users, friendships or the log.
LEMMA WhoWrites ==
    ASSUME [Next]_vars
    PROVE  \/ \E h \in Handlers : RequestFriend(h) \/ AcceptFriend(h)
           \/ \E h \in Handlers : BanCommit(h)
           \/ \E h \in Handlers : \E u \in Users : UpsertDevUser(h, u)
           \/ \E u \in Users, r \in Roles : SetUserRole(u, r)
           \/ UNCHANGED <<users, friendships, log, asked>>
  <1>1. ASSUME NEW h \in Handlers, NEW k \in Routes, NEW t \in Tokens, NEW u \in Users,
               NEW x \in BOOLEAN, Authenticate(h, k, t, u, x)
        PROVE  UNCHANGED <<users, friendships, log, asked>>
    BY <1>1 DEF Authenticate, rows
  <1>2. ASSUME NEW h \in Handlers,
               \/ FriendFails(h) \/ BanUpdate(h) \/ BanRollsBack(h)
               \/ \E t \in Tokens : CreateSession(h, t)
               \/ \E k \in Tickets : CreateWsTicket(h, k)
        PROVE  UNCHANGED <<users, friendships, log, asked>>
    BY <1>2 DEF FriendFails, BanUpdate, BanRollsBack, CreateSession, CreateWsTicket, rows
  <1>3. ASSUME NEW t \in Tokens, DeleteSession(t)
        PROVE  UNCHANGED <<users, friendships, log, asked>>
    BY <1>3 DEF DeleteSession
  <1>4. ASSUME NEW k \in Tickets, ConsumeWsTicket(k) \/ WsTicketEnds(k)
        PROVE  UNCHANGED <<users, friendships, log, asked>>
    BY <1>4 DEF ConsumeWsTicket, WsTicketEnds, rows
  <1>5. CASE UNCHANGED vars
    BY <1>5 DEF vars, rows
  <1> QED BY <1>1, <1>2, <1>3, <1>4, <1>5 DEF Next

\* A request of a to b leaves a row that says of both whether they asked.
LEMMA RequestKeeps ==
    ASSUME Friends, NEW h \in Handlers, RequestFriend(h)
    PROVE  RowAsAsked' /\ AskedHasRow'
  <1> DEFINE a == requests[h].me
             b == requests[h].about
             new == Requested(friendships, a, b)
             old == friendships[{a, b}]
  <1>1. /\ asked' = asked \cup {<<a, b>>}
        /\ friendships' = Put(friendships, {a, b}, new)
        /\ a # b
    BY DEF RequestFriend, Askable
  <1>2. /\ DOMAIN friendships' = DOMAIN friendships \cup {{a, b}}
        /\ friendships'[{a, b}] = new
        /\ \A p \in DOMAIN friendships : p # {a, b} => friendships'[p] = friendships[p]
    BY <1>1 DEF Put
  <1>3. /\ <<new.requester, new.addressee>> \in asked'
        /\ new.status = "accepted" <=> <<new.addressee, new.requester>> \in asked'
    <2>1. CASE {a, b} \notin DOMAIN friendships
      <3>1. new = [requester |-> a, addressee |-> b, status |-> "pending"]
        BY <2>1 DEF Requested
      <3>2. {b, a} = {a, b}
        OBVIOUS
      <3>3. <<b, a>> \notin asked
        BY <2>1, <3>2 DEF Friends, AskedHasRow
      <3> HIDE DEF a, b, new
      <3> QED BY <1>1, <3>1, <3>3
    <2>2. CASE {a, b} \in DOMAIN friendships
      <3>1. /\ old \in [requester : {a, b}, addressee : {a, b}, status : {"pending", "accepted"}]
            /\ old.requester # old.addressee
            /\ {old.requester, old.addressee} = {a, b}
        BY <2>2, RowOfPair DEF Friends
      <3>2. \/ old.requester = a /\ old.addressee = b
            \/ old.requester = b /\ old.addressee = a
        BY <3>1, SamePair
      <3>3. new = [old EXCEPT !.status = IF @ = "pending" /\ old.requester = b THEN "accepted" ELSE @]
        BY <2>2 DEF Requested
      <3>4. /\ <<old.requester, old.addressee>> \in asked
            /\ old.status = "accepted" <=> <<old.addressee, old.requester>> \in asked
        BY <2>2 DEF Friends, RowAsAsked
      <3> HIDE DEF a, b, new, old
      <3>5. /\ new.requester = old.requester /\ new.addressee = old.addressee
            /\ new.status = IF old.status = "pending" /\ old.requester = b THEN "accepted" ELSE old.status
            /\ old.status \in {"pending", "accepted"}
        BY <3>1, <3>3
      <3>6. CASE old.requester = a /\ old.addressee = b
        BY <1>1, <3>4, <3>5, <3>6
      <3>7. CASE old.requester = b /\ old.addressee = a
        BY <1>1, <3>4, <3>5, <3>7
      <3> QED BY <3>2, <3>6, <3>7
    <2> QED BY <2>1, <2>2
  <1> HIDE DEF a, b, new, old
  <1>4. RowAsAsked'
    <2> SUFFICES ASSUME NEW p \in DOMAIN friendships'
                 PROVE  /\ <<friendships'[p].requester, friendships'[p].addressee>> \in asked'
                        /\ friendships'[p].status = "accepted"
                             <=> <<friendships'[p].addressee, friendships'[p].requester>> \in asked'
      BY DEF RowAsAsked
    <2>1. CASE p = {a, b}
      BY <1>2, <1>3, <2>1
    <2>2. CASE p # {a, b}
      BY <1>1, <1>2, <2>2, OtherRowsKept
    <2> QED BY <2>1, <2>2
  <1>5. AskedHasRow'
    BY <1>1, <1>2, AskedKept DEF Friends
  <1> QED BY <1>4, <1>5

LEMMA AcceptKeeps ==
    ASSUME Friends, NEW h \in Handlers, AcceptFriend(h)
    PROVE  RowAsAsked' /\ AskedHasRow'
  <1> DEFINE a == requests[h].me
             b == requests[h].about
             old == friendships[{a, b}]
  <1>1. /\ asked' = asked \cup {<<a, b>>}
        /\ friendships' = [friendships EXCEPT ![{a, b}].status = "accepted"]
        /\ {a, b} \in DOMAIN friendships /\ old.addressee = a
    BY DEF AcceptFriend, Acceptable
  <1>2. /\ old \in [requester : {a, b}, addressee : {a, b}, status : {"pending", "accepted"}]
        /\ old.requester # old.addressee
        /\ {old.requester, old.addressee} = {a, b}
    BY <1>1, RowOfPair DEF Friends
  <1>3. old.requester = b /\ a # b
    BY <1>1, <1>2, SamePair
  <1>4. <<b, a>> \in asked
    BY <1>1, <1>3 DEF Friends, RowAsAsked
  <1>5. /\ friendships'[{a, b}] = [old EXCEPT !.status = "accepted"]
        /\ DOMAIN friendships' = DOMAIN friendships
        /\ \A p \in DOMAIN friendships : p # {a, b} => friendships'[p] = friendships[p]
    BY <1>1
  <1> HIDE DEF a, b, old
  <1>6. /\ friendships'[{a, b}].requester = b /\ friendships'[{a, b}].addressee = a
        /\ friendships'[{a, b}].status = "accepted"
    BY <1>1, <1>2, <1>3, <1>5
  <1>7. RowAsAsked'
    <2> SUFFICES ASSUME NEW p \in DOMAIN friendships'
                 PROVE  /\ <<friendships'[p].requester, friendships'[p].addressee>> \in asked'
                        /\ friendships'[p].status = "accepted"
                             <=> <<friendships'[p].addressee, friendships'[p].requester>> \in asked'
      BY DEF RowAsAsked
    <2>1. CASE p = {a, b}
      BY <1>1, <1>4, <1>6, <2>1
    <2>2. CASE p # {a, b}
      BY <1>1, <1>5, <2>2, OtherRowsKept
    <2> QED BY <2>1, <2>2
  <1>8. AskedHasRow'
    <2>1. DOMAIN friendships' = DOMAIN friendships \cup {{a, b}}
      BY <1>1, <1>5
    <2> QED BY <1>1, <1>3, <2>1, AskedKept DEF Friends
  <1> QED BY <1>7, <1>8

\* Two users are friends only when each asked or accepted the other, and one
\* row says so: the row tells who asked first, and that the other answered.
THEOREM FriendsByBoth == Spec => []FriendsBothAsked
<1>1. Init => RowAsAsked /\ AskedHasRow
  BY DEF Init, RowAsAsked, AskedHasRow
<1>2. TypeOK /\ RowAsAsked /\ AskedHasRow /\ [Next]_vars => (RowAsAsked /\ AskedHasRow)'
  <2> SUFFICES ASSUME Friends, [Next]_vars PROVE (RowAsAsked /\ AskedHasRow)'
    BY DEF Friends
  <2>1. ASSUME UNCHANGED <<friendships, asked>> PROVE (RowAsAsked /\ AskedHasRow)'
    BY <2>1 DEF Friends, RowAsAsked, AskedHasRow
  <2>2. ASSUME NEW h \in Handlers, RequestFriend(h) \/ AcceptFriend(h)
        PROVE  (RowAsAsked /\ AskedHasRow)'
    BY <2>2, RequestKeeps, AcceptKeeps
  <2>3. \/ \E h \in Handlers : RequestFriend(h) \/ AcceptFriend(h)
        \/ UNCHANGED <<friendships, asked>>
    BY WhoWrites DEF UpsertDevUser, BanCommit, SetUserRole
  <2> QED BY <2>1, <2>2, <2>3
<1>3. TypeOK /\ RowAsAsked /\ AskedHasRow => FriendsBothAsked
  <2> SUFFICES ASSUME TypeOK, RowAsAsked, AskedHasRow, NEW u \in Users, NEW v \in Users, u # v
               PROVE  /\ {u, v} \in DOMAIN friendships <=> {<<u, v>>, <<v, u>>} \cap asked # {}
                      /\ {u, v} \in DOMAIN friendships =>
                           (friendships[{u, v}].status = "accepted" <=> {<<u, v>>, <<v, u>>} \subseteq asked)
    BY DEF FriendsBothAsked
  <2>1. ASSUME <<u, v>> \in asked \/ <<v, u>> \in asked PROVE {u, v} \in DOMAIN friendships
    <3>1. {u, v} = {v, u}
      OBVIOUS
    <3> QED BY <2>1, <3>1 DEF AskedHasRow
  <2>2. ASSUME {u, v} \in DOMAIN friendships
        PROVE  \/ friendships[{u, v}].requester = u /\ friendships[{u, v}].addressee = v
               \/ friendships[{u, v}].requester = v /\ friendships[{u, v}].addressee = u
    <3>1. {friendships[{u, v}].requester, friendships[{u, v}].addressee} = {u, v}
      BY <2>2, RowOfPair
    <3> QED BY <3>1, SamePair
  <2>3. ASSUME {u, v} \in DOMAIN friendships
        PROVE  /\ <<u, v>> \in asked \/ <<v, u>> \in asked
               /\ friendships[{u, v}].status = "accepted" <=> <<u, v>> \in asked /\ <<v, u>> \in asked
    BY <2>2, <2>3 DEF RowAsAsked
  <2> QED BY <2>1, <2>3
<1> QED BY <1>1, <1>2, <1>3, TypeCorrect, PTL DEF Spec

-----------------------------------------------------------------------------
(* Standing *)

LEMMA AppendShape ==
    ASSUME NEW S, NEW s \in Seq(S), NEW e \in S
    PROVE  /\ Len(s) \in Nat
           /\ Len(Append(s, e)) = Len(s) + 1
           /\ \A i \in 1..Len(s) : Append(s, e)[i] = s[i]
           /\ Append(s, e)[Len(s) + 1] = e
  OBVIOUS

LEMMA UniqueNewest ==
    ASSUME NEW n \in Nat, NEW S \in SUBSET (1..n), NEW i, NEW j, Newest(S, i), Newest(S, j)
    PROVE  i = j
  <1>1. i \in Nat /\ j \in Nat /\ i <= j /\ j <= i
    BY DEF Newest
  <1> QED BY <1>1

\* The standing is that of the newest entry, when there is one.
LEMMA StandingIs ==
    ASSUME NEW s, Len(s) \in Nat, NEW u
    PROVE  /\ About(s, u) = {} => StandingIn(s, u) = "active"
           /\ \A i : Newest(About(s, u), i) => StandingIn(s, u) = BanStatus(s[i].banned)
  <1>1. About(s, u) = {} => StandingIn(s, u) = "active"
    BY DEF StandingIn
  <1>2. ASSUME NEW i, Newest(About(s, u), i) PROVE StandingIn(s, u) = BanStatus(s[i].banned)
    <2> DEFINE k == CHOOSE x \in About(s, u) : \A y \in About(s, u) : y <= x
    <2>1. i \in About(s, u) /\ \A y \in About(s, u) : y <= i
      BY <1>2 DEF Newest
    <2>2. Newest(About(s, u), k)
      BY <2>1 DEF Newest
    <2>3. About(s, u) \in SUBSET (1..Len(s))
      BY DEF About
    <2>4. k = i
      BY <1>2, <2>2, <2>3, UniqueNewest
    <2>5. StandingIn(s, u) = BanStatus(s[k].banned)
      BY <2>1 DEF StandingIn
    <2> QED BY <2>4, <2>5
  <1> QED BY <1>1, <1>2

LEMMA StandingOfLog == ASSUME NEW u PROVE Standing(u) = StandingIn(log, u)
  BY DEF Standing, StandingIn, About

\* The standing of u with the entry e after those of s.
StandingWith(s, e, u) ==
    IF u = e.target THEN BanStatus(e.banned) ELSE StandingIn(s, u)

\* An entry more decides for the user it is about, and for nobody else.
LEMMA Appended ==
    ASSUME NEW s \in Seq([target : Users, banned : BOOLEAN]), HasNewest(s),
           NEW e \in [target : Users, banned : BOOLEAN], NEW t, t = Append(s, e)
    PROVE  /\ HasNewest(t)
           /\ \A u \in Users : StandingIn(t, u) = StandingWith(s, e, u)
  <1> DEFINE L == Len(s)
  <1>1. /\ L \in Nat /\ Len(t) = L + 1
        /\ \A i \in 1..L : t[i] = s[i]
        /\ t[L + 1] = e
    BY AppendShape
  <1> HIDE DEF L
  <1>2. ASSUME NEW u, u # e.target PROVE About(t, u) = About(s, u)
    <2>1. \A i \in 1..(L + 1) : i \in 1..L \/ i = L + 1
      BY <1>1
    <2>2. 1..L \subseteq 1..(L + 1)
      BY <1>1
    <2> QED BY <1>1, <1>2, <2>1, <2>2 DEF About, L
  <1>3. Newest(About(t, e.target), L + 1)
    BY <1>1 DEF About, Newest
  <1>4. ASSUME NEW u \in Users, About(s, u) # {}
        PROVE  \E i : Newest(About(s, u), i)
    BY <1>4 DEF HasNewest
  <1>5. ASSUME NEW u \in Users, NEW i, Newest(About(s, u), i)
        PROVE  t[i] = s[i]
    BY <1>1, <1>5 DEF About, Newest, L
  <1>6. ASSUME NEW u \in Users, u # e.target
        PROVE  StandingIn(t, u) = StandingIn(s, u)
    <2>1. About(t, u) = About(s, u) /\ Len(s) \in Nat /\ Len(t) \in Nat
      BY <1>1, <1>2, <1>6 DEF L
    <2>2. CASE About(s, u) = {}
      BY <2>1, <2>2, StandingIs
    <2>3. CASE About(s, u) # {}
      <3>1. PICK i : Newest(About(s, u), i)
        BY <1>4, <2>3
      <3>2. /\ StandingIn(s, u) = BanStatus(s[i].banned)
            /\ StandingIn(t, u) = BanStatus(t[i].banned)
        BY <2>1, <3>1, StandingIs
      <3> QED BY <1>5, <3>1, <3>2
    <2> QED BY <2>2, <2>3
  <1>7. StandingIn(t, e.target) = BanStatus(e.banned)
    <2>1. Len(t) \in Nat
      BY <1>1
    <2>2. StandingIn(t, e.target) = BanStatus(t[L + 1].banned)
      BY <1>3, <2>1, StandingIs
    <2> QED BY <1>1, <2>2
  <1>8. HasNewest(t)
    BY <1>2, <1>3, <1>4 DEF HasNewest
  <1> QED BY <1>6, <1>7, <1>8 DEF StandingWith

LEMMA LogStep ==
    ASSUME TypeOK, Known, HasNewest(log), [Next]_vars
    PROVE  \/ log' = log
           \/ \E h \in Handlers : /\ BanCommit(h)
                                  /\ requests[h].about \in DOMAIN users
                                  /\ requests[h].banned \in BOOLEAN
                                  /\ log' = Append(log, [target |-> requests[h].about,
                                                         banned |-> requests[h].banned])
  <1>1. ASSUME NEW h \in Handlers, BanCommit(h)
        PROVE  /\ requests[h].about \in DOMAIN users
               /\ requests[h].banned \in BOOLEAN
               /\ log' = Append(log, [target |-> requests[h].about, banned |-> requests[h].banned])
    BY <1>1, RequestFields DEF BanCommit, At, Known
  <1>2. log' = log \/ \E h \in Handlers : BanCommit(h)
    BY WhoWrites DEF UpsertDevUser, RequestFriend, AcceptFriend, SetUserRole
  <1> QED BY <1>1, <1>2

LEMMA NewestKept ==
    ASSUME TypeOK, Known, HasNewest(log), [Next]_vars
    PROVE  HasNewest(log')
  <1>1. ASSUME NEW h \in Handlers, requests[h].about \in DOMAIN users, requests[h].banned \in BOOLEAN,
               log' = Append(log, [target |-> requests[h].about, banned |-> requests[h].banned])
        PROVE  HasNewest(log')
    <2> DEFINE e == [target |-> requests[h].about, banned |-> requests[h].banned]
    <2>1. e \in [target : Users, banned : BOOLEAN] /\ log \in Seq([target : Users, banned : BOOLEAN])
      BY <1>1 DEF TypeOK
    <2>2. log' = Append(log, e)
      BY <1>1
    <2> HIDE DEF e
    <2> QED BY <2>1, <2>2, Appended
  <1>2. CASE log' = log
    BY <1>2
  <1> QED BY <1>1, <1>2, LogStep

LEMMA StatusStep ==
    ASSUME TypeOK, Known, HasNewest(log), StatusAsLogged, [Next]_vars
    PROVE  StatusAsLogged'
  <1> SUFFICES ASSUME NEW u \in DOMAIN users'
               PROVE  users'[u].status = StandingIn(log', u)
    BY DEF StatusAsLogged, Standing, StandingIn, About
  <1>1. \A v \in DOMAIN users : users[v].status = StandingIn(log, v)
    BY StandingOfLog DEF StatusAsLogged
  <1>2. ASSUME NEW h \in Handlers, NEW v \in Users, UpsertDevUser(h, v)
        PROVE  users'[u].status = StandingIn(log', u)
    <2>1. users' = Put(users, v, DevUser(users, v)) /\ log' = log
      BY <1>2 DEF UpsertDevUser
    <2>2. CASE u \in DOMAIN users
      <3>1. users'[u].status = users[u].status
        BY <2>1, <2>2 DEF Put, DevUser
      <3> QED BY <1>1, <2>1, <2>2, <3>1
    <2>3. CASE u \notin DOMAIN users
      <3>1. users'[u].status = "active"
        BY <2>1, <2>3 DEF Put, DevUser
      <3>2. About(log, u) = {}
        BY <2>3 DEF About, Known
      <3> QED BY <2>1, <3>1, <3>2 DEF StandingIn
    <2> QED BY <2>2, <2>3
  <1>3. ASSUME NEW h \in Handlers, BanCommit(h), requests[h].about \in DOMAIN users,
               requests[h].banned \in BOOLEAN,
               log' = Append(log, [target |-> requests[h].about, banned |-> requests[h].banned])
        PROVE  users'[u].status = StandingIn(log', u)
    <2> DEFINE r == requests[h]
               e == [target |-> r.about, banned |-> r.banned]
    <2>1. users' = [users EXCEPT ![r.about].status = BanStatus(r.banned)]
      BY <1>3 DEF BanCommit
    <2>2. e \in [target : Users, banned : BOOLEAN] /\ log \in Seq([target : Users, banned : BOOLEAN])
      BY <1>3 DEF TypeOK
    <2>3. u \in DOMAIN users /\ u \in Users
      BY <2>1 DEF TypeOK
    <2>4. StandingIn(log', u) = IF u = e.target THEN BanStatus(e.banned)
                                           ELSE StandingIn(log, u)
      <3>1. log' = Append(log, e)
        BY <1>3
      <3> HIDE DEF e
      <3>2. StandingIn(log', u) = StandingWith(log, e, u)
        BY <2>2, <2>3, <3>1, Appended
      <3> QED BY <3>2 DEF StandingWith
    <2>5. users'[u].status = IF u = r.about THEN BanStatus(r.banned) ELSE users[u].status
      BY <2>1, <2>3 DEF TypeOK
    <2> QED BY <1>1, <2>3, <2>4, <2>5
  <1>4. ASSUME NEW v \in Users, NEW r \in Roles, SetUserRole(v, r)
        PROVE  users'[u].status = StandingIn(log', u)
    <2>1. users' = [users EXCEPT ![v].role = r] /\ log' = log
      BY <1>4 DEF SetUserRole
    <2>2. u \in DOMAIN users /\ users'[u].status = users[u].status
      BY <2>1 DEF TypeOK
    <2> QED BY <1>1, <2>1, <2>2
  <1>5. CASE UNCHANGED <<users, log>>
    BY <1>1, <1>5
  <1>6. \/ UNCHANGED <<users, log>>
        \/ \E h \in Handlers : BanCommit(h) \/ \E v \in Users : UpsertDevUser(h, v)
        \/ \E v \in Users, r \in Roles : SetUserRole(v, r)
    BY WhoWrites DEF RequestFriend, AcceptFriend
  <1>7. ASSUME NEW h \in Handlers, BanCommit(h)
        PROVE  /\ requests[h].about \in DOMAIN users /\ requests[h].banned \in BOOLEAN
               /\ log' = Append(log, [target |-> requests[h].about, banned |-> requests[h].banned])
    BY <1>7, RequestFields DEF BanCommit, At, Known
  <1> QED BY <1>2, <1>3, <1>4, <1>5, <1>6, <1>7

\* The status of a user is what the newest entry of the log about them says,
\* whichever bans overlap and whichever of them fail half way.
THEOREM StatusFollowsLog == Spec => [](HasNewest(log) /\ StatusAsLogged)
<1>1. Init => HasNewest(log) /\ StatusAsLogged
  <2> SUFFICES ASSUME Init PROVE HasNewest(log) /\ StatusAsLogged
    OBVIOUS
  <2>1. Len(log) = 0 /\ users = Early
    BY DEF Init
  <2>2. \A u \in DOMAIN users : users[u].status = "active"
    BY <2>1, Values DEF Values
  <2>3. \A u : About(log, u) = {}
    BY <2>1 DEF About
  <2>4. HasNewest(log)
    BY <2>3 DEF HasNewest
  <2>5. \A u \in DOMAIN users : StandingIn(log, u) = "active"
    BY <2>1, <2>3 DEF StandingIn
  <2> QED BY <2>2, <2>4, <2>5, StandingOfLog DEF StatusAsLogged
<1>2. TypeOK /\ Known /\ HasNewest(log) /\ StatusAsLogged /\ [Next]_vars
        => (HasNewest(log) /\ StatusAsLogged)'
  <2> SUFFICES ASSUME TypeOK, Known, HasNewest(log), StatusAsLogged, [Next]_vars
               PROVE  HasNewest(log') /\ StatusAsLogged'
    OBVIOUS
  <2> QED BY NewestKept, StatusStep
<1> QED BY <1>1, <1>2, TypeCorrect, PTL DEF Spec

\* Whoever a ticket lets in is in good standing by the admin actions committed
\* by then, whatever was true when the ticket was asked for and given out.
THEOREM TicketsByStanding == Spec => AdmittedActive
<1> DEFINE Fair(k) == Stored(k) /\ k \in DOMAIN tickets' /\ tickets'[k].state = "admitted" =>
                        Standing(tickets[k].user) = "active"
<1>1. TypeOK /\ StatusAsLogged /\ [Next]_vars => \A k \in Tickets : Fair(k)
  <2> SUFFICES ASSUME TypeOK, StatusAsLogged, [Next]_vars, NEW k \in Tickets,
                      Stored(k), k \in DOMAIN tickets', tickets'[k].state = "admitted"
               PROVE  Standing(tickets[k].user) = "active"
    OBVIOUS
  <2>1. tickets[k].user \in DOMAIN users
    BY DEF TypeOK, Stored
  <2>2. ASSUME tickets' = tickets PROVE FALSE
    BY <2>2 DEF Stored
  <2>3. ASSUME NEW h \in Handlers, NEW j \in Tickets, CreateWsTicket(h, j) PROVE FALSE
    <3>1. j # k /\ tickets' = Put(tickets, j, [user |-> requests[h].me, state |-> "stored"])
      BY <2>3 DEF CreateWsTicket, Stored
    <3>2. tickets'[k] = tickets[k]
      BY <3>1 DEF Put, Stored
    <3> QED BY <3>2 DEF Stored
  <2>4. ASSUME NEW j \in Tickets, tickets' = Without(tickets, j) PROVE FALSE
    BY <2>4 DEF Without, Stored
  <2>5. ASSUME NEW j \in Tickets, ConsumeWsTicket(j) PROVE users[tickets[k].user].status = "active"
    <3>1. CASE j = k
      BY <2>4, <2>5, <3>1 DEF ConsumeWsTicket
    <3>2. CASE j # k
      BY <2>4, <2>5, <3>2 DEF ConsumeWsTicket, Stored
    <3> QED BY <3>1, <3>2
  <2>6. \/ tickets' = tickets
        \/ \E h \in Handlers, j \in Tickets : CreateWsTicket(h, j)
        \/ \E j \in Tickets : ConsumeWsTicket(j) \/ tickets' = Without(tickets, j)
    BY DEF Next, vars, Authenticate, UpsertDevUser, CreateSession, DeleteSession, RequestFriend,
           AcceptFriend, FriendFails, BanUpdate, BanCommit, BanRollsBack, SetUserRole, WsTicketEnds
  <2> QED BY <2>1, <2>2, <2>3, <2>4, <2>5, <2>6 DEF StatusAsLogged
<1>2. AdmittedActive <=> [][\A k \in Tickets : Fair(k)]_vars
  BY DEF AdmittedActive
<1> QED BY <1>1, <1>2, TypeCorrect, StatusFollowsLog, PTL DEF Spec

-----------------------------------------------------------------------------
(* Refinement *)

LEMMA StepImplements ==
    ASSUME TypeOK, Known, [Next]_vars
    PROVE  [Memory!Next]_Memory!vars
  <1> USE DEF Memory!vars, Memory!Next
  <1>1. ASSUME NEW h \in Handlers, NEW u \in Users, UpsertDevUser(h, u)
        PROVE  Memory!UpsertDevUser(u)
    BY <1>1 DEF UpsertDevUser, Memory!UpsertDevUser, Put, Memory!Put, DevUser, Memory!DevUser
  <1>2. ASSUME NEW h \in Handlers, NEW t \in Tokens, CreateSession(h, t)
        PROVE  requests[h].about \in Users /\ Memory!CreateSession(t, requests[h].about)
    <2>1. requests[h].about \in Users
      BY <1>2, RequestFields DEF CreateSession, At
    <2> QED BY <1>2, <2>1 DEF CreateSession, Memory!CreateSession, Put, Memory!Put
  <1>3. ASSUME NEW t \in Tokens, DeleteSession(t) PROVE Memory!DeleteSession(t)
    BY <1>3 DEF DeleteSession, Memory!DeleteSession, Without
  <1>4. ASSUME NEW h \in Handlers, RequestFriend(h)
        PROVE  /\ requests[h].me \in Users /\ requests[h].about \in Users
               /\ Memory!RequestFriend(requests[h].me, requests[h].about)
    <2>1. requests[h].me \in Users /\ requests[h].about \in Users
      BY <1>4, RequestFields DEF RequestFriend, At
    <2> QED BY <1>4, <2>1 DEF RequestFriend, Memory!RequestFriend, Askable, Put, Memory!Put,
                              Requested, Memory!Requested
  <1>5. ASSUME NEW h \in Handlers, AcceptFriend(h)
        PROVE  \E u \in Users, p \in Memory!Pairs : Memory!AcceptFriend(u, p)
    <2>1. requests[h].me \in Users /\ requests[h].about \in Users
      BY <1>5, RequestFields DEF AcceptFriend, At
    <2>2. {requests[h].me, requests[h].about} \in Memory!Pairs
      BY <2>1 DEF Memory!Pairs
    <2>3. Memory!AcceptFriend(requests[h].me, {requests[h].me, requests[h].about})
      BY <1>5 DEF AcceptFriend, Acceptable, Memory!AcceptFriend
    <2> QED BY <2>1, <2>2, <2>3
  <1>6. ASSUME NEW h \in Handlers, BanCommit(h)
        PROVE  \E u \in Users, x \in BOOLEAN : Memory!SetUserBan(u, x)
    <2>1. /\ requests[h].about \in Users /\ requests[h].banned \in BOOLEAN
          /\ requests[h].about \in DOMAIN users
      BY <1>6, RequestFields DEF BanCommit, At, Known
    <2>2. Memory!SetUserBan(requests[h].about, requests[h].banned)
      BY <1>6, <2>1 DEF BanCommit, Memory!SetUserBan, BanStatus, Memory!BanStatus
    <2> QED BY <2>1, <2>2
  <1>7. ASSUME NEW u \in Users, NEW r \in Roles, SetUserRole(u, r)
        PROVE  r \in Memory!Roles /\ Memory!SetUserRole(u, r)
    BY <1>7 DEF SetUserRole, Memory!SetUserRole, Roles, Memory!Roles
  <1>8. ASSUME UNCHANGED rows PROVE UNCHANGED Memory!vars
    BY <1>8 DEF rows
  <1>9. \/ UNCHANGED rows
        \/ \E h \in Handlers : \/ \E u \in Users : UpsertDevUser(h, u)
                               \/ \E t \in Tokens : CreateSession(h, t)
                               \/ RequestFriend(h) \/ AcceptFriend(h) \/ BanCommit(h)
        \/ \E t \in Tokens : DeleteSession(t)
        \/ \E u \in Users, r \in Roles : SetUserRole(u, r)
    BY DEF Next, Authenticate, FriendFails, BanUpdate, BanRollsBack, CreateWsTicket, ConsumeWsTicket,
           WsTicketEnds, vars
  <1> QED BY <1>1, <1>2, <1>3, <1>4, <1>5, <1>6, <1>7, <1>8, <1>9

\* Logins, friend requests and bans, with their reads, checks and transactions
\* interleaved, change users, sessions, friendships and the log as the methods
\* of the memory repository do, one at a time.
THEOREM Refines == Spec => ImplementsMemory
<1>1. Init => Memory!Init
  BY DEF Init, Memory!Init
<1>2. TypeOK /\ Known /\ [Next]_vars => [Memory!Next]_Memory!vars
  BY StepImplements
<1> QED BY <1>1, <1>2, TypeCorrect, PTL DEF Spec, ImplementsMemory, Memory!Spec

=============================================================================
