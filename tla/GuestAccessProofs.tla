-------------------------- MODULE GuestAccessProofs --------------------------
(***************************************************************************)
(* Theorems about tickets, leases and handshakes, for every set of users,  *)
(* addresses, sockets and tickets and every value of the limits.           *)
(***************************************************************************)
EXTENDS GuestAccess, FiniteSetTheorems, TLAPS

-----------------------------------------------------------------------------
(* Types *)

\* What the data of sockets and tickets say about one another: a socket that
\* waits for an answer has a ticket, one the hub had has a player, the index
\* names no other ticket than a stored one of its guest (a ticket that is
\* replaced is therefore somebody's), and the members' mode takes no lease.
SoundSocket(x) ==
    /\ x.answer # "none" =>
          ~demo /\ x.ticket \in Tickets /\ x.phase \in {"handshake", "closing", "gone"}
    /\ x.answer = "found" => x.user \in Users
    /\ x.phase \in {"open", "leaving"} => x.user \in Users /\ (~demo => x.ticket \in Tickets)

SocketsSound == \A s \in Sockets : SoundSocket(sock[s])
TicketsSound == \A t \in Tickets : tickets[t].state # "free" => tickets[t].user \in Users
Sound ==
    SocketsSound /\ TicketsSound /\ IndexAgrees /\ (~demo => \A u \in Users : leases[u] = NoLease)

LEMMA WindowsTyped ==
  ASSUME TypeOK, NEW store \in Stores
  PROVE  /\ PrunedWindows(store) \in [Ips -> RollingWindow]
         /\ NoEvents \in [Ages -> Nat]
         /\ \A events \in [Ages -> Nat] :
               WithEvent(events) \in [Ages -> Nat] /\ Aged(events) \in [Ages -> Nat]
<1> USE GuestAccessAssumption
<1>1. NoEvents \in [Ages -> Nat] /\ 0 \in Ages
  BY DEF NoEvents, Ages
<1>2. Untracked \in RollingWindow
  BY <1>1 DEF Untracked, RollingWindow
<1>3. PrunedWindows(store) \in [Ips -> RollingWindow]
  BY <1>2 DEF PrunedWindows, TypeOK
<1>4. ASSUME NEW events \in [Ages -> Nat]
      PROVE  WithEvent(events) \in [Ages -> Nat] /\ Aged(events) \in [Ages -> Nat]
  <2>1. WithEvent(events) \in [Ages -> Nat]
    BY <1>1 DEF WithEvent
  <2>2. \A age \in Ages : age # 0 => events[age - 1] \in Nat
    BY DEF Ages
  <2> QED BY <2>1, <2>2 DEF Aged
<1> QED BY <1>1, <1>3, <1>4

LEMMA RecordTyped ==
  ASSUME TypeOK, NEW store \in Stores, NEW ip \in Ips
  PROVE  /\ Record(store, ip) \/ RecordRefused(store) =>
               /\ windows' \in [Stores -> [Ips -> RollingWindow]]
               /\ accepted' \in [Stores -> [Ips -> [Ages -> Nat]]]
<1> DEFINE w == PrunedWindows(store)
<1>1. w \in [Ips -> RollingWindow]
  BY WindowsTyped
<1>2. [tracked |-> TRUE, events |-> WithEvent(w[ip].events), left |-> RateWindow] \in RollingWindow
  <2>1. w[ip].events \in [Ages -> Nat]
    BY <1>1 DEF RollingWindow
  <2> QED BY <2>1, WindowsTyped, GuestAccessAssumption DEF RollingWindow
<1>3. WithEvent(accepted[store][ip]) \in [Ages -> Nat]
  BY WindowsTyped DEF TypeOK
<1> DEFINE new == [tracked |-> TRUE, events |-> WithEvent(w[ip].events), left |-> RateWindow]
<1>4. [w EXCEPT ![ip] = new] \in [Ips -> RollingWindow]
  BY <1>1, <1>2
<1>5. CASE Record(store, ip)
  <2>1. windows' = [windows EXCEPT ![store] = [w EXCEPT ![ip] = new]]
    BY <1>5 DEF Record
  <2>2. accepted' = [accepted EXCEPT ![store][ip] = WithEvent(accepted[store][ip])]
    BY <1>5 DEF Record
  <2>3. windows' \in [Stores -> [Ips -> RollingWindow]]
    <3> HIDE DEF w, new
    <3> QED BY <2>1, <1>4 DEF TypeOK
  <2>4. accepted' \in [Stores -> [Ips -> [Ages -> Nat]]]
    <3> DEFINE counted == WithEvent(accepted[store][ip])
    <3>1. counted \in [Ages -> Nat] /\ accepted' = [accepted EXCEPT ![store][ip] = counted]
      BY <1>3, <2>2
    <3> HIDE DEF counted
    <3> QED BY <3>1 DEF TypeOK
  <2> QED BY <2>3, <2>4
<1>6. CASE RecordRefused(store)
  BY <1>1, <1>6 DEF RecordRefused, TypeOK
<1> QED BY <1>5, <1>6

LEMMA TicketsTyped ==
  ASSUME TypeOK
  PROVE  /\ FreeTicket \in Ticket
         /\ \A t \in Tickets : /\ Consumed(t) \in [Tickets -> Ticket]
                               /\ TicketsAfterTimer(t) \in [Tickets -> Ticket]
         /\ \A u \in Users : TicketsFor(u) \in [Tickets -> Ticket]
         /\ [t \in Tickets |-> IF t \in Expired THEN FreeTicket ELSE tickets[t]]
               \in [Tickets -> Ticket]
         /\ \A gone : IndexWithout(gone) \in [Users -> Tickets \cup {NoTicket}]
<1> USE GuestAccessAssumption
<1>1. FreeTicket \in Ticket
  BY DEF FreeTicket, Ticket
<1>2. \A t \in Tickets : tickets[t] \in Ticket /\ [tickets[t] EXCEPT !.state = "replaced"] \in Ticket
  BY DEF TypeOK, Ticket
<1>3. \A gone : IndexWithout(gone) \in [Users -> Tickets \cup {NoTicket}]
  BY DEF IndexWithout, TypeOK
<1> QED BY <1>1, <1>2, <1>3 DEF Consumed, TicketsAfterTimer, TicketsFor, TypeOK

LEMMA SocketsTyped ==
  ASSUME TypeOK
  PROVE  /\ FreeSocket \in Socket
         /\ \A t \in Tickets : Handshake(t) \in Socket
         /\ Refused \in Socket
         /\ \A s \in Sockets : \A t \in Tickets \cup {NoTicket}, u \in Users \cup {NoUser} :
               HandToHub(s, t, u) => sock' \in [Sockets -> Socket]
<1>1. /\ FreeSocket \in Socket
      /\ \A t \in Tickets : Handshake(t) \in Socket
      /\ Refused \in Socket
      /\ \A t \in Tickets \cup {NoTicket}, u \in Users \cup {NoUser} : Admitted(t, u) \in Socket
  BY DEF FreeSocket, Handshake, Refused, Admitted, Socket
<1>2. \A x \in Sockets : sock[x] \in Socket /\ [sock[x] EXCEPT !.phase = "leaving"] \in Socket
  BY DEF TypeOK, Socket
<1> QED BY <1>1, <1>2 DEF HandToHub

LEMMA TypeInit == Init => TypeOK
<1> SUFFICES ASSUME Init PROVE TypeOK
  OBVIOUS
<1> USE GuestAccessAssumption
<1>1. NoEvents \in [Ages -> Nat] /\ Untracked \in RollingWindow
  BY DEF NoEvents, Ages, Untracked, RollingWindow
<1>2. FreeTicket \in Ticket /\ NoLease \in Lease /\ FreeSocket \in Socket
  BY DEF FreeTicket, Ticket, NoLease, Lease, FreeSocket, Socket
<1> QED BY <1>1, <1>2 DEF Init, TypeOK

LEMMA TypeGuestStep == TypeOK /\ GuestStep => TypeOK'
<1> SUFFICES ASSUME TypeOK, GuestStep PROVE TypeOK'
  OBVIOUS
<1> USE DEF TypeOK
<1>0. "creation" \in Stores /\ "ticket" \in Stores /\ SessionIp \in [Users -> Ips]
  BY GuestAccessAssumption DEF Stores
<1>1. ASSUME NEW ip \in Ips, CreateSession(ip) \/ CreateSessionRefused(ip) PROVE TypeOK'
  BY <1>1, <1>0, RecordTyped DEF CreateSession, CreateSessionRefused
<1>2. ASSUME NEW u \in Users, NEW t \in Tickets, GuestTicket(u, t) PROVE TypeOK'
  <2> DEFINE new == [state |-> "stored", user |-> u, ip |-> SessionIp[u], left |-> TicketTtl]
  <2>1. new \in Ticket
    BY <1>0, GuestAccessAssumption DEF Ticket
  <2>2. tickets' = [TicketsFor(u) EXCEPT ![t] = new]
    BY <1>2 DEF GuestTicket
  <2>3. tickets' \in [Tickets -> Ticket]
    BY <2>1, <2>2, TicketsTyped
  <2>4. index' \in [Users -> Tickets \cup {NoTicket}]
    BY <1>2, TicketsTyped DEF GuestTicket
  <2>5. Record("ticket", SessionIp[u]) /\ UNCHANGED <<demo, leases, sock>>
    BY <1>2 DEF GuestTicket
  <2> QED BY <2>3, <2>4, <2>5, <1>0, RecordTyped
<1>3. ASSUME NEW u \in Users, GuestTicketNoRoom(u) PROVE TypeOK'
  <2>1. /\ tickets' = TicketsFor(u)
        /\ index' = [IndexWithout(Expired) EXCEPT ![u] = NoTicket]
        /\ Record("ticket", SessionIp[u]) /\ UNCHANGED <<demo, leases, sock>>
    BY <1>3 DEF GuestTicketNoRoom
  <2> QED BY <2>1, <1>0, TicketsTyped, RecordTyped
<1>4. ASSUME NEW u \in Users, GuestTicketTooOften(u) PROVE TypeOK'
  <2>1. /\ tickets' = [t \in Tickets |-> IF t \in Expired THEN FreeTicket ELSE tickets[t]]
        /\ index' = IndexWithout(Expired)
        /\ RecordRefused("ticket") /\ UNCHANGED <<demo, leases, sock>>
    BY <1>4 DEF GuestTicketTooOften
  <2> QED BY <2>1, <1>0, TicketsTyped, RecordTyped
<1>5. ASSUME NEW s \in Sockets, NEW t \in Tickets, NEW ip \in Ips, GuestAdmitted(s, t, ip)
      PROVE TypeOK'
  <2>1. tickets[t].user \in Users \cup {NoUser}
    BY DEF Ticket
  <2>2. sock' \in [Sockets -> Socket]
    BY <1>5, <2>1, SocketsTyped DEF GuestAdmitted
  <2>3. leases' \in [Users -> Lease]
    BY <1>5 DEF GuestAdmitted, Lease
  <2>4. tickets' = Consumed(t) /\ index' = IndexWithout({t}) /\ UNCHANGED <<demo, windows, accepted>>
    BY <1>5 DEF GuestAdmitted, ConsumeGuestTicket
  <2> QED BY <2>2, <2>3, <2>4, TicketsTyped
<1>6. ASSUME NEW s \in Sockets, NEW t \in Tickets, NEW ip \in Ips,
             GuestOverLimit(s, t, ip)
      PROVE TypeOK'
  <2>1. /\ tickets' = Consumed(t) /\ index' = IndexWithout({t})
        /\ sock' = [sock EXCEPT ![s] = Refused]
        /\ UNCHANGED <<demo, windows, leases, accepted>>
    BY <1>6 DEF GuestOverLimit, ConsumeGuestTicket
  <2> QED BY <2>1, TicketsTyped, SocketsTyped
<1>7. ASSUME NEW t \in Tickets, TicketTimer(t) PROVE TypeOK'
  <2>1. /\ tickets' = TicketsAfterTimer(t) /\ index' = IndexWithout({t})
        /\ UNCHANGED <<demo, windows, leases, sock, accepted>>
    BY <1>7 DEF TicketTimer
  <2> QED BY <2>1, TicketsTyped
<1>8. ASSUME NEW store \in Stores, NEW ip \in Ips, WindowTimer(store, ip) PROVE TypeOK'
  <2>1. Untracked \in RollingWindow
    BY GuestAccessAssumption DEF Untracked, RollingWindow, NoEvents, Ages
  <2> QED BY <1>8, <2>1 DEF WindowTimer
<1>9. ASSUME NEW s \in Sockets, NEW t \in Tickets, GuestTicketBad(s, t) PROVE TypeOK'
  <2>1. /\ tickets' = Consumed(t) /\ index' = IndexWithout({t})
        /\ sock' = [sock EXCEPT ![s] = Refused]
        /\ UNCHANGED <<demo, windows, leases, accepted>>
    BY <1>9 DEF GuestTicketBad, ConsumeGuestTicket
  <2> QED BY <2>1, TicketsTyped, SocketsTyped
<1> HIDE DEF TypeOK
<1> QED BY <1>1, <1>2, <1>3, <1>4, <1>5, <1>6, <1>7, <1>8, <1>9 DEF GuestStep

LEMMA TypeMemberStep == TypeOK /\ SocketsSound /\ MemberStep => TypeOK'
<1> SUFFICES ASSUME TypeOK, SocketsSound, MemberStep PROVE TypeOK'
  OBVIOUS
<1> USE DEF TypeOK
<1>0. \A s \in Sockets : sock[s].answer \in {"asked", "found"} => sock[s].ticket \in Tickets
  BY DEF SocketsSound, SoundSocket
<1>1. ASSUME NEW u \in Users, NEW t \in Tickets, MemberTicket(u, t) PROVE TypeOK'
  <2> DEFINE new == [state |-> "stored", user |-> u, ip |-> NoIp, left |-> TicketTtl]
  <2>1. new \in Ticket
    BY GuestAccessAssumption DEF Ticket
  <2> QED BY <1>1, <2>1 DEF MemberTicket
<1>2. ASSUME NEW s \in Sockets, NEW t \in Tickets, MemberPresents(s, t) PROVE TypeOK'
  <2>1. Handshake(t) \in Socket
    BY SocketsTyped
  <2> QED BY <1>2, <2>1 DEF MemberPresents, guestVars
<1>3. ASSUME NEW s \in Sockets, MemberTicketGood(s) PROVE TypeOK'
  <2> DEFINE t == sock[s].ticket
             u == tickets[t].user
             new == [sock[s] EXCEPT !.answer = "found", !.user = u]
  <2>1. t \in Tickets
    BY <1>0, <1>3 DEF MemberTicketGood
  <2>2. /\ tickets' = Consumed(t) /\ sock' = [sock EXCEPT ![s] = new]
        /\ UNCHANGED <<demo, windows, index, leases, accepted>>
    BY <1>3 DEF MemberTicketGood
  <2>3. u \in Users \cup {NoUser}
    BY <2>1 DEF Ticket
  <2>4. new \in Socket
    <3>1. sock[s] \in Socket
      OBVIOUS
    <3> QED BY <2>3, <3>1 DEF Socket
  <2>5. sock' \in [Sockets -> Socket]
    BY <2>2, <2>4
  <2> QED BY <2>1, <2>2, <2>5, TicketsTyped
<1>4. ASSUME NEW s \in Sockets, MemberTicketBad(s) PROVE TypeOK'
  <2>1. sock[s].ticket \in Tickets
    BY <1>0, <1>4 DEF MemberTicketBad
  <2>2. tickets' \in [Tickets -> Ticket]
    BY <1>4, <2>1, TicketsTyped DEF MemberTicketBad
  <2>3. [sock[s] EXCEPT !.answer = "missing"] \in Socket
    BY DEF Socket
  <2> QED BY <1>4, <2>2, <2>3 DEF MemberTicketBad
<1>5. ASSUME NEW s \in Sockets, MemberAdmitted(s) PROVE TypeOK'
  <2>1. sock[s].ticket \in Tickets \cup {NoTicket} /\ sock[s].user \in Users \cup {NoUser}
    BY DEF Socket
  <2>2. sock' \in [Sockets -> Socket]
    BY <1>5, <2>1, SocketsTyped DEF MemberAdmitted
  <2> QED BY <1>5, <2>2 DEF MemberAdmitted, guestVars
<1>6. ASSUME NEW s \in Sockets, MemberRefused(s) \/ AnswerTooLate(s) PROVE TypeOK'
  BY <1>6, SocketsTyped DEF MemberRefused, AnswerTooLate, guestVars
<1> HIDE DEF TypeOK
<1> QED BY <1>1, <1>2, <1>3, <1>4, <1>5, <1>6 DEF MemberStep

LEMMA TypeSocketStep == TypeOK /\ SocketStep => TypeOK'
<1> SUFFICES ASSUME TypeOK, NEW s \in Sockets,
                    BadQuery(s) \/ SocketCloses(s) \/ SocketClosed(s)
             PROVE  TypeOK'
  BY DEF SocketStep
<1> USE DEF TypeOK
<1>1. CASE BadQuery(s)
  BY <1>1, SocketsTyped DEF BadQuery, guestVars
<1>2. CASE SocketCloses(s)
  <2>1. \A phase \in {"closing", "leaving"} : [sock[s] EXCEPT !.phase = phase] \in Socket
    BY DEF Socket
  <2> QED BY <1>2, <2>1 DEF SocketCloses, guestVars
<1>3. CASE SocketClosed(s)
  <2>1. [sock[s] EXCEPT !.phase = "gone"] \in Socket
    BY DEF Socket
  <2>2. sock' \in [Sockets -> Socket]
    BY <1>3, <2>1, SocketsTyped DEF SocketClosed
  <2>3. ReleasedLease(s) \in [Users -> Lease]
    BY DEF ReleasedLease, NoLease, Lease
  <2> QED BY <1>3, <2>2, <2>3 DEF SocketClosed
<1> QED BY <1>1, <1>2, <1>3

LEMMA TypeTick == TypeOK /\ Tick => TypeOK'
<1> SUFFICES ASSUME TypeOK, Tick PROVE TypeOK'
  OBVIOUS
<1>1. \A t \in Tickets : OlderTicket(tickets[t]) \in Ticket
  <2> SUFFICES ASSUME NEW x \in Ticket PROVE OlderTicket(x) \in Ticket
    BY DEF TypeOK
  <2>1. x.left \in 0..TicketTtl /\ TicketTtl \in Nat
    BY GuestAccessAssumption DEF Ticket
  <2>2. x.left # 0 => x.left - 1 \in 0..TicketTtl
    BY <2>1
  <2> QED BY <2>2 DEF OlderTicket, Ticket
<1>2. \A store \in Stores, ip \in Ips : OlderWindow(windows[store][ip]) \in RollingWindow
  <2> SUFFICES ASSUME NEW w \in RollingWindow PROVE OlderWindow(w) \in RollingWindow
    BY DEF TypeOK
  <2>1. Aged(w.events) \in [Ages -> Nat]
    BY WindowsTyped, GuestAccessAssumption DEF RollingWindow, Stores
  <2>2. w.left \in 0..RateWindow /\ RateWindow \in Nat
    BY GuestAccessAssumption DEF RollingWindow
  <2>3. w.left # 0 => w.left - 1 \in 0..RateWindow
    BY <2>2
  <2> QED BY <2>1, <2>3 DEF OlderWindow, RollingWindow
<1>3. \A store \in Stores, ip \in Ips : Aged(accepted[store][ip]) \in [Ages -> Nat]
  BY WindowsTyped DEF TypeOK
<1> QED BY <1>1, <1>2, <1>3 DEF Tick, TypeOK

-----------------------------------------------------------------------------
(* Soundness *)

LEMMA SoundHandToHub ==
  ASSUME TypeOK, SocketsSound, NEW s \in Sockets, NEW t \in Tickets \cup {NoTicket},
         NEW u \in Users, ~demo => t \in Tickets, HandToHub(s, t, u), UNCHANGED demo
  PROVE  SocketsSound'
<1>1. \A x \in Sockets : sock[x] \in Socket /\ SoundSocket(sock[x])
  BY DEF TypeOK, SocketsSound
<1>2. SoundSocket(Admitted(t, u))
  BY DEF SoundSocket, Admitted
<1>3. \A x \in Sockets : sock[x].phase = "open" =>
         SoundSocket([sock[x] EXCEPT !.phase = "leaving"])
  BY <1>1 DEF SoundSocket, Socket
<1> QED BY <1>1, <1>2, <1>3 DEF HandToHub, SocketsSound, SoundSocket

LEMMA SoundGuestStep == TypeOK /\ Sound /\ GuestStep => Sound'
<1> SUFFICES ASSUME TypeOK, Sound, GuestStep PROVE Sound'
  OBVIOUS
<1> DEFINE TicketsAgree == TicketsSound /\ IndexAgrees
<1> USE GuestAccessAssumption
<1>0. /\ SocketsSound /\ TicketsAgree
      /\ sock \in [Sockets -> Socket] /\ tickets \in [Tickets -> Ticket]
      /\ index \in [Users -> Tickets \cup {NoTicket}]
      /\ SoundSocket(Refused)
  BY DEF TypeOK, Sound, SoundSocket, Refused
<1>1. ASSUME NEW s \in Sockets, sock' = [sock EXCEPT ![s] = Refused], UNCHANGED demo
      PROVE  SocketsSound'
  BY <1>0, <1>1 DEF SocketsSound, SoundSocket
<1>2. ASSUME UNCHANGED <<demo, sock>> PROVE SocketsSound'
  BY <1>0, <1>2 DEF SocketsSound, SoundSocket
<1>3. ASSUME NEW t \in Tickets, tickets' = Consumed(t) \/ tickets' = TicketsAfterTimer(t),
             index' = IndexWithout({t}), demo' = demo
      PROVE  TicketsAgree'
  BY <1>0, <1>3 DEF TicketsSound, IndexAgrees, Stored, Consumed, TicketsAfterTimer, FreeTicket,
         IndexWithout
<1>4. ASSUME NEW u \in Users, demo, NEW x \in Tickets
      PROVE  LET y == TicketsFor(u)[x] IN
             \/ y.state = "free" /\ (x = index[u] \/ x \in Expired)
             \/ /\ x = index[u] /\ y.state = "replaced"
                /\ tickets[x].state = "stored" /\ y.user = tickets[x].user
             \/ x # index[u] /\ x \notin Expired /\ y = tickets[x]
  <2>1. tickets[x] \in Ticket
    BY <1>0
  <2>2. x = index[u] => tickets[x].state = "stored"
    BY <1>0, <1>4 DEF IndexAgrees, Stored
  <2> QED BY <2>1, <2>2 DEF TicketsFor, FreeTicket, Ticket
<1>5. ASSUME NEW u \in Users, NEW t \in Tickets, GuestTicket(u, t) PROVE Sound'
  <2> DEFINE new == [state |-> "stored", user |-> u, ip |-> SessionIp[u], left |-> TicketTtl]
  <2>1. /\ demo /\ tickets[t].state = "free"
        /\ tickets' = [TicketsFor(u) EXCEPT ![t] = new]
        /\ index' = [IndexWithout(Expired) EXCEPT ![u] = t]
        /\ UNCHANGED <<demo, leases, sock>>
    BY <1>5 DEF GuestTicket, Fresh
  <2>2. /\ tickets'[t].state = "stored" /\ tickets'[t].user = u
        /\ \A x \in Tickets : x # t => tickets'[x] = TicketsFor(u)[x]
    BY <2>1, TicketsTyped
  <2>3. /\ index'[u] = t
        /\ \A v \in Users : v # u =>
              index'[v] = IF index[v] \in Expired THEN NoTicket ELSE index[v]
    BY <2>1, TicketsTyped DEF IndexWithout
  <2>4. TicketsSound'
    BY <1>0, <1>4, <2>1, <2>2 DEF TicketsSound
  <2>5. ASSUME NEW v \in Users, NEW x \in Tickets
        PROVE  index'[v] = x <=> tickets'[x].state = "stored" /\ tickets'[x].user = v
    <3>1. index[v] = x <=> tickets[x].state = "stored" /\ tickets[x].user = v
      BY <1>0, <2>1 DEF IndexAgrees, Stored
    <3>2. index[u] = x <=> tickets[x].state = "stored" /\ tickets[x].user = u
      BY <1>0, <2>1 DEF IndexAgrees, Stored
    <3>3. x \in Expired => tickets[x].state = "stored"
      BY DEF Expired, Stored
    <3>4. CASE x = t
      BY <2>1, <2>2, <2>3, <3>1, <3>4
    <3>5. CASE x # t
      BY <1>4, <2>1, <2>2, <2>3, <3>1, <3>2, <3>3, <3>5
    <3> QED BY <3>4, <3>5
  <2>6. IndexAgrees'
    BY <2>5 DEF IndexAgrees, Stored
  <2> QED BY <1>2, <2>1, <2>4, <2>6 DEF Sound
<1>6. ASSUME NEW u \in Users, GuestTicketNoRoom(u) PROVE Sound'
  <2>1. /\ demo /\ tickets' = TicketsFor(u)
        /\ index' = [IndexWithout(Expired) EXCEPT ![u] = NoTicket]
        /\ UNCHANGED <<demo, leases, sock>>
    BY <1>6 DEF GuestTicketNoRoom
  <2>2. \A v \in Users : index'[v] = IF v = u \/ index[v] \in Expired THEN NoTicket ELSE index[v]
    BY <2>1, TicketsTyped DEF IndexWithout
  <2>3. TicketsSound'
    BY <1>0, <1>4, <2>1 DEF TicketsSound
  <2>4. ASSUME NEW v \in Users, NEW x \in Tickets
        PROVE  index'[v] = x <=> tickets'[x].state = "stored" /\ tickets'[x].user = v
    <3>1. index[v] = x <=> tickets[x].state = "stored" /\ tickets[x].user = v
      BY <1>0, <2>1 DEF IndexAgrees, Stored
    <3>2. index[u] = x <=> tickets[x].state = "stored" /\ tickets[x].user = u
      BY <1>0, <2>1 DEF IndexAgrees, Stored
    <3>3. x \in Expired => tickets[x].state = "stored"
      BY DEF Expired, Stored
    <3> QED BY <1>4, <2>1, <2>2, <3>1, <3>2, <3>3
  <2>5. IndexAgrees'
    BY <2>4 DEF IndexAgrees, Stored
  <2> QED BY <1>2, <2>1, <2>3, <2>5 DEF Sound
<1>7. ASSUME NEW u \in Users, GuestTicketTooOften(u) PROVE Sound'
  <2>1. /\ demo /\ tickets' = [t \in Tickets |-> IF t \in Expired THEN FreeTicket ELSE tickets[t]]
        /\ index' = IndexWithout(Expired)
        /\ UNCHANGED <<demo, leases, sock>>
    BY <1>7 DEF GuestTicketTooOften
  <2>2. TicketsAgree'
    BY <1>0, <2>1 DEF TicketsSound, IndexAgrees, IndexWithout, Stored, Expired, FreeTicket
  <2> QED BY <1>2, <2>1, <2>2 DEF Sound
<1>8. ASSUME NEW s \in Sockets, NEW t \in Tickets, NEW ip \in Ips, GuestAdmitted(s, t, ip)
      PROVE  Sound'
  <2>1. tickets[t].user \in Users
    BY <1>0, <1>8 DEF GuestAdmitted, Good, TicketsSound
  <2>2. SocketsSound'
    BY <1>0, <1>8, <2>1, SoundHandToHub DEF GuestAdmitted
  <2>3. TicketsAgree'
    BY <1>3, <1>8 DEF GuestAdmitted, ConsumeGuestTicket
  <2> QED BY <1>8, <2>2, <2>3 DEF Sound, GuestAdmitted
<1>9. ASSUME NEW s \in Sockets, NEW t \in Tickets,
             GuestTicketBad(s, t) \/ \E ip \in Ips : GuestOverLimit(s, t, ip)
      PROVE  Sound'
  <2>1. TicketsAgree' /\ SocketsSound'
    BY <1>1, <1>3, <1>9 DEF GuestTicketBad, GuestOverLimit, ConsumeGuestTicket
  <2> QED BY <1>9, <2>1 DEF Sound, GuestTicketBad, GuestOverLimit
<1>10. ASSUME NEW t \in Tickets, TicketTimer(t) PROVE Sound'
  <2>1. TicketsAgree' /\ SocketsSound'
    BY <1>2, <1>3, <1>10 DEF TicketTimer
  <2> QED BY <1>10, <2>1 DEF Sound, TicketTimer
<1>11. ASSUME UNCHANGED <<demo, tickets, index, leases, sock>> PROVE Sound'
  BY <1>0, <1>2, <1>11 DEF Sound, TicketsSound, IndexAgrees, Stored
<1>12. ASSUME NEW ip \in Ips, CreateSession(ip) \/ CreateSessionRefused(ip) PROVE Sound'
  BY <1>11, <1>12 DEF CreateSession, CreateSessionRefused
<1>13. ASSUME NEW store \in Stores, NEW ip \in Ips, WindowTimer(store, ip) PROVE Sound'
  BY <1>11, <1>13 DEF WindowTimer
<1> QED BY <1>5, <1>6, <1>7, <1>8, <1>9, <1>10, <1>12, <1>13 DEF GuestStep

LEMMA SoundMemberStep == TypeOK /\ Sound /\ MemberStep => Sound'
<1> SUFFICES ASSUME TypeOK, Sound, MemberStep PROVE Sound'
  OBVIOUS
<1>0. /\ SocketsSound /\ TicketsSound
      /\ sock \in [Sockets -> Socket] /\ tickets \in [Tickets -> Ticket]
      /\ SoundSocket(Refused) /\ SoundSocket(FreeSocket)
      /\ UNCHANGED <<demo, leases>>
  BY DEF TypeOK, Sound, SoundSocket, Refused, FreeSocket, MemberStep, MemberTicket,
         MemberPresents, MemberTicketGood, MemberTicketBad, MemberAdmitted, MemberRefused,
         AnswerTooLate, guestVars
<1>1. ASSUME NEW s \in Sockets, NEW new, SoundSocket(new), sock' = [sock EXCEPT ![s] = new]
      PROVE  SocketsSound'
  BY <1>0, <1>1 DEF SocketsSound, SoundSocket
<1>2. ASSUME SocketsSound', TicketsSound' PROVE Sound'
  <2>1. ~demo'
    BY <1>0 DEF MemberStep, Sound, SocketsSound, SoundSocket, MemberTicket, MemberPresents,
           MemberTicketGood, MemberTicketBad, MemberAdmitted, MemberRefused, AnswerTooLate
  <2> QED BY <1>0, <1>2, <2>1 DEF Sound, IndexAgrees
<1>3. ASSUME UNCHANGED guestVars PROVE TicketsSound'
  BY <1>0, <1>3 DEF TicketsSound, guestVars
<1>4. ASSUME NEW u \in Users, NEW t \in Tickets, MemberTicket(u, t) PROVE Sound'
  <2>1. TicketsSound'
    BY <1>0, <1>4 DEF MemberTicket, TicketsSound
  <2>2. SocketsSound'
    BY <1>0, <1>4 DEF MemberTicket, SocketsSound, SoundSocket
  <2> QED BY <1>2, <2>1, <2>2
<1>5. ASSUME NEW s \in Sockets, NEW t \in Tickets, MemberPresents(s, t) PROVE Sound'
  <2>1. SoundSocket(Handshake(t))
    BY <1>5 DEF MemberPresents, SoundSocket, Handshake
  <2> QED BY <1>1, <1>2, <1>3, <1>5, <2>1 DEF MemberPresents
<1>6. ASSUME NEW s \in Sockets, MemberTicketGood(s) PROVE Sound'
  <2> DEFINE t == sock[s].ticket
             new == [sock[s] EXCEPT !.answer = "found", !.user = tickets[t].user]
  <2>1. /\ sock[s].answer = "asked" /\ Good(t) /\ tickets' = Consumed(t)
        /\ sock' = [sock EXCEPT ![s] = new]
    BY <1>6 DEF MemberTicketGood
  <2>2. t \in Tickets
    BY <1>0, <2>1 DEF SocketsSound, SoundSocket
  <2>3. tickets[t].user \in Users
    BY <1>0, <2>1, <2>2 DEF Good, TicketsSound
  <2>4. SoundSocket(new)
    BY <1>0, <2>1, <2>3 DEF SocketsSound, SoundSocket, Socket
  <2>5. TicketsSound'
    BY <1>0, <2>1, <2>2 DEF Consumed, TicketsSound, FreeTicket
  <2> QED BY <1>1, <1>2, <2>1, <2>4, <2>5
<1>7. ASSUME NEW s \in Sockets, MemberTicketBad(s) PROVE Sound'
  <2>1. SoundSocket([sock[s] EXCEPT !.answer = "missing"])
    BY <1>0, <1>7 DEF MemberTicketBad, SocketsSound, SoundSocket, Socket
  <2>2. sock[s].ticket \in Tickets
    BY <1>0, <1>7 DEF MemberTicketBad, SocketsSound, SoundSocket
  <2>3. TicketsSound'
    BY <1>0, <1>7, <2>2 DEF MemberTicketBad, Consumed, TicketsSound, FreeTicket
  <2> QED BY <1>1, <1>2, <1>7, <2>1, <2>3 DEF MemberTicketBad
<1>8. ASSUME NEW s \in Sockets, MemberAdmitted(s) PROVE Sound'
  <2>1. sock[s].ticket \in Tickets /\ sock[s].user \in Users
    BY <1>0, <1>8 DEF MemberAdmitted, SocketsSound, SoundSocket
  <2>2. SocketsSound'
    BY <1>0, <1>8, <2>1, SoundHandToHub DEF MemberAdmitted
  <2> QED BY <1>2, <1>3, <1>8, <2>2 DEF MemberAdmitted
<1>9. ASSUME NEW s \in Sockets, MemberRefused(s) \/ AnswerTooLate(s) PROVE Sound'
  <2>1. \E new \in {Refused, FreeSocket} : sock' = [sock EXCEPT ![s] = new]
    BY <1>9 DEF MemberRefused, AnswerTooLate
  <2> QED BY <1>0, <1>1, <1>2, <1>3, <1>9, <2>1 DEF MemberRefused, AnswerTooLate
<1> QED BY <1>4, <1>5, <1>6, <1>7, <1>8, <1>9 DEF MemberStep

LEMMA SoundSocketStep == TypeOK /\ Sound /\ SocketStep => Sound'
<1> SUFFICES ASSUME TypeOK, Sound, NEW s \in Sockets,
                    BadQuery(s) \/ SocketCloses(s) \/ SocketClosed(s)
             PROVE  Sound'
  BY DEF SocketStep
<1>0. /\ SocketsSound /\ TicketsSound
      /\ sock \in [Sockets -> Socket]
      /\ SoundSocket(sock[s]) /\ sock[s] \in Socket
      /\ UNCHANGED <<demo, tickets>>
  BY DEF TypeOK, Sound, SocketsSound, BadQuery, SocketCloses, SocketClosed, guestVars
<1>1. ASSUME NEW new, SoundSocket(new), sock' = [sock EXCEPT ![s] = new] PROVE SocketsSound'
  BY <1>0, <1>1 DEF SocketsSound, SoundSocket
<1>2. TicketsSound'
  BY <1>0 DEF TicketsSound
<1>6. IndexAgrees'
  BY <1>0 DEF Sound, IndexAgrees, Stored, BadQuery, SocketCloses, SocketClosed, guestVars
<1>3. CASE BadQuery(s)
  <2>1. SoundSocket(Refused)
    BY DEF SoundSocket, Refused
  <2>2. SocketsSound'
    BY <1>1, <1>3, <2>1 DEF BadQuery
  <2> QED BY <1>0, <1>2, <1>3, <1>6, <2>2 DEF BadQuery, guestVars, Sound
<1>4. CASE SocketCloses(s)
  <2> DEFINE new == [sock[s] EXCEPT !.phase = IF @ = "open" THEN "leaving" ELSE "closing"]
  <2>1. SoundSocket(new)
    BY <1>0, <1>4 DEF SocketCloses, SoundSocket, Socket
  <2>2. sock' = [sock EXCEPT ![s] = new]
    BY <1>4 DEF SocketCloses
  <2> HIDE DEF new
  <2>3. SocketsSound'
    BY <1>1, <2>1, <2>2
  <2> QED BY <1>0, <1>2, <1>4, <1>6, <2>3 DEF SocketCloses, guestVars, Sound
<1>5. CASE SocketClosed(s)
  <2> DEFINE new == IF sock[s].answer = "none" THEN FreeSocket ELSE [sock[s] EXCEPT !.phase = "gone"]
  <2>1. SoundSocket(new)
    BY <1>0, <1>5 DEF SocketClosed, SoundSocket, Socket, FreeSocket
  <2>2. sock' = [sock EXCEPT ![s] = new] /\ leases' = ReleasedLease(s)
    BY <1>5 DEF SocketClosed
  <2>3. ~demo' => \A u \in Users : leases'[u] = NoLease
    BY <1>0, <2>2 DEF Sound, ReleasedLease
  <2> HIDE DEF new
  <2>4. SocketsSound'
    BY <1>1, <2>1, <2>2
  <2> QED BY <1>2, <1>6, <2>3, <2>4 DEF Sound
<1> QED BY <1>3, <1>4, <1>5

LEMMA SoundTick == TypeOK /\ Sound /\ Tick => Sound'
<1> SUFFICES ASSUME TypeOK, Sound, Tick PROVE Sound'
  OBVIOUS
<1>0. /\ \A t \in Tickets : /\ tickets'[t].state = tickets[t].state
                            /\ tickets'[t].user = tickets[t].user
      /\ UNCHANGED <<demo, index, leases, sock>>
  BY DEF Tick, OlderTicket, TypeOK, Ticket
<1>1. TicketsSound' /\ IndexAgrees'
  BY <1>0 DEF Sound, TicketsSound, IndexAgrees, Stored
<1>2. SocketsSound'
  BY <1>0 DEF Sound, SocketsSound, SoundSocket
<1> QED BY <1>0, <1>1, <1>2 DEF Sound

\* Every reachable state has well-typed data, with a player behind every stored
\* ticket, every connected socket and every answer of the database.
THEOREM TypeCorrect == Spec => [](TypeOK /\ Sound)
<1>1. Init => TypeOK /\ Sound
  <2>1. Init => Sound
    BY GuestAccessAssumption
       DEF Init, Sound, SocketsSound, SoundSocket, FreeSocket, TicketsSound, FreeTicket,
           IndexAgrees, Stored
  <2> QED BY <2>1, TypeInit
<1>2. TypeOK /\ Sound /\ [Next]_vars => (TypeOK /\ Sound)'
  <2>1. TypeOK /\ Sound /\ Next => TypeOK'
    BY TypeGuestStep, TypeMemberStep, TypeSocketStep, TypeTick DEF Next, Sound
  <2>2. TypeOK /\ Sound /\ Next => Sound'
    BY SoundGuestStep, SoundMemberStep, SoundSocketStep, SoundTick DEF Next
  <2>3. TypeOK /\ Sound /\ UNCHANGED vars => (TypeOK /\ Sound)'
    BY DEF vars, guestVars, TypeOK, Sound, SocketsSound, SoundSocket, TicketsSound,
           IndexAgrees, Stored
  <2> QED BY <2>1, <2>2, <2>3
<1> QED BY <1>1, <1>2, PTL DEF Spec

-----------------------------------------------------------------------------
(* Limits *)

LeaseLimits ==
    /\ \A ip \in Ips : Cardinality(LeasedAt(ip)) <= ConnectionsPerIp
    /\ Cardinality(Leased) <= ConnectionLimit

TicketLimits ==
    /\ \A ip \in Ips : Cardinality(StoredAt(tickets, ip)) <= TicketsPerIp
    /\ Cardinality(Stored(tickets)) <= TicketLimit

LEMMA SubsetFits ==
  ASSUME NEW T, IsFiniteSet(T), NEW S \in SUBSET T, NEW n \in Nat, Cardinality(T) <= n
  PROVE  Cardinality(S) <= n
BY FS_Subset, FS_CardinalityType

LEMMA OneMoreFits ==
  ASSUME NEW T, IsFiniteSet(T), NEW x, NEW S \in SUBSET (T \cup {x}), NEW n \in Nat,
         Cardinality(T) < n
  PROVE  Cardinality(S) <= n
<1>1. IsFiniteSet(T \cup {x}) /\ Cardinality(T) \in Nat
      /\ Cardinality(T \cup {x}) \in {Cardinality(T), Cardinality(T) + 1}
  BY FS_AddElement, FS_CardinalityType
<1>2. Cardinality(T \cup {x}) <= n
  BY <1>1
<1> QED BY <1>1, <1>2, SubsetFits

LEMMA FiniteHere ==
  /\ IsFiniteSet(Leased) /\ \A ip : IsFiniteSet(LeasedAt(ip))
  /\ \A ts : IsFiniteSet(Stored(ts)) /\ \A ip : IsFiniteSet(StoredAt(ts, ip))
  /\ ConnectionsPerIp \in Nat /\ ConnectionLimit \in Nat
  /\ TicketsPerIp \in Nat /\ TicketLimit \in Nat
BY FS_Subset, GuestAccessAssumption DEF Leased, LeasedAt, Stored, StoredAt

\* A lease is taken by GuestAdmitted alone, a ticket stored by GuestTicket.
LEMMA WhoTakes ==
  ASSUME TypeOK, Sound, [Next]_vars
  PROVE  /\ demo' = demo
         /\ \/ \A u \in Users : leases'[u] \in {leases[u], NoLease}
            \/ \E s \in Sockets, t \in Tickets, ip \in Ips : GuestAdmitted(s, t, ip)
         /\ demo =>
            \/ \A t \in Tickets : tickets'[t].state = "stored" =>
                  tickets[t].state = "stored" /\ tickets'[t].ip = tickets[t].ip
            \/ \E u \in Users, t \in Tickets : GuestTicket(u, t)
<1> DEFINE LeasesShrink == \A u \in Users : leases'[u] \in {leases[u], NoLease}
           TicketsShrink == \A t \in Tickets : tickets'[t].state = "stored" =>
                  tickets[t].state = "stored" /\ tickets'[t].ip = tickets[t].ip
<1>0. /\ leases \in [Users -> Lease] /\ tickets \in [Tickets -> Ticket]
      /\ \A t \in Tickets : tickets[t].state = "stored" => tickets[t] = tickets[t]
  BY DEF TypeOK
<1>1. ASSUME NEW t \in Tickets,
             tickets' = Consumed(t) \/ tickets' = TicketsAfterTimer(t)
      PROVE  TicketsShrink
  BY <1>0, <1>1 DEF Consumed, TicketsAfterTimer, FreeTicket
<1>2. ASSUME NEW u \in Users, tickets' = TicketsFor(u) PROVE TicketsShrink
  BY <1>0, <1>2 DEF TicketsFor, FreeTicket, Ticket
<1>3. CASE GuestStep
  <2>1. ASSUME NEW s \in Sockets, NEW t \in Tickets, NEW ip \in Ips, GuestAdmitted(s, t, ip)
        PROVE  TicketsShrink /\ demo' = demo
    BY <1>1, <2>1 DEF GuestAdmitted, ConsumeGuestTicket
  <2>2. ASSUME NEW s \in Sockets, NEW t \in Tickets,
               GuestTicketBad(s, t) \/ \E ip \in Ips : GuestOverLimit(s, t, ip)
        PROVE  TicketsShrink /\ LeasesShrink /\ demo' = demo
    BY <1>1, <2>2 DEF GuestTicketBad, GuestOverLimit, ConsumeGuestTicket
  <2>3. ASSUME NEW t \in Tickets, TicketTimer(t)
        PROVE  TicketsShrink /\ LeasesShrink /\ demo' = demo
    BY <1>1, <2>3 DEF TicketTimer
  <2>4. ASSUME NEW u \in Users, GuestTicketNoRoom(u)
        PROVE  TicketsShrink /\ LeasesShrink /\ demo' = demo
    BY <1>2, <2>4 DEF GuestTicketNoRoom
  <2>5. ASSUME NEW u \in Users, GuestTicketTooOften(u)
        PROVE  TicketsShrink /\ LeasesShrink /\ demo' = demo
    BY <1>0, <2>5 DEF GuestTicketTooOften, FreeTicket
  <2>6. ASSUME NEW u \in Users, NEW t \in Tickets, GuestTicket(u, t)
        PROVE  LeasesShrink /\ demo' = demo
    BY <2>6 DEF GuestTicket
  <2>7. ASSUME UNCHANGED <<demo, tickets, leases>>
        PROVE  TicketsShrink /\ LeasesShrink /\ demo' = demo
    BY <2>7
  <2>8. ASSUME NEW ip \in Ips, CreateSession(ip) \/ CreateSessionRefused(ip)
        PROVE  TicketsShrink /\ LeasesShrink /\ demo' = demo
    BY <2>7, <2>8 DEF CreateSession, CreateSessionRefused
  <2>9. ASSUME NEW store \in Stores, NEW ip \in Ips, WindowTimer(store, ip)
        PROVE  TicketsShrink /\ LeasesShrink /\ demo' = demo
    BY <2>7, <2>9 DEF WindowTimer
  <2> HIDE DEF TicketsShrink, LeasesShrink
  <2>10. /\ demo' = demo
         /\ LeasesShrink \/ \E s \in Sockets, t \in Tickets, ip \in Ips : GuestAdmitted(s, t, ip)
         /\ TicketsShrink \/ \E u \in Users, t \in Tickets : GuestTicket(u, t)
    BY <1>3, <2>1, <2>2, <2>3, <2>4, <2>5, <2>6, <2>8, <2>9 DEF GuestStep
  <2> QED BY <2>10 DEF TicketsShrink, LeasesShrink
<1>4. CASE MemberStep
  <2>1. ~demo
    BY <1>4 DEF MemberStep, Sound, SocketsSound, SoundSocket, MemberTicket, MemberPresents,
           MemberTicketGood, MemberTicketBad, MemberAdmitted, MemberRefused, AnswerTooLate
  <2>2. UNCHANGED <<demo, leases>>
    BY <1>4 DEF MemberStep, MemberTicket, MemberPresents, MemberTicketGood, MemberTicketBad,
           MemberAdmitted, MemberRefused, AnswerTooLate, guestVars
  <2> QED BY <2>1, <2>2
<1>5. CASE SocketStep
  <2>1. PICK s \in Sockets : BadQuery(s) \/ SocketCloses(s) \/ SocketClosed(s)
    BY <1>5 DEF SocketStep
  <2>2. UNCHANGED <<demo, tickets>> /\ (leases' = leases \/ leases' = ReleasedLease(s))
    BY <2>1 DEF BadQuery, SocketCloses, SocketClosed, guestVars
  <2> QED BY <2>2 DEF ReleasedLease
<1>6. CASE Tick
  BY <1>0, <1>6 DEF Tick, OlderTicket, Ticket
<1>7. CASE UNCHANGED vars
  BY <1>7 DEF vars, guestVars
<1> QED BY <1>3, <1>4, <1>5, <1>6, <1>7 DEF Next

LEMMA LeaseLimitsStep ==
  ASSUME TypeOK, Sound, LeaseLimits, [Next]_vars
  PROVE  LeaseLimits'
<1> USE FiniteHere
<1>1. CASE \A u \in Users : leases'[u] \in {leases[u], NoLease}
  <2>1. Leased' \subseteq Leased /\ \A ip \in Ips : LeasedAt(ip)' \subseteq LeasedAt(ip)
    BY <1>1 DEF Leased, LeasedAt, NoLease
  <2> QED BY <2>1, SubsetFits DEF LeaseLimits
<1>2. ASSUME NEW s \in Sockets, NEW t \in Tickets, NEW ip \in Ips, GuestAdmitted(s, t, ip)
      PROVE  LeaseLimits'
  <2> DEFINE u == tickets[t].user
  <2>1. u \in Users
    BY <1>2 DEF GuestAdmitted, Good, Sound, TicketsSound
  <2>2. leases \in [Users -> Lease] /\ leases' = [leases EXCEPT ![u] = [ip |-> ip, socket |-> s]]
    BY <1>2 DEF GuestAdmitted, TypeOK
  <2>3. \A v \in Users : leases'[v] = IF v = u THEN [ip |-> ip, socket |-> s] ELSE leases[v]
    BY <2>2
  <2>4. MayAcquire(u, ip)
    BY <1>2 DEF GuestAdmitted
  <2> HIDE DEF u
  <2>5. /\ Leased' \subseteq Leased \cup {u} /\ LeasedAt(ip)' \subseteq LeasedAt(ip) \cup {u}
        /\ \A i \in Ips \ {ip} : LeasedAt(i)' \subseteq LeasedAt(i)
    BY <2>1, <2>3 DEF Leased, LeasedAt
  <2>6. Cardinality(Leased') <= ConnectionLimit
    <3>1. CASE u \in Leased
      <4>1. Leased' \subseteq Leased
        BY <2>5, <3>1
      <4> QED BY <4>1, SubsetFits DEF LeaseLimits
    <3>2. CASE u \notin Leased
      BY <2>4, <2>5, <3>2, OneMoreFits DEF MayAcquire
    <3> QED BY <3>1, <3>2
  <2>7. Cardinality(LeasedAt(ip)') <= ConnectionsPerIp
    <3>1. CASE u \in Leased /\ leases[u].ip = ip
      <4>1. LeasedAt(ip)' \subseteq LeasedAt(ip)
        BY <2>5, <3>1 DEF LeasedAt
      <4> QED BY <4>1, SubsetFits DEF LeaseLimits
    <3>2. CASE ~(u \in Leased /\ leases[u].ip = ip)
      BY <2>4, <2>5, <3>2, OneMoreFits DEF MayAcquire
    <3> QED BY <3>1, <3>2
  <2>8. \A i \in Ips \ {ip} : Cardinality(LeasedAt(i)') <= ConnectionsPerIp
    BY <2>5, SubsetFits DEF LeaseLimits
  <2> QED BY <2>6, <2>7, <2>8 DEF LeaseLimits
<1> QED BY <1>1, <1>2, WhoTakes

LEMMA TicketLimitsStep ==
  ASSUME TypeOK, Sound, demo, TicketLimits, [Next]_vars
  PROVE  TicketLimits'
<1> USE FiniteHere
<1>1. CASE \A t \in Tickets : tickets'[t].state = "stored" =>
              tickets[t].state = "stored" /\ tickets'[t].ip = tickets[t].ip
  <2>1. /\ Stored(tickets') \subseteq Stored(tickets)
        /\ \A ip \in Ips : StoredAt(tickets', ip) \subseteq StoredAt(tickets, ip)
    BY <1>1 DEF Stored, StoredAt
  <2> QED BY <2>1, SubsetFits DEF TicketLimits
<1>2. ASSUME NEW u \in Users, NEW t \in Tickets, GuestTicket(u, t) PROVE TicketLimits'
  <2> DEFINE ts == TicketsFor(u)
             home == SessionIp[u]
             new == [state |-> "stored", user |-> u, ip |-> home, left |-> TicketTtl]
  <2>1. tickets' = [ts EXCEPT ![t] = new] /\ RoomForTicket(ts, home) /\ ts \in [Tickets -> Ticket]
    BY <1>2, TicketsTyped DEF GuestTicket
  <2>2. home \in Ips
    BY GuestAccessAssumption
  <2>3. /\ Stored(tickets') \subseteq Stored(ts) \cup {t}
        /\ StoredAt(tickets', home) \subseteq StoredAt(ts, home) \cup {t}
        /\ \A ip \in Ips \ {home} : StoredAt(tickets', ip) \subseteq StoredAt(ts, ip)
    <3> HIDE DEF ts, home
    <3> QED BY <2>1 DEF Stored, StoredAt
  <2>4. \A ip \in Ips : StoredAt(ts, ip) \subseteq StoredAt(tickets, ip)
    BY DEF TypeOK, Ticket, TicketsFor, FreeTicket, Stored, StoredAt
  <2> HIDE DEF ts, home
  <2>5. Cardinality(Stored(tickets')) <= TicketLimit
    BY <2>1, <2>3, OneMoreFits DEF RoomForTicket
  <2>6. Cardinality(StoredAt(tickets', home)) <= TicketsPerIp
    BY <2>1, <2>3, OneMoreFits DEF RoomForTicket
  <2>7. ASSUME NEW ip \in Ips \ {home} PROVE Cardinality(StoredAt(tickets', ip)) <= TicketsPerIp
    <3>1. StoredAt(tickets', ip) \subseteq StoredAt(tickets, ip)
      BY <2>3, <2>4
    <3> QED BY <3>1, SubsetFits DEF TicketLimits
  <2> QED BY <2>5, <2>6, <2>7 DEF TicketLimits
<1> QED BY <1>1, <1>2, WhoTakes

\* The limits for leases and for outstanding tickets hold for every number of
\* guests and addresses, the limits of the process included.
THEOREM LimitsHold == Spec => []WithinLimits
<1> DEFINE Inv == LeaseLimits /\ (demo => TicketLimits)
<1>1. Init => Inv
  <2> SUFFICES ASSUME Init PROVE Inv
    OBVIOUS
  <2>1. Leased = {} /\ \A ip \in Ips : LeasedAt(ip) = {}
    BY DEF Init, Leased, LeasedAt, NoLease
  <2>2. Stored(tickets) = {} /\ \A ip \in Ips : StoredAt(tickets, ip) = {}
    BY DEF Init, Stored, StoredAt, FreeTicket
  <2>3. Cardinality({}) = 0
    BY FS_EmptySet
  <2>4. LeaseLimits
    <3>1. ConnectionsPerIp >= 0 /\ ConnectionLimit >= 0
      BY FiniteHere
    <3> QED BY <2>1, <2>3, <3>1 DEF LeaseLimits
  <2>5. TicketLimits
    <3>1. TicketsPerIp >= 0 /\ TicketLimit >= 0
      BY FiniteHere
    <3> QED BY <2>2, <2>3, <3>1 DEF TicketLimits
  <2> QED BY <2>4, <2>5
<1>2. TypeOK /\ Sound /\ Inv /\ [Next]_vars => Inv'
  BY LeaseLimitsStep, TicketLimitsStep, WhoTakes
<1>3. Inv => WithinLimits
  BY DEF LeaseLimits, TicketLimits, WithinLimits
<1> QED BY <1>1, <1>2, <1>3, TypeCorrect, PTL DEF Spec

-----------------------------------------------------------------------------
(* Leases and sockets *)

LEMMA LeasesFollowHandshake ==
  ASSUME TypeOK, Sound, demo, LeasesMatchSockets,
         NEW s \in Sockets, NEW t \in Tickets, NEW ip \in Ips, GuestAdmitted(s, t, ip)
  PROVE  LeasesMatchSockets'
<1> DEFINE u == tickets[t].user
<1> USE GuestAccessAssumption
<1>0. /\ leases \in [Users -> Lease] /\ sock \in [Sockets -> Socket] /\ u \in Users
      /\ sock[s].phase = "free"
  BY DEF TypeOK, GuestAdmitted, Good, Sound, TicketsSound
<1>1. \A v \in Users : leases'[v] = IF v = u THEN [ip |-> ip, socket |-> s] ELSE leases[v]
  BY <1>0 DEF GuestAdmitted
<1>2. /\ sock'[s].phase = "open" /\ sock'[s].user = u
      /\ \A x \in Sockets \ {s} :
            /\ sock'[x].user = sock[x].user
            /\ sock'[x].phase = IF sock[x].phase = "open" /\ sock[x].user = u
                               THEN "leaving" ELSE sock[x].phase
  BY <1>0 DEF GuestAdmitted, HandToHub, Admitted, Socket
<1>3. \A x \in Sockets : sock[x].phase = "open" => sock[x].user \in Users
  BY DEF Sound, SocketsSound, SoundSocket
<1> HIDE DEF u
<1>4. ASSUME NEW x \in Sockets, sock'[x].phase = "open" PROVE leases'[sock'[x].user].socket = x
  <2>1. CASE x = s
    BY <1>0, <1>1, <1>2, <2>1
  <2>2. CASE x # s
    <3>1. sock[x].phase = "open" /\ sock[x].user # u /\ sock'[x].user = sock[x].user
      BY <1>2, <1>4, <2>2
    <3> QED BY <1>1, <1>3, <3>1 DEF LeasesMatchSockets
  <2> QED BY <2>1, <2>2
<1>5. ASSUME NEW v \in Users, leases'[v].socket # NoSocket
      PROVE  LET x == sock'[leases'[v].socket] IN x.user = v /\ x.phase \in {"open", "leaving"}
  <2>1. CASE v = u
    BY <1>1, <1>2, <2>1
  <2>2. CASE v # u
    <3> DEFINE x == leases[v].socket
    <3>1. leases'[v] = leases[v] /\ x # NoSocket /\ x \in Sockets
      BY <1>0, <1>1, <1>5, <2>2 DEF Lease
    <3>2. sock[x].user = v /\ sock[x].phase \in {"open", "leaving"}
      BY <3>1 DEF LeasesMatchSockets, Leased
    <3>3. x # s
      BY <1>0, <3>2
    <3> QED BY <1>2, <2>2, <3>1, <3>2, <3>3
  <2> QED BY <2>1, <2>2
<1> QED BY <1>4, <1>5 DEF LeasesMatchSockets, Leased

LEMMA LeasesFollowClose ==
  ASSUME TypeOK, Sound, LeasesMatchSockets, NEW s \in Sockets, SocketClosed(s)
  PROVE  LeasesMatchSockets'
<1> USE GuestAccessAssumption
<1>0. /\ leases \in [Users -> Lease] /\ sock \in [Sockets -> Socket] /\ demo' = demo
      /\ sock[s].phase \in {"closing", "leaving"}
  BY DEF TypeOK, SocketClosed
<1>1. \A v \in Users : leases'[v] = IF leases[v].socket = s THEN NoLease ELSE leases[v]
  BY DEF SocketClosed, ReleasedLease
<1>2. /\ sock'[s].phase \in {"free", "gone"}
      /\ \A x \in Sockets \ {s} : sock'[x] = sock[x]
  BY <1>0 DEF SocketClosed, FreeSocket, Socket
<1>3. \A x \in Sockets : sock[x].phase = "open" => sock[x].user \in Users
  BY DEF Sound, SocketsSound, SoundSocket
<1>4. ASSUME NEW x \in Sockets, demo', sock'[x].phase = "open"
      PROVE  leases'[sock'[x].user].socket = x
  <2>1. x # s
    BY <1>2, <1>4
  <2>2. sock'[x] = sock[x] /\ sock[x].user \in Users /\ leases[sock[x].user].socket = x
    BY <1>0, <1>2, <1>3, <1>4, <2>1 DEF LeasesMatchSockets
  <2> QED BY <1>1, <2>1, <2>2
<1>5. ASSUME NEW v \in Users, leases'[v].socket # NoSocket
      PROVE  LET x == sock'[leases'[v].socket] IN x.user = v /\ x.phase \in {"open", "leaving"}
  <2> DEFINE x == leases[v].socket
  <2>1. leases'[v] = leases[v] /\ x # NoSocket /\ x # s /\ x \in Sockets
    BY <1>0, <1>1, <1>5 DEF Lease, NoLease
  <2>2. sock[x].user = v /\ sock[x].phase \in {"open", "leaving"}
    BY <2>1 DEF LeasesMatchSockets, Leased
  <2> QED BY <1>2, <2>1, <2>2
<1> QED BY <1>4, <1>5 DEF LeasesMatchSockets, Leased

\* The other steps of the demo mode touch neither a lease nor a socket the hub has.
LEMMA LeasesFollowRest ==
  ASSUME TypeOK, LeasesMatchSockets, UNCHANGED <<demo, leases>>,
         NEW s \in Sockets,
         \/ sock' = sock
         \/ sock[s].phase = "free" /\ sock' = [sock EXCEPT ![s] = Refused]
         \/ SocketCloses(s)
  PROVE  LeasesMatchSockets'
<1>1. /\ leases \in [Users -> Lease] /\ sock \in [Sockets -> Socket]
  BY DEF TypeOK
<1>2. \A x \in Sockets :
         /\ sock'[x].phase = "open" => sock'[x] = sock[x]
         /\ sock[x].phase \in {"open", "leaving"} =>
               sock'[x].user = sock[x].user /\ sock'[x].phase \in {"open", "leaving"}
  BY <1>1 DEF Refused, SocketCloses, Socket
<1>3. \A u \in Users : leases[u].socket # NoSocket => leases[u].socket \in Sockets
  BY <1>1 DEF Lease
<1> QED BY <1>2, <1>3 DEF LeasesMatchSockets, Leased

LEMMA LeasesFollowStep ==
  ASSUME TypeOK, Sound, LeasesMatchSockets, [Next]_vars
  PROVE  LeasesMatchSockets'
<1>0. demo' = demo /\ Sound'
  BY WhoTakes, SoundGuestStep, SoundMemberStep, SoundSocketStep, SoundTick
     DEF Next, vars, guestVars, Sound, SocketsSound, SoundSocket, TicketsSound, IndexAgrees, Stored
<1>1. CASE ~demo
  BY <1>0, <1>1 DEF Sound, LeasesMatchSockets, Leased, NoLease
<1>2. CASE demo /\ GuestStep
  <2>1. ASSUME NEW s \in Sockets, NEW t \in Tickets,
               GuestTicketBad(s, t) \/ \E ip \in Ips : GuestOverLimit(s, t, ip)
        PROVE  LeasesMatchSockets'
    BY <1>0, <2>1, LeasesFollowRest DEF GuestTicketBad, GuestOverLimit
  <2>2. ASSUME UNCHANGED <<demo, leases, sock>> PROVE LeasesMatchSockets'
    BY <2>2 DEF LeasesMatchSockets, Leased
  <2>3. ASSUME NEW u \in Users,
               \/ \E t \in Tickets : GuestTicket(u, t)
               \/ GuestTicketNoRoom(u) \/ GuestTicketTooOften(u)
        PROVE  LeasesMatchSockets'
    BY <2>2, <2>3 DEF GuestTicket, GuestTicketNoRoom, GuestTicketTooOften
  <2>4. ASSUME NEW t \in Tickets, TicketTimer(t) PROVE LeasesMatchSockets'
    BY <2>2, <2>4 DEF TicketTimer
  <2>5. ASSUME NEW ip \in Ips, CreateSession(ip) \/ CreateSessionRefused(ip)
        PROVE  LeasesMatchSockets'
    BY <2>2, <2>5 DEF CreateSession, CreateSessionRefused
  <2>6. ASSUME NEW store \in Stores, NEW ip \in Ips, WindowTimer(store, ip)
        PROVE  LeasesMatchSockets'
    BY <2>2, <2>6 DEF WindowTimer
  <2> QED BY <1>2, <2>1, <2>3, <2>4, <2>5, <2>6, LeasesFollowHandshake DEF GuestStep
<1>3. CASE demo /\ MemberStep
  BY <1>3 DEF MemberStep, Sound, SocketsSound, SoundSocket, MemberTicket, MemberPresents,
         MemberTicketGood, MemberTicketBad, MemberAdmitted, MemberRefused, AnswerTooLate
<1>4. CASE SocketStep
  <2>1. PICK s \in Sockets : BadQuery(s) \/ SocketCloses(s) \/ SocketClosed(s)
    BY <1>4 DEF SocketStep
  <2>2. CASE SocketClosed(s)
    BY <2>2, LeasesFollowClose
  <2>3. CASE BadQuery(s) \/ SocketCloses(s)
    <3>1. UNCHANGED <<demo, leases>>
      BY <2>3 DEF BadQuery, SocketCloses, guestVars
    <3> QED BY <2>3, <3>1, LeasesFollowRest DEF BadQuery
  <2> QED BY <2>1, <2>2, <2>3
<1>5. CASE Tick \/ UNCHANGED vars
  BY <1>5 DEF Tick, vars, guestVars, LeasesMatchSockets, Leased
<1> QED BY <1>1, <1>2, <1>3, <1>4, <1>5 DEF Next

\* A guest's lease is that of the socket the hub has for this guest, and it is
\* given back by that socket's close event and by no other's.
THEOREM LeasesFollow == Spec => []LeasesMatchSockets
<1>1. Init => LeasesMatchSockets
  BY DEF Init, LeasesMatchSockets, Leased, NoLease, FreeSocket
<1>2. TypeOK /\ Sound /\ LeasesMatchSockets /\ [Next]_vars => LeasesMatchSockets'
  BY LeasesFollowStep
<1> QED BY <1>1, <1>2, TypeCorrect, PTL DEF Spec

\* The index of guests and the tickets agree in every reachable state.
THEOREM IndexAgreement == Spec => []IndexAgrees
<1>1. Sound => IndexAgrees
  BY DEF Sound
<1> QED BY <1>1, TypeCorrect, PTL

-----------------------------------------------------------------------------
(* A ticket brings one socket to the hub *)

\* The socket had a good ticket: the hub has it, or the database has said so.
Holds(x) == x.phase \in {"open", "leaving"} \/ x.answer = "found"

HoldersApart ==
    ~demo => \A s \in Sockets : Holds(sock[s]) =>
        /\ sock[s].ticket \notin Stored(tickets)
        /\ \A x \in Sockets \ {s} : Holds(sock[x]) => sock[x].ticket # sock[s].ticket

\* A step that adds no holder and stores no holder's ticket.
LEMMA HoldersKept ==
  ASSUME HoldersApart, demo' = demo,
         ~demo => \A s \in Sockets : Holds(sock'[s]) =>
            /\ Holds(sock[s]) /\ sock'[s].ticket = sock[s].ticket
            /\ sock[s].ticket \in Stored(tickets') => sock[s].ticket \in Stored(tickets)
  PROVE  HoldersApart'
BY DEF HoldersApart

LEMMA HoldersMemberStep ==
  ASSUME TypeOK, Sound, HoldersApart, MemberStep
  PROVE  HoldersApart'
<1>0. /\ sock \in [Sockets -> Socket] /\ tickets \in [Tickets -> Ticket] /\ demo' = demo
      /\ \A s \in Sockets : SoundSocket(sock[s])
  BY WhoTakes DEF TypeOK, Sound, SocketsSound, Next
<1>1. ASSUME NEW u \in Users, NEW t \in Tickets, MemberTicket(u, t) PROVE HoldersApart'
  <2>1. UNCHANGED sock /\ \A s \in Sockets : sock[s].ticket # t
    BY <1>1 DEF MemberTicket, Fresh
  <2>2. \A x \in Tickets \ {t} : x \in Stored(tickets') => x \in Stored(tickets)
    BY <1>0, <1>1 DEF MemberTicket, Stored
  <2>3. \A x : x \in Stored(tickets') => x \in Tickets
    BY DEF Stored
  <2> QED BY <1>0, <2>1, <2>2, <2>3, HoldersKept
<1>2. ASSUME NEW s \in Sockets, NEW t \in Tickets, MemberPresents(s, t) PROVE HoldersApart'
  <2>1. /\ ~Holds(sock'[s]) /\ UNCHANGED tickets
        /\ \A x \in Sockets \ {s} : sock'[x] = sock[x]
    BY <1>0, <1>2 DEF MemberPresents, Handshake, Holds, guestVars
  <2> QED BY <1>0, <2>1, HoldersKept
<1>3. ASSUME NEW s \in Sockets, MemberTicketGood(s) PROVE HoldersApart'
  <2> DEFINE t == sock[s].ticket
  <2>1. t \in Tickets /\ t \in Stored(tickets) /\ ~demo
    BY <1>0, <1>3 DEF MemberTicketGood, SoundSocket, Good, Stored
  <2>2. Stored(tickets') \subseteq Stored(tickets) /\ t \notin Stored(tickets')
    BY <1>0, <1>3, <2>1 DEF MemberTicketGood, Consumed, FreeTicket, Stored
  <2>3. /\ sock'[s].ticket = t
        /\ \A x \in Sockets \ {s} : sock'[x] = sock[x]
    BY <1>0, <1>3 DEF MemberTicketGood, Socket
  <2>4. \A x \in Sockets \ {s} : Holds(sock[x]) => sock[x].ticket # t
    BY <2>1 DEF HoldersApart
  <2> QED BY <1>0, <2>1, <2>2, <2>3, <2>4 DEF HoldersApart
<1>4. ASSUME NEW s \in Sockets, MemberTicketBad(s) PROVE HoldersApart'
  <2>1. sock[s].ticket \in Tickets
    BY <1>0, <1>4 DEF MemberTicketBad, SoundSocket
  <2>2. Stored(tickets') \subseteq Stored(tickets)
    BY <1>0, <1>4, <2>1 DEF MemberTicketBad, Consumed, FreeTicket, Stored
  <2>3. /\ sock'[s].phase = sock[s].phase /\ sock'[s].ticket = sock[s].ticket
        /\ sock'[s].answer = "missing"
        /\ \A x \in Sockets \ {s} : sock'[x] = sock[x]
    BY <1>0, <1>4 DEF MemberTicketBad, Socket
  <2> QED BY <1>0, <2>2, <2>3, HoldersKept DEF Holds
<1>5. ASSUME NEW s \in Sockets, MemberAdmitted(s) PROVE HoldersApart'
  <2>1. /\ Holds(sock[s]) /\ sock'[s].ticket = sock[s].ticket /\ UNCHANGED tickets
        /\ \A x \in Sockets \ {s} :
              sock'[x].ticket = sock[x].ticket /\ (Holds(sock'[x]) => Holds(sock[x]))
    BY <1>0, <1>5 DEF MemberAdmitted, HandToHub, Admitted, Holds, Socket, guestVars
  <2> QED BY <1>0, <2>1, HoldersKept
<1>6. ASSUME NEW s \in Sockets, MemberRefused(s) \/ AnswerTooLate(s) PROVE HoldersApart'
  <2>1. /\ ~Holds(sock'[s]) /\ UNCHANGED tickets
        /\ \A x \in Sockets \ {s} : sock'[x] = sock[x]
    BY <1>0, <1>6 DEF MemberRefused, AnswerTooLate, Refused, FreeSocket, Holds, guestVars
  <2> QED BY <1>0, <2>1, HoldersKept
<1> QED BY <1>1, <1>2, <1>3, <1>4, <1>5, <1>6 DEF MemberStep

LEMMA HoldersStep ==
  ASSUME TypeOK, Sound, HoldersApart, [Next]_vars
  PROVE  HoldersApart'
<1>0. sock \in [Sockets -> Socket] /\ demo' = demo
  BY WhoTakes DEF TypeOK
<1>1. CASE GuestStep
  <2>1. CASE demo
    BY <1>0, <2>1 DEF HoldersApart
  <2>2. CASE ~demo
    <3>1. UNCHANGED <<sock, tickets>>
      BY <1>1, <2>2 DEF GuestStep, CreateSession, CreateSessionRefused, GuestTicket,
             GuestTicketNoRoom, GuestTicketTooOften, GuestAdmitted, GuestOverLimit,
             GuestTicketBad, TicketTimer, WindowTimer
    <3> QED BY <1>0, <3>1, HoldersKept
  <2> QED BY <2>1, <2>2
<1>2. CASE SocketStep
  <2>1. PICK s \in Sockets : BadQuery(s) \/ SocketCloses(s) \/ SocketClosed(s)
    BY <1>2 DEF SocketStep
  <2>2. /\ UNCHANGED tickets
        /\ \A x \in Sockets \ {s} : sock'[x] = sock[x]
        /\ Holds(sock'[s]) => Holds(sock[s]) /\ sock'[s].ticket = sock[s].ticket
    BY <1>0, <2>1 DEF BadQuery, SocketCloses, SocketClosed, Refused, FreeSocket, Holds, Socket,
           guestVars
  <2> QED BY <1>0, <2>2, HoldersKept
<1>3. CASE Tick
  <2>1. UNCHANGED sock /\ Stored(tickets') \subseteq Stored(tickets)
    BY <1>3 DEF Tick, OlderTicket, Stored, TypeOK, Ticket
  <2> QED BY <1>0, <2>1, HoldersKept
<1>4. CASE UNCHANGED vars
  BY <1>0, <1>4, HoldersKept DEF vars, guestVars
<1> QED BY <1>1, <1>2, <1>3, <1>4, HoldersMemberStep DEF Next

\* However many sockets present a registered player's ticket, in whatever order
\* the database answers, one of them at most gets to the hub.
THEOREM TicketOnce == Spec => []TicketAdmitsOnce
<1>1. Init => HoldersApart
  BY DEF Init, HoldersApart, Holds, FreeSocket
<1>2. TypeOK /\ Sound /\ HoldersApart /\ [Next]_vars => HoldersApart'
  BY HoldersStep
<1>3. HoldersApart => TicketAdmitsOnce
  BY DEF HoldersApart, Holds, TicketAdmitsOnce
<1> QED BY <1>1, <1>2, <1>3, TypeCorrect, PTL DEF Spec

-----------------------------------------------------------------------------
(* Steps *)

\* A socket that closed during its handshake is not handed to the hub when the
\* answer of the database comes.
THEOREM ClosedSocketsStayOut == Spec => ClosedStaysOut
<1> DEFINE Closed(x) == x.phase \in {"closing", "leaving", "gone"}
<1>1. ASSUME TypeOK, [Next]_vars
      PROVE  \A s \in Sockets : Closed(sock[s]) => sock'[s].phase # "open"
  <2>0. sock \in [Sockets -> Socket]
    BY <1>1 DEF TypeOK
  <2>1. ASSUME NEW s \in Sockets, NEW t, NEW u, HandToHub(s, t, u), ~Closed(sock[s])
        PROVE  \A x \in Sockets : Closed(sock[x]) => sock'[x].phase # "open"
    BY <2>0, <2>1 DEF HandToHub, Socket
  <2>2. CASE GuestStep
    BY <2>0, <2>1, <2>2
       DEF GuestStep, CreateSession, CreateSessionRefused, GuestTicket, GuestTicketNoRoom,
           GuestTicketTooOften, GuestAdmitted, GuestOverLimit, GuestTicketBad, TicketTimer,
           WindowTimer, Refused
  <2>3. CASE MemberStep
    <3>1. ASSUME NEW s \in Sockets, MemberTicketGood(s) \/ MemberTicketBad(s)
          PROVE  sock'[s].phase = sock[s].phase /\ \A x \in Sockets \ {s} : sock'[x] = sock[x]
      BY <2>0, <3>1 DEF MemberTicketGood, MemberTicketBad, Socket
    <3>2. ASSUME NEW s \in Sockets, MemberRefused(s) \/ AnswerTooLate(s)
          PROVE  sock'[s].phase # "open" /\ \A x \in Sockets \ {s} : sock'[x] = sock[x]
      BY <2>0, <3>2 DEF MemberRefused, AnswerTooLate, Refused, FreeSocket
    <3>3. ASSUME NEW s \in Sockets, MemberAdmitted(s)
          PROVE  \A x \in Sockets : Closed(sock[x]) => sock'[x].phase # "open"
      BY <2>1, <3>3 DEF MemberAdmitted, StillOpen
    <3>4. ASSUME NEW s \in Sockets, NEW t \in Tickets, MemberPresents(s, t)
          PROVE  sock'[s].phase # "open" /\ \A x \in Sockets \ {s} : sock'[x] = sock[x]
      BY <2>0, <3>4 DEF MemberPresents, Handshake
    <3>5. ASSUME NEW u \in Users, NEW t \in Tickets, MemberTicket(u, t) PROVE sock' = sock
      BY <3>5 DEF MemberTicket
    <3> QED BY <2>3, <3>1, <3>2, <3>3, <3>4, <3>5 DEF MemberStep
  <2>4. CASE SocketStep
    BY <2>0, <2>4 DEF SocketStep, BadQuery, SocketCloses, SocketClosed, Refused, FreeSocket, Socket
  <2>5. CASE Tick \/ UNCHANGED vars
    BY <2>0, <2>5 DEF Tick, vars, guestVars
  <2> QED BY <1>1, <2>2, <2>3, <2>4, <2>5 DEF Next
<1>2. TypeOK /\ [Next]_vars =>
         [\A s \in Sockets : sock[s].phase \in {"closing", "leaving", "gone"} =>
             sock'[s].phase # "open"]_vars
  BY <1>1
<1> QED BY <1>2, TypeCorrect, PTL DEF Spec, ClosedStaysOut

\* One step takes a good ticket only as TicketsLast says.
TicketSafe(t) ==
    Good(t) /\ tickets'[t].state # "stored" =>
        \/ sock' # sock /\ \A x \in Tickets \ {t} : tickets'[x] = tickets[x]
        \/ /\ accepted' # accepted
           /\ \A u \in Users \ {tickets[t].user} : index'[u] \in {index[u], NoTicket}

\* An event that is admitted shows in the history.
LEMMA RecordSeen ==
  ASSUME TypeOK, NEW store \in Stores, NEW ip \in Ips, Record(store, ip)
  PROVE  accepted' # accepted
<1>1. accepted[store][ip] \in [Ages -> Nat] /\ 0 \in Ages
  BY GuestAccessAssumption DEF TypeOK, Ages
<1>2. WithEvent(accepted[store][ip])[0] = accepted[store][ip][0] + 1
  BY <1>1 DEF WithEvent
<1>3. accepted'[store][ip] = WithEvent(accepted[store][ip])
  BY DEF Record, TypeOK
<1> QED BY <1>1, <1>2, <1>3

\* The tickets a guest's new one takes with it: expired ones and the previous.
LEMMA ReplacedTicket ==
  ASSUME TypeOK, Sound, demo, NEW u \in Users, NEW t \in Tickets, Good(t),
         TicketsFor(u)[t].state # "stored"
  PROVE  tickets[t].user = u
<1>1. t \notin Expired
  BY DEF Good, Expired, TypeOK, Ticket
<1>2. t = index[u]
  BY <1>1 DEF TicketsFor, Good
<1> QED BY <1>2 DEF Sound, IndexAgrees

\* Consuming a ticket leaves the others.
LEMMA ConsumedAlone ==
  ASSUME TypeOK, NEW t, tickets' = Consumed(t), sock' # sock, NEW x \in Tickets
  PROVE  TicketSafe(x)
  BY DEF Consumed, TicketSafe, Good, TypeOK

LEMMA GuestStepTicketSafe ==
  ASSUME TypeOK, Sound, GuestStep, NEW t \in Tickets
  PROVE  TicketSafe(t)
<1> SUFFICES ASSUME Good(t) PROVE TicketSafe(t)
  BY DEF TicketSafe
<1>0. tickets \in [Tickets -> Ticket] /\ index \in [Users -> Tickets \cup {NoTicket}]
  BY DEF TypeOK
<1>1. ASSUME NEW u \in Users,
             GuestTicketNoRoom(u) \/ \E x \in Tickets : GuestTicket(u, x)
      PROVE  TicketSafe(t)
  <2>1. demo /\ accepted' # accepted
    BY <1>1, RecordSeen, GuestAccessAssumption DEF GuestTicketNoRoom, GuestTicket, Stores
  <2>2. tickets'[t].state # "stored" => tickets[t].user = u
    <3>1. tickets'[t].state # "stored" => TicketsFor(u)[t].state # "stored"
      BY <1>0, <1>1 DEF GuestTicketNoRoom, GuestTicket, TicketsFor
    <3> QED BY <2>1, <3>1, ReplacedTicket
  <2>3. \A v \in Users \ {u} : index'[v] \in {index[v], NoTicket}
    BY <1>0, <1>1 DEF GuestTicketNoRoom, GuestTicket, IndexWithout
  <2> QED BY <2>1, <2>2, <2>3 DEF TicketSafe
<1>2. ASSUME NEW u \in Users, GuestTicketTooOften(u) PROVE TicketSafe(t)
  BY <1>0, <1>2 DEF GuestTicketTooOften, Expired, Good, TicketSafe, Ticket
<1>3. ASSUME NEW s \in Sockets, NEW x \in Tickets,
             \/ GuestTicketBad(s, x)
             \/ \E ip \in Ips : GuestAdmitted(s, x, ip) \/ GuestOverLimit(s, x, ip)
      PROVE  TicketSafe(t)
  <2>1. sock[s].phase = "free" /\ sock'[s].phase # "free"
    <3>1. CASE \E ip \in Ips : GuestAdmitted(s, x, ip)
      BY <3>1 DEF GuestAdmitted, HandToHub, Admitted
    <3>2. CASE GuestTicketBad(s, x) \/ \E ip \in Ips : GuestOverLimit(s, x, ip)
      BY <3>2 DEF GuestTicketBad, GuestOverLimit, Refused, TypeOK
    <3> QED BY <1>3, <3>1, <3>2
  <2>2. tickets' = Consumed(x) /\ sock' # sock
    BY <1>3, <2>1 DEF GuestTicketBad, GuestAdmitted, GuestOverLimit, ConsumeGuestTicket
  <2> QED BY <2>2, ConsumedAlone
<1>4. ASSUME NEW x \in Tickets, TicketTimer(x) PROVE TicketSafe(t)
  BY <1>0, <1>4 DEF TicketTimer, TicketsAfterTimer, Good, TicketSafe, Ticket
<1>5. ASSUME tickets' = tickets PROVE TicketSafe(t)
  BY <1>5 DEF Good, TicketSafe
<1> QED BY <1>1, <1>2, <1>3, <1>4, <1>5
         DEF GuestStep, CreateSession, CreateSessionRefused, WindowTimer

LEMMA MemberStepTicketSafe ==
  ASSUME TypeOK, MemberStep, NEW t \in Tickets
  PROVE  TicketSafe(t)
<1>1. ASSUME tickets' = tickets PROVE TicketSafe(t)
  BY <1>1 DEF Good, TicketSafe
<1>2. ASSUME NEW u \in Users, NEW x \in Tickets, MemberTicket(u, x) PROVE TicketSafe(t)
  BY <1>2 DEF MemberTicket, Good, TicketSafe, TypeOK
<1>3. ASSUME NEW s \in Sockets, MemberTicketGood(s) \/ MemberTicketBad(s)
      PROVE  TicketSafe(t)
  <2>1. sock[s].answer = "asked" /\ sock'[s].answer # "asked"
    BY <1>3 DEF MemberTicketGood, MemberTicketBad, TypeOK, Socket
  <2>2. tickets' = tickets \/ tickets' = Consumed(sock[s].ticket)
    BY <1>3 DEF MemberTicketGood, MemberTicketBad
  <2> QED BY <1>1, <2>1, <2>2, ConsumedAlone
<1> QED BY <1>1, <1>2, <1>3
         DEF MemberStep, MemberPresents, MemberAdmitted, MemberRefused, AnswerTooLate, guestVars

\* An unexpired ticket goes only when a socket presents it, alone, or when its
\* own guest asks for another: no timer or clean-up of an older ticket takes it.
THEOREM TicketsStay == Spec => TicketsLast
<1>1. TypeOK /\ Sound /\ [Next]_vars => [\A t \in Tickets : TicketSafe(t)]_vars
  <2> SUFFICES ASSUME TypeOK, Sound, Next, NEW t \in Tickets PROVE TicketSafe(t)
    OBVIOUS
  <2>1. ASSUME tickets' = tickets PROVE TicketSafe(t)
    BY <2>1 DEF Good, TicketSafe
  <2>2. CASE SocketStep
    BY <2>1, <2>2 DEF SocketStep, BadQuery, SocketCloses, SocketClosed, guestVars
  <2>3. CASE Tick
    BY <2>3 DEF Tick, OlderTicket, Good, TicketSafe, TypeOK, Ticket
  <2> QED BY <2>2, <2>3, GuestStepTicketSafe, MemberStepTicketSafe DEF Next
<1>2. Spec => [][\A t \in Tickets : TicketSafe(t)]_vars
  BY <1>1, TypeCorrect, PTL DEF Spec
<1> QED BY <1>2 DEF TicketsLast, TicketSafe

-----------------------------------------------------------------------------
(* Rates *)

LEMMA EventsMember ==
  ASSUME NEW events, NEW e
  PROVE  e \in EventsIn(events) <=> \E age \in Ages : \E n \in 1..events[age] : e = <<age, n>>
  BY DEF EventsIn

LEMMA ImageFinite ==
  ASSUME NEW S, IsFiniteSet(S), NEW f, DOMAIN f = S
  PROVE  IsFiniteSet({f[x] : x \in S})
<1> DEFINE T == {f[x] : x \in S}
           g == [x \in S |-> f[x]]
<1>1. g \in Surjection(S, T)
  BY DEF Surjection
<1> QED BY <1>1, FS_Surjection

LEMMA EventsFinite ==
  ASSUME NEW events \in [Ages -> Nat]
  PROVE  IsFiniteSet(EventsIn(events)) /\ EventCount(events) \in Nat
<1> DEFINE At(age) == {<<age, n>> : n \in 1..events[age]}
           Parts == {At(age) : age \in Ages}
<1>1. ASSUME NEW age \in Ages PROVE IsFiniteSet(At(age))
  <2> DEFINE f == [n \in 1..events[age] |-> <<age, n>>]
  <2>1. IsFiniteSet(1..events[age])
    BY FS_Interval
  <2>2. IsFiniteSet({f[n] : n \in 1..events[age]})
    <3>1. DOMAIN f = 1..events[age]
      OBVIOUS
    <3> HIDE DEF f
    <3> QED BY <2>1, <3>1, ImageFinite
  <2>3. At(age) = {f[n] : n \in 1..events[age]}
    OBVIOUS
  <2> QED BY <2>2, <2>3
<1>2. IsFiniteSet(Parts)
  <2> DEFINE f == [age \in Ages |-> At(age)]
  <2>1. IsFiniteSet(Ages)
    BY FS_Interval, GuestAccessAssumption DEF Ages
  <2>2. IsFiniteSet({f[age] : age \in Ages})
    <3>1. DOMAIN f = Ages
      OBVIOUS
    <3> HIDE DEF f
    <3> QED BY <2>1, <3>1, ImageFinite
  <2>3. Parts = {f[age] : age \in Ages}
    OBVIOUS
  <2> QED BY <2>2, <2>3
<1>3. EventsIn(events) = UNION Parts
  BY DEF EventsIn
<1>4. \A part \in Parts : IsFiniteSet(part)
  BY <1>1
<1> HIDE DEF Parts, At
<1>5. IsFiniteSet(UNION Parts)
  BY <1>2, <1>4, FS_UNION
<1> QED BY <1>3, <1>5, FS_CardinalityType DEF EventCount

LEMMA EventAdded ==
  ASSUME NEW events \in [Ages -> Nat]
  PROVE  EventCount(WithEvent(events)) = EventCount(events) + 1
<1> DEFINE new == <<0, events[0] + 1>>
<1>1. 0 \in Ages /\ events[0] \in Nat
  BY GuestAccessAssumption DEF Ages
<1>2. /\ WithEvent(events)[0] = events[0] + 1
      /\ \A age \in Ages : age # 0 => WithEvent(events)[age] = events[age]
  BY <1>1 DEF WithEvent
<1>3. new \notin EventsIn(events)
  BY <1>1, EventsMember
<1>4. EventsIn(WithEvent(events)) = EventsIn(events) \cup {new}
  <2>1. ASSUME NEW e \in EventsIn(WithEvent(events)) PROVE e \in EventsIn(events) \cup {new}
    <3>1. PICK age \in Ages : \E n \in 1..WithEvent(events)[age] : e = <<age, n>>
      BY EventsMember
    <3>2. PICK n \in 1..WithEvent(events)[age] : e = <<age, n>>
      BY <3>1
    <3>3. CASE age = 0 /\ n = events[0] + 1
      BY <3>2, <3>3
    <3>4. CASE ~(age = 0 /\ n = events[0] + 1)
      <4>1. n \in 1..events[age]
        BY <1>1, <1>2, <3>4
      <4> QED BY <3>2, <4>1, EventsMember
    <3> QED BY <3>3, <3>4
  <2>2. ASSUME NEW e \in EventsIn(events) PROVE e \in EventsIn(WithEvent(events))
    <3>1. PICK age \in Ages : \E n \in 1..events[age] : e = <<age, n>>
      BY EventsMember
    <3>2. PICK n \in 1..events[age] : e = <<age, n>>
      BY <3>1
    <3>3. n \in 1..WithEvent(events)[age]
      BY <1>1, <1>2
    <3> QED BY <3>2, <3>3, EventsMember
  <2>3. new \in EventsIn(WithEvent(events))
    <3>1. events[0] + 1 \in 1..WithEvent(events)[0]
      BY <1>1, <1>2
    <3> QED BY <1>1, <3>1, EventsMember
  <2> QED BY <2>1, <2>2, <2>3
<1> HIDE DEF new
<1> QED BY <1>3, <1>4, EventsFinite, FS_AddElement DEF EventCount

\* Time takes events out of a window and brings none.
LEMMA EventsAge ==
  ASSUME NEW events \in [Ages -> Nat]
  PROVE  EventCount(Aged(events)) <= EventCount(events)
<1> DEFINE S == EventsIn(Aged(events))
           T == EventsIn(events)
           f == [e \in S |-> <<e[1] - 1, e[2]>>]
<1>1. ASSUME NEW e \in S
      PROVE  \E age \in Ages : \E n \in 1..events[age - 1] :
                 age # 0 /\ e = <<age, n>> /\ <<age - 1, n>> \in T
  <2>1. PICK age \in Ages : \E n \in 1..Aged(events)[age] : e = <<age, n>>
    BY EventsMember
  <2>2. PICK n \in 1..Aged(events)[age] : e = <<age, n>>
    BY <2>1
  <2>3. age # 0 /\ n \in 1..events[age - 1]
    BY <2>2 DEF Aged
  <2>4. age - 1 \in Ages
    BY <2>3, GuestAccessAssumption DEF Ages
  <2>5. <<age - 1, n>> \in T
    BY <2>3, <2>4, EventsMember
  <2> QED BY <2>2, <2>3, <2>5
<1>2. ASSUME NEW e \in S
      PROVE  e[1] \in Int /\ e = <<e[1], e[2]>> /\ <<e[1] - 1, e[2]>> \in T
  <2>1. PICK age \in Ages : \E n \in 1..events[age - 1] :
                 age # 0 /\ e = <<age, n>> /\ <<age - 1, n>> \in T
    BY <1>1
  <2>2. PICK n \in 1..events[age - 1] : e = <<age, n>> /\ <<age - 1, n>> \in T
    BY <2>1
  <2>3. e[1] = age /\ e[2] = n /\ age \in Int
    BY <2>2 DEF Ages
  <2> HIDE DEF T
  <2> QED BY <2>2, <2>3
<1>3. f \in Injection(S, T)
  <2>1. f \in [S -> T]
    <3> HIDE DEF S, T
    <3> QED BY <1>2
  <2>2. ASSUME NEW d \in S, NEW e \in S, f[d] = f[e] PROVE d = e
    <3>1. <<d[1] - 1, d[2]>> = <<e[1] - 1, e[2]>>
      BY <2>2
    <3>2. d[1] - 1 = e[1] - 1 /\ d[2] = e[2]
      BY <3>1
    <3>3. d[1] \in Int /\ e[1] \in Int
      BY <1>2
    <3>4. d[1] = e[1]
      BY <3>2, <3>3
    <3>5. d = <<d[1], d[2]>> /\ e = <<e[1], e[2]>>
      BY <1>2
    <3> QED BY <3>2, <3>4, <3>5
  <2> HIDE DEF f
  <2> QED BY <2>1, <2>2 DEF Injection, IsInjective
<1> HIDE DEF S, T, f
<1>4. IsFiniteSet(T)
  BY EventsFinite DEF T
<1>5. Cardinality(S) <= Cardinality(T)
  BY <1>3, <1>4, FS_Injection
<1> QED BY <1>5 DEF EventCount, S, T

LEMMA NoEventsCounted == EventCount(NoEvents) = 0
<1>1. EventsIn(NoEvents) = {}
  BY EventsMember DEF NoEvents
<1> QED BY <1>1, FS_EmptySet DEF EventCount

\* What the store keeps of an address are the events of the last minute, also
\* when it has forgotten the address: it does so a whole window after the last.
WindowSound(w, events, limit) ==
    /\ w.events = events
    /\ \A age \in Ages : w.left + age < RateWindow => events[age] = 0
    /\ EventCount(events) <= limit

RateInv ==
    \A store \in Stores, ip \in Ips :
        WindowSound(windows[store][ip], accepted[store][ip], Limit(store))

LEMMA LimitTyped == \A store \in Stores : Limit(store) \in Nat
  BY GuestAccessAssumption DEF Limit, Stores

LEMMA ForgottenIsEmpty ==
  ASSUME NEW w \in RollingWindow, NEW events \in [Ages -> Nat], NEW limit,
         WindowSound(w, events, limit), w.left = 0
  PROVE  events = NoEvents
<1>1. \A age \in Ages : events[age] = 0
  BY GuestAccessAssumption DEF WindowSound, Ages
<1> QED BY <1>1 DEF NoEvents

LEMMA UntrackedSound ==
  ASSUME NEW store \in Stores
  PROVE  WindowSound(Untracked, NoEvents, Limit(store))
<1>1. \A age \in Ages : NoEvents[age] = 0
  BY DEF NoEvents
<1> QED BY <1>1, NoEventsCounted, LimitTyped DEF WindowSound, Untracked

LEMMA PrunedSound ==
  ASSUME TypeOK, RateInv, NEW store \in Stores, NEW ip \in Ips
  PROVE  WindowSound(PrunedWindows(store)[ip], accepted[store][ip], Limit(store))
<1>1. /\ windows[store][ip] \in RollingWindow /\ accepted[store][ip] \in [Ages -> Nat]
      /\ WindowSound(windows[store][ip], accepted[store][ip], Limit(store))
  BY DEF TypeOK, RateInv
<1>2. CASE windows[store][ip].left = 0
  BY <1>1, <1>2, ForgottenIsEmpty, UntrackedSound DEF PrunedWindows
<1>3. CASE windows[store][ip].left # 0
  BY <1>1, <1>3 DEF PrunedWindows
<1> QED BY <1>2, <1>3

LEMMA RecordSound ==
  ASSUME TypeOK, RateInv, NEW store \in Stores, NEW ip \in Ips,
         MayRecord(store, ip), Record(store, ip)
  PROVE  RateInv'
<1> DEFINE pruned == PrunedWindows(store)
           events == accepted[store][ip]
           w == [tracked |-> TRUE, events |-> WithEvent(pruned[ip].events), left |-> RateWindow]
<1>1. events \in [Ages -> Nat] /\ Limit(store) \in Nat /\ EventCount(events) \in Nat
  BY LimitTyped, EventsFinite DEF TypeOK
<1>2. pruned[ip].events = events /\ EventCount(events) < Limit(store)
  BY PrunedSound DEF MayRecord, WindowSound
<1>3. WindowSound(w, WithEvent(events), Limit(store))
  <2>1. EventCount(WithEvent(events)) <= Limit(store)
    BY <1>1, <1>2, EventAdded
  <2>2. \A age \in Ages : ~(RateWindow + age < RateWindow)
    BY GuestAccessAssumption DEF Ages
  <2> HIDE DEF events, pruned
  <2> QED BY <1>2, <2>1, <2>2 DEF WindowSound
<1>4. windows' = [windows EXCEPT ![store] = [pruned EXCEPT ![ip] = w]]
  BY DEF Record
<1>5. accepted' = [accepted EXCEPT ![store][ip] = WithEvent(events)]
  BY DEF Record
<1>6. \A i \in Ips : WindowSound(pruned[i], accepted[store][i], Limit(store))
  BY PrunedSound
<1>7. DOMAIN pruned = Ips
  BY DEF PrunedWindows
<1> HIDE DEF w, pruned, events
<1>8. ASSUME NEW d \in Stores, NEW i \in Ips
      PROVE  WindowSound(windows'[d][i], accepted'[d][i], Limit(d))
  <2>1. CASE d = store /\ i = ip
    <3>1. windows'[d][i] = w /\ accepted'[d][i] = WithEvent(events)
      BY <1>4, <1>5, <1>7, <2>1 DEF TypeOK
    <3> QED BY <1>3, <2>1, <3>1
  <2>2. CASE d = store /\ i # ip
    <3>1. windows'[d][i] = pruned[i] /\ accepted'[d][i] = accepted[d][i]
      BY <1>4, <1>5, <1>7, <2>2 DEF TypeOK
    <3> QED BY <1>6, <2>2, <3>1
  <2>3. CASE d # store
    <3>1. windows'[d][i] = windows[d][i] /\ accepted'[d][i] = accepted[d][i]
      BY <1>4, <1>5, <2>3 DEF TypeOK
    <3> QED BY <3>1 DEF RateInv
  <2> QED BY <2>1, <2>2, <2>3
<1> QED BY <1>8 DEF RateInv, Limit

LEMMA RefusedSound ==
  ASSUME TypeOK, RateInv, NEW store \in Stores, RecordRefused(store)
  PROVE  RateInv'
<1>1. ASSUME NEW d \in Stores, NEW i \in Ips
      PROVE  WindowSound(windows'[d][i], accepted'[d][i], Limit(d))
  <2>1. CASE d = store
    <3>1. windows'[d][i] = PrunedWindows(store)[i] /\ accepted'[d][i] = accepted[d][i]
      BY <2>1 DEF RecordRefused, TypeOK
    <3> QED BY <2>1, <3>1, PrunedSound
  <2>2. CASE d # store
    <3>1. windows'[d][i] = windows[d][i] /\ accepted'[d][i] = accepted[d][i]
      BY <2>2 DEF RecordRefused, TypeOK
    <3> QED BY <3>1 DEF RateInv
  <2> QED BY <2>1, <2>2
<1> QED BY <1>1 DEF RateInv, Limit

LEMMA TimerSound ==
  ASSUME TypeOK, RateInv, NEW store \in Stores, NEW ip \in Ips, WindowTimer(store, ip)
  PROVE  RateInv'
<1>1. ASSUME NEW d \in Stores, NEW i \in Ips
      PROVE  WindowSound(windows'[d][i], accepted'[d][i], Limit(d))
  <2>0. /\ windows[d][i] \in RollingWindow /\ accepted[d][i] \in [Ages -> Nat]
        /\ WindowSound(windows[d][i], accepted[d][i], Limit(d))
    BY DEF RateInv, TypeOK
  <2>1. CASE d = store /\ i = ip
    <3>1. windows'[d][i] = Untracked /\ accepted'[d][i] = accepted[d][i] /\ windows[d][i].left = 0
      BY <2>1 DEF WindowTimer, TypeOK
    <3> QED BY <2>0, <3>1, ForgottenIsEmpty, UntrackedSound
  <2>2. CASE ~(d = store /\ i = ip)
    <3>1. windows'[d][i] = windows[d][i] /\ accepted'[d][i] = accepted[d][i]
      BY <2>2 DEF WindowTimer, TypeOK
    <3> QED BY <2>0, <3>1
  <2> QED BY <2>1, <2>2
<1> QED BY <1>1 DEF RateInv, Limit

LEMMA TickSound == ASSUME TypeOK, RateInv, Tick PROVE RateInv'
<1>1. ASSUME NEW d \in Stores, NEW i \in Ips
      PROVE  WindowSound(windows'[d][i], accepted'[d][i], Limit(d))
  <2> DEFINE w == windows[d][i]
             events == accepted[d][i]
  <2>0. /\ w \in RollingWindow /\ events \in [Ages -> Nat]
        /\ WindowSound(w, events, Limit(d))
    BY DEF RateInv, TypeOK
  <2>1. windows'[d][i] = OlderWindow(w) /\ accepted'[d][i] = Aged(events)
    BY DEF Tick
  <2>2. EventCount(Aged(events)) <= Limit(d)
    <3>1. Aged(events) \in [Ages -> Nat]
      BY <2>0, WindowsTyped
    <3>2. EventCount(Aged(events)) \in Nat /\ EventCount(events) \in Nat /\ Limit(d) \in Nat
      BY <2>0, <3>1, EventsFinite, LimitTyped
    <3>3. EventCount(Aged(events)) <= EventCount(events) /\ EventCount(events) <= Limit(d)
      BY <2>0, EventsAge DEF WindowSound
    <3> QED BY <3>2, <3>3
  <2> HIDE DEF w, events
  <2>3. CASE w.left = 0
    <3>1. events = NoEvents
      BY <2>0, <2>3, ForgottenIsEmpty
    <3>2. Aged(events) = events
      <4>1. \A age \in Ages : age # 0 => age - 1 \in Ages
        BY GuestAccessAssumption DEF Ages
      <4> QED BY <3>1, <4>1 DEF Aged, NoEvents
    <3> QED BY <2>0, <2>1, <2>3, <3>2 DEF OlderWindow
  <2>4. CASE w.left # 0
    <3>1. OlderWindow(w).events = Aged(events) /\ OlderWindow(w).left = w.left - 1
      BY <2>0, <2>4 DEF OlderWindow, RollingWindow, WindowSound
    <3>2. ASSUME NEW age \in Ages, w.left - 1 + age < RateWindow PROVE Aged(events)[age] = 0
      <4>1. CASE age = 0
        BY <4>1 DEF Aged
      <4>2. CASE age # 0
        <5>1. age - 1 \in Ages /\ w.left + (age - 1) < RateWindow
          BY <2>0, <3>2, <4>2, GuestAccessAssumption DEF Ages, RollingWindow
        <5>2. events[age - 1] = 0
          BY <2>0, <5>1 DEF WindowSound
        <5> QED BY <4>2, <5>2 DEF Aged
      <4> QED BY <4>1, <4>2
    <3> QED BY <2>1, <2>2, <3>1, <3>2 DEF WindowSound
  <2> QED BY <2>3, <2>4
<1> QED BY <1>1 DEF RateInv, Limit

\* No address creates more sessions in a minute, or is given more tickets, than
\* the limit: the window that is forgotten, by its timer or by the pruning of
\* another call, has no event left that still counts.
THEOREM Rates == Spec => []RateHeld
<1>1. Init => RateInv
  <2>1. ASSUME Init, NEW store \in Stores, NEW ip \in Ips
        PROVE  windows[store][ip] = Untracked /\ accepted[store][ip] = NoEvents
    BY <2>1 DEF Init
  <2> QED BY <2>1, UntrackedSound DEF RateInv
<1>2. TypeOK /\ RateInv /\ [Next]_vars => RateInv'
  <2> SUFFICES ASSUME TypeOK, RateInv, [Next]_vars PROVE RateInv'
    OBVIOUS
  <2>0. "creation" \in Stores /\ "ticket" \in Stores /\ SessionIp \in [Users -> Ips]
    BY GuestAccessAssumption DEF Stores
  <2>1. ASSUME UNCHANGED <<windows, accepted>> PROVE RateInv'
    BY <2>1 DEF RateInv, Limit
  <2>2. ASSUME NEW ip \in Ips, CreateSession(ip) \/ CreateSessionRefused(ip) PROVE RateInv'
    BY <2>0, <2>2, RecordSound, RefusedSound DEF CreateSession, CreateSessionRefused
  <2>3. ASSUME NEW u \in Users, NEW t \in Tickets, GuestTicket(u, t) PROVE RateInv'
    BY <2>0, <2>3, RecordSound DEF GuestTicket
  <2>4. ASSUME NEW u \in Users, GuestTicketNoRoom(u) \/ GuestTicketTooOften(u) PROVE RateInv'
    BY <2>0, <2>4, RecordSound, RefusedSound DEF GuestTicketNoRoom, GuestTicketTooOften
  <2>5. ASSUME NEW s \in Sockets, NEW t \in Tickets,
               \/ GuestTicketBad(s, t)
               \/ \E ip \in Ips : GuestAdmitted(s, t, ip) \/ GuestOverLimit(s, t, ip)
        PROVE  RateInv'
    BY <2>1, <2>5 DEF GuestTicketBad, GuestAdmitted, GuestOverLimit
  <2>6. ASSUME NEW t \in Tickets, TicketTimer(t) PROVE RateInv'
    BY <2>1, <2>6 DEF TicketTimer
  <2>7. CASE GuestStep
    BY <2>2, <2>3, <2>4, <2>5, <2>6, <2>7, TimerSound DEF GuestStep
  <2>8. CASE MemberStep
    BY <2>1, <2>8 DEF MemberStep, MemberTicket, MemberPresents, MemberTicketGood,
                      MemberTicketBad, MemberAdmitted, MemberRefused, AnswerTooLate, guestVars
  <2>9. CASE SocketStep
    BY <2>1, <2>9 DEF SocketStep, BadQuery, SocketCloses, SocketClosed, guestVars
  <2>10. CASE UNCHANGED vars
    BY <2>1, <2>10 DEF vars, guestVars
  <2> QED BY <2>7, <2>8, <2>9, <2>10, TickSound DEF Next
<1>3. RateInv => RateHeld
  BY DEF RateInv, RateHeld, WindowSound
<1> QED BY <1>1, <1>2, <1>3, TypeCorrect, PTL DEF Spec
=============================================================================
