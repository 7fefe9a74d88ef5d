----------------------- MODULE FleetSessionsRefinement -----------------------
(***************************************************************************)
(* Proof that FleetSessions implements SessionRoster.  A departure removes *)
(* the account's seats and every fleet it leaves without a desktop player; *)
(* a join or a creation is that departure and a seat.  Departed states it  *)
(* once for every fleet, and the abstract Move follows from it.            *)
(***************************************************************************)
EXTENDS FleetSessionsProofs

\* What account u leaves behind in fleet g.
Others(g, u) == {q \in members[g] : Account[q] # u}

\* The registry <<S, M>> that u's departure produces from the current one.
Departed(S, M, u) ==
  /\ S = {g \in sessions : ~(Others(g, u) \subseteq Guest)}
  /\ M = [g \in Sid |-> IF g \in S THEN Others(g, u) ELSE {}]

\* In a registry with one seat per account, FleetOf finds that seat.
LEMMA FleetOfSeat ==
  ASSUME IInv, NEW f \in Sid, NEW p \in members[f]
  PROVE  f \in sessions /\ FleetOf(Account[p]) = f
<1>1. f \in sessions
  BY DEF IInv, NoOrphanFleet
<1>2. f \in FleetsOf(Account[p])
  BY <1>1 DEF FleetsOf
<1>3. \A g \in FleetsOf(Account[p]) : g = f
  BY DEF FleetsOf, IInv, TypeOK, OneSeatPerAccount
<1>4. QED
  BY <1>1, <1>2, <1>3 DEF FleetOf

\* leaveSession(p) for a seated account is its departure.
LEMMA LeaveIsDeparture ==
  ASSUME IInv, NEW p \in Conn, NEW f, f = FleetOf(Account[p]), f # Nil
  PROVE  Departed(SessionsAfter(f, p), MembersAfter(f, p), Account[p])
<1> DEFINE u == Account[p]
<1>1. f \in sessions /\ f \in Sid /\ \E r \in members[f] : Account[r] = u
  BY FleetOfFound DEF IInv
<1>2. \A g \in Sid \ {f} : Others(g, u) = members[g]
  BY <1>1 DEF Others, IInv, TypeOK, OneSeatPerAccount
<1>3. Others(f, u) = Left(f, p)
  BY DEF Others, Left
<1>4. \A g \in sessions \ {f} : ~(Others(g, u) \subseteq Guest)
  BY <1>2 DEF IInv, TypeOK, NoOrphanFleet
<1>5. SessionsAfter(f, p) = {g \in sessions : ~(Others(g, u) \subseteq Guest)}
  BY <1>1, <1>3, <1>4 DEF SessionsAfter, Disbands
<1>6. MembersAfter(f, p) =
        [g \in Sid |-> IF g \in SessionsAfter(f, p) THEN Others(g, u) ELSE {}]
  <2>1. \A g \in Sid \ {f} : members[g] = IF g \in SessionsAfter(f, p) THEN Others(g, u) ELSE {}
    BY <1>2, <1>4, <1>5 DEF IInv, NoOrphanFleet
  <2>2. (IF Disbands(f, p) THEN {} ELSE Left(f, p))
          = IF f \in SessionsAfter(f, p) THEN Others(f, u) ELSE {}
    BY <1>1, <1>3 DEF SessionsAfter
  <2>3. QED
    BY <1>1, <2>1, <2>2 DEF MembersAfter, IInv, TypeOK
<1>7. QED
  BY <1>5, <1>6 DEF Departed

\* An account without a seat departs by changing nothing.
LEMMA AbsentDeparture ==
  ASSUME IInv, NEW u, FleetOf(u) = Nil
  PROVE  Departed(sessions, members, u)
<1>1. \A g \in Sid : Others(g, u) = members[g]
  BY Absent DEF Vacated, Others
<1>2. sessions = {g \in sessions : ~(Others(g, u) \subseteq Guest)}
  BY <1>1 DEF IInv, TypeOK, NoOrphanFleet
<1>3. members = [g \in Sid |-> IF g \in sessions THEN Others(g, u) ELSE {}]
  BY <1>1 DEF IInv, TypeOK, NoOrphanFleet
<1>4. QED
  BY <1>2, <1>3 DEF Departed

\* FleetOfSeat, in the state after a step.
LEMMA FleetOfSeatNext ==
  ASSUME IInv', NEW f \in Sid, NEW p \in members'[f]
  PROVE  f \in sessions' /\ (FleetOf(Account[p]))' = f
<1>1. f \in sessions'
  BY DEF IInv, NoOrphanFleet
<1>2. f \in (FleetsOf(Account[p]))'
  BY <1>1 DEF FleetsOf
<1>3. \A g \in (FleetsOf(Account[p]))' : g = f
  BY DEF FleetsOf, IInv, TypeOK, OneSeatPerAccount
<1>4. QED
  BY <1>1, <1>2, <1>3 DEF FleetOf

\* FleetOfFound, in the state after a step.
LEMMA FleetOfFoundNext ==
  ASSUME IInv', NEW u, (FleetOf(u))' # Nil
  PROVE  (FleetOf(u))' \in Sid /\ \E p \in members'[(FleetOf(u))'] : Account[p] = u
BY DEF FleetOf, FleetsOf, IInv, TypeOK

\* The hosts are the accounts whose seat is a desktop player's.
LEMMA HostsSit ==
  ASSUME IInv, NEW h \in Hosts
  PROVE  /\ FleetOf(h) \in Sid
         /\ \E p \in members[FleetOf(h)] \ Guest : Account[p] = h
<1>1. PICK f \in sessions : \E p \in members[f] \ Guest : Account[p] = h
  BY DEF Hosts
<1>2. f \in Sid /\ FleetOf(h) = f
  BY <1>1, FleetOfSeat DEF IInv, TypeOK
<1>3. QED
  BY <1>1, <1>2

\* The account of a desktop player with a seat is a host.
LEMMA SittersHost ==
  ASSUME IInv, NEW f \in Sid, NEW p \in members[f] \ Guest
  PROVE  Account[p] \in Hosts
BY FleetOfSeat, ConstantsAssumption DEF Hosts, IInv, TypeOK

\* The seats of the other accounts after u's departure and, possibly, the arrival
\* of connection c of u in fleet f.
LEMMA OtherSeats ==
  ASSUME IInv, IInv', NEW u \in User, NEW S, NEW M, Departed(S, M, u),
         \A g \in Sid : /\ M[g] \subseteq members'[g]
                        /\ \A q \in members'[g] : q \in M[g] \/ Account[q] = u,
         NEW v \in User, v # u
  PROVE  /\ (FleetOf(v))' = IF FleetOf(v) \in S THEN FleetOf(v) ELSE Nil
         /\ v \in Hosts' <=> v \in Hosts
<1> DEFINE g == FleetOf(v)
<1>1. g # Nil => g \in sessions /\ g \in Sid /\ \E p \in members[g] : Account[p] = v
  BY FleetOfFound DEF IInv
<1>2. \A h \in Sid : \A q \in members'[h] : Account[q] = v => q \in members[h] /\ h \in S /\ g = h
  <2>1. ASSUME NEW h \in Sid, NEW q \in members'[h], Account[q] = v
        PROVE  q \in members[h] /\ h \in S
    BY <2>1 DEF Departed, Others
  <2>2. QED
    BY <2>1, FleetOfSeat
<1>3. g \in S => g \in Sid /\ \E p \in members'[g] : Account[p] = v
  <2>1. Nil \notin S
    BY ConstantsAssumption DEF Departed, IInv, TypeOK
  <2>2. QED
    BY <1>1, <2>1 DEF Departed, Others
<1>4. (FleetOf(v))' = IF g \in S THEN g ELSE Nil
  <2>1. CASE g \in S
    BY <1>3, <2>1, FleetOfSeatNext
  <2>2. CASE g \notin S
    BY <1>2, <2>2, FleetOfFoundNext
  <2>3. QED
    BY <2>1, <2>2
<1>5. v \in Hosts' => v \in Hosts
  <2> SUFFICES ASSUME NEW h \in sessions', NEW p \in members'[h] \ Guest, Account[p] = v
               PROVE  v \in Hosts
    BY DEF Hosts
  <2>1. h \in Sid
    BY DEF IInv, TypeOK
  <2>2. QED
    BY <1>2, <2>1, SittersHost
<1>6. v \in Hosts => v \in Hosts'
  <2> SUFFICES ASSUME v \in Hosts PROVE v \in Hosts'
    OBVIOUS
  <2>1. PICK p \in members[g] \ Guest : Account[p] = v
    BY HostsSit
  <2>2. g \in Sid /\ p \in Others(g, u)
    BY <2>1, HostsSit DEF Others
  <2>3. g \in S
    BY <2>1, <2>2, FleetOfSeat DEF Departed
  <2>4. p \in members'[g]
    BY <2>2, <2>3 DEF Departed
  <2>5. g \in sessions'
    BY <2>2, <2>4, FleetOfSeatNext
  <2>6. QED
    BY <2>1, <2>4, <2>5 DEF Hosts
<1>7. QED
  BY <1>4, <1>5, <1>6

\* A fleet that survives a departure is one somebody else can host.
LEMMA Survivors ==
  ASSUME IInv, NEW u \in User, NEW S, NEW M, Departed(S, M, u), NEW g \in Sid
  PROVE  g \in S <=> \E h \in Hosts \ {u} : FleetOf(h) = g
<1>1. ASSUME g \in S PROVE \E h \in Hosts \ {u} : FleetOf(h) = g
  <2>1. PICK p \in Others(g, u) : p \notin Guest
    BY <1>1 DEF Departed
  <2>2. QED
    BY <2>1, SittersHost, FleetOfSeat DEF Others
<1>2. ASSUME NEW h \in Hosts \ {u}, FleetOf(h) = g PROVE g \in S
  <2>1. PICK p \in members[g] \ Guest : Account[p] = h
    BY <1>2, HostsSit
  <2>2. g \in sessions
    BY <2>1, FleetOfSeat
  <2>3. QED
    BY <2>1, <2>2 DEF Departed, Others
<1>3. QED
  BY <1>1, <1>2

\* A departure is a move to no seat.
LEMMA DepartureMoves ==
  ASSUME IInv, IInv', NEW u \in User, Departed(sessions', members', u)
  PROVE  Roster!Move(u, Nil, FALSE)
<1> DEFINE seat  == [v \in User |-> FleetOf(v)]
           moved == [seat EXCEPT ![u] = Nil]
           kept  == Hosts \ {u}
<1>1. \A v \in User \ {u} : /\ (FleetOf(v))' = IF FleetOf(v) \in sessions' THEN FleetOf(v) ELSE Nil
                            /\ v \in Hosts' <=> v \in Hosts
  <2>1. \A g \in Sid : /\ members'[g] \subseteq members'[g]
                      /\ \A q \in members'[g] : q \in members'[g] \/ Account[q] = u
    OBVIOUS
  <2>2. ASSUME NEW v \in User, v # u
        PROVE  /\ (FleetOf(v))' = IF FleetOf(v) \in sessions' THEN FleetOf(v) ELSE Nil
               /\ v \in Hosts' <=> v \in Hosts
    <3> HIDE DEF seat, moved, kept
    <3>1. QED
      BY <2>1, <2>2, OtherSeats, Zenon
  <2>3. QED
    BY <2>2
<1>2. \A g \in Sid : \A q \in members'[g] : Account[q] # u
  BY DEF Departed, Others
<1>3. (FleetOf(u))' = Nil
  BY <1>2, FleetOfFoundNext
<1>4. u \notin Hosts'
  BY <1>2 DEF Hosts, IInv, TypeOK
<1>5. Hosts' = kept
  BY <1>1, <1>4 DEF Hosts
<1>6. \A v \in User :
        (FleetOf(v))' = IF \E h \in kept : moved[h] = moved[v] THEN moved[v] ELSE Nil
  <2> SUFFICES ASSUME NEW v \in User
               PROVE  (FleetOf(v))' = IF \E h \in kept : moved[h] = moved[v] THEN moved[v] ELSE Nil
    OBVIOUS
  <2>1. \A h \in kept : h \in User /\ moved[h] = FleetOf(h)
    BY DEF Hosts
  <2>2. CASE v = u
    BY <1>3, <2>2
  <2>3. CASE v # u /\ FleetOf(v) = Nil
    BY <1>1, <2>3
  <2>4. CASE v # u /\ FleetOf(v) # Nil
    <3>1. FleetOf(v) \in Sid
      BY <2>4, FleetOfFound DEF IInv
    <3>2. FleetOf(v) \in sessions' <=> \E h \in kept : FleetOf(h) = FleetOf(v)
      BY <3>1, Survivors
    <3>3. QED
      BY <1>1, <2>1, <2>4, <3>2
  <2>5. QED
    BY <2>2, <2>3, <2>4
<1>7. QED
  BY <1>5, <1>6 DEF Roster!Move

\* A seat taken after a departure is a move to that seat.
LEMMA ArrivalMoves ==
  ASSUME IInv, IInv', NEW c \in Conn, NEW f \in Sid, NEW S, NEW M,
         Departed(S, M, Account[c]),
         f \in S \/ (f \notin sessions /\ c \notin Guest),
         sessions' = S \cup {f},
         members' = [M EXCEPT ![f] = @ \cup {c}]
  PROVE  Roster!Move(Account[c], f, c \notin Guest)
<1> DEFINE u     == Account[c]
           seat  == [v \in User |-> FleetOf(v)]
           moved == [seat EXCEPT ![u] = f]
           kept  == IF c \notin Guest THEN Hosts \cup {u} ELSE Hosts \ {u}
<1>u. u \in User
  BY ConstantsAssumption
<1>0. /\ \A g \in Sid : members'[g] = IF g = f THEN M[g] \cup {c} ELSE M[g]
      /\ \A g \in Sid : \A q \in M[g] : Account[q] # u
  BY DEF Departed, Others
<1>1. \A v \in User \ {u} : /\ (FleetOf(v))' = IF FleetOf(v) \in S THEN FleetOf(v) ELSE Nil
                            /\ v \in Hosts' <=> v \in Hosts
  <2>1. \A g \in Sid : /\ M[g] \subseteq members'[g]
                      /\ \A q \in members'[g] : q \in M[g] \/ Account[q] = u
    BY <1>0
  <2>2. QED
    BY <1>u, <2>1, OtherSeats
<1>2. (FleetOf(u))' = f
  BY <1>0, FleetOfSeatNext
<1>3. u \in Hosts' <=> c \notin Guest
  BY <1>u, <1>0 DEF Hosts, IInv, TypeOK
<1>4. Hosts' = kept
  BY <1>u, <1>1, <1>3 DEF Hosts
<1>5. \A v \in User :
        (FleetOf(v))' = IF \E h \in kept : moved[h] = moved[v] THEN moved[v] ELSE Nil
  <2> SUFFICES ASSUME NEW v \in User
               PROVE  (FleetOf(v))' = IF \E h \in kept : moved[h] = moved[v] THEN moved[v] ELSE Nil
    OBVIOUS
  <2>1. \A h \in Hosts \ {u} : h \in User /\ moved[h] = FleetOf(h) /\ h \in kept
    BY DEF Hosts
  <2>2. moved[u] = f /\ (u \in kept => f \in S \/ f \notin sessions)
    BY <1>u
  <2>3. CASE v = u
    <3>1. \E h \in kept : moved[h] = f
      <4>1. CASE c \notin Guest
        BY <2>2, <4>1
      <4>2. CASE c \in Guest
        BY <1>u, <2>1, <4>2, Survivors
      <4>3. QED
        BY <4>1, <4>2
    <3>2. QED
      BY <1>2, <2>2, <2>3, <3>1
  <2>4. CASE v # u /\ FleetOf(v) = Nil
    <3>1. Nil \notin S
      BY ConstantsAssumption DEF Departed, IInv, TypeOK
    <3>2. QED
      BY <1>1, <2>4, <3>1
  <2>5. CASE v # u /\ FleetOf(v) # Nil
    <3> DEFINE g == FleetOf(v)
    <3>1. g \in Sid /\ g \in sessions
      BY <2>5, FleetOfFound DEF IInv
    <3>2. g \in S <=> \E h \in Hosts \ {u} : FleetOf(h) = g
      BY <1>u, <3>1, Survivors
    <3>3. g \in S <=> \E h \in kept : moved[h] = g
      <4>1. g \in S => \E h \in kept : moved[h] = g
        BY <2>1, <3>2
      <4>2. ASSUME NEW h \in kept, moved[h] = g PROVE g \in S
        BY <2>1, <2>2, <3>1, <3>2, <4>2
      <4>3. QED
        BY <4>1, <4>2
    <3>4. moved[v] = g
      BY <2>5
    <3>5. QED
      BY <1>1, <2>5, <3>3, <3>4
  <2>6. QED
    BY <2>3, <2>4, <2>5
<1>6. QED
  BY <1>4, <1>5 DEF Roster!Move

\* A step that changes neither the fleets nor their members is a stutter.
LEMMA UnmovedStutters ==
  ASSUME UNCHANGED <<sessions, used, members>>
  PROVE  UNCHANGED Roster!vars
BY DEF Roster!vars, FleetOf, FleetsOf, Hosts

\* leaveSession alone: a Leave of the account, or nothing.
LEMMA LeaveRefines ==
  ASSUME IInv, IInv', NEW p \in Conn, LeaveSession(p), UNCHANGED used
  PROVE  [Roster!Next]_(Roster!vars)
<1> DEFINE u == Account[p]
           f == FleetOf(u)
<1>1. CASE f = Nil
  BY <1>1, UnmovedStutters DEF LeaveSession
<1>2. CASE f # Nil
  <2>1. u \in User
    BY ConstantsAssumption
  <2>2. Departed(sessions', members', u)
    BY <1>2, LeaveIsDeparture DEF LeaveSession
  <2>3. Roster!Leave(u)
    BY <1>2, <2>1, <2>2, DepartureMoves DEF Roster!Leave
  <2>4. QED
    BY <2>1, <2>3 DEF Roster!Next
<1>3. QED
  BY <1>1, <1>2

\* createSession is an OpenSession under a fresh code.
LEMMA CreateRefines ==
  ASSUME IInv, IInv', NEW c \in Conn, CreateSession(c)
  PROVE  Roster!Next
<1> DEFINE u   == Account[c]
           old == FleetOf(u)
           p   == SeatOf(old, u)
<1>1. PICK f \in Sid \ used :
        used' = used \cup {f} /\ (CreateFirstSession(c, f) \/ CreateNextSession(c, f))
  BY DEF CreateSession
<1>2. c \notin Guest /\ u \in User
  BY ConstantsAssumption DEF CreateSession, IInv, NotYetSeated
<1>3. f \notin sessions
  BY DEF IInv, TypeOK
<1>4. Roster!Move(u, f, TRUE)
  <2>1. CASE CreateFirstSession(c, f)
    <3>1. Departed(sessions, members, u)
      BY <2>1, AbsentDeparture DEF CreateFirstSession
    <3>2. members' = [members EXCEPT ![f] = @ \cup {c}] /\ sessions' = sessions \cup {f}
      BY <1>3, <2>1 DEF CreateFirstSession, IInv, NoOrphanFleet
    <3>3. Roster!Move(u, f, c \notin Guest)
      BY <1>2, <1>3, <3>1, <3>2, ArrivalMoves
    <3>4. QED
      BY <1>2, <3>3
  <2>2. CASE CreateNextSession(c, f)
    <3> DEFINE S == SessionsAfter(old, p)
               M == MembersAfter(old, p)
    <3>1. old # Nil /\ p \in Conn /\ Account[p] = u
      BY <2>2, FleetOfFound DEF CreateNextSession, SeatOf, SeatsOf, IInv, TypeOK
    <3>2. Departed(S, M, u)
      BY <3>1, LeaveIsDeparture
    <3>3. members' = [M EXCEPT ![f] = @ \cup {c}] /\ sessions' = S \cup {f}
      BY <1>3, <2>2, <3>2 DEF CreateNextSession, Departed
    <3>4. Roster!Move(u, f, c \notin Guest)
      BY <1>2, <1>3, <3>2, <3>3, ArrivalMoves
    <3>5. QED
      BY <1>2, <3>4
  <2>3. QED
    BY <1>1, <2>1, <2>2
<1>5. Roster!OpenSession(u, f)
  <2>1. f \notin used /\ used' = used \cup {f}
    BY <1>1
  <2>2. QED
    BY <1>4, <2>1, Zenon DEF Roster!OpenSession
<1>6. QED
  BY <1>2, <1>5 DEF Roster!Next

\* An account sits in every open fleet of the abstract view.
LEMMA OpenIsSeated ==
  ASSUME IInv, NEW f \in sessions
  PROVE  f \in Roster!Open
<1>1. PICK p \in members[f] : p \in Conn
  BY DEF IInv, TypeOK, NoOrphanFleet
<1>2. FleetOf(Account[p]) = f /\ f # Nil /\ Account[p] \in User
  BY <1>1, FleetOfSeat, ConstantsAssumption DEF IInv, TypeOK
<1>3. QED
  BY <1>2 DEF Roster!Open

\* A join that seats the connection is an EnterSession.
LEMMA JoinRefines ==
  ASSUME IInv, IInv', NEW c \in Conn, EnterSession(c) \/ SwitchSession(c)
  PROVE  Roster!Next
<1> DEFINE u   == Account[c]
           f   == task[c].arg
           old == FleetOf(u)
<1>1. f \in sessions /\ f \in Sid /\ u \in User /\ old # f
  BY ConstantsAssumption DEF EnterSession, SwitchSession, IInv, TypeOK
<1>2. Roster!Move(u, f, c \notin Guest)
  <2>1. CASE EnterSession(c)
    <3>1. Departed(sessions, members, u)
      BY <2>1, AbsentDeparture DEF EnterSession
    <3>2. members' = [members EXCEPT ![f] = @ \cup {c}] /\ sessions' = sessions \cup {f}
      BY <1>1, <2>1 DEF EnterSession
    <3>3. QED
      BY <1>1, <3>1, <3>2, ArrivalMoves
  <2>2. CASE SwitchSession(c)
    <3> DEFINE S == SessionsAfter(old, c)
               M == MembersAfter(old, c)
    <3>1. Departed(S, M, u)
      BY <2>2, LeaveIsDeparture DEF SwitchSession
    <3>2. f \in S
      BY <1>1 DEF SessionsAfter
    <3>3. members' = [M EXCEPT ![f] = @ \cup {c}] /\ sessions' = S \cup {f}
      BY <2>2, <3>2 DEF SwitchSession
    <3>4. QED
      BY <1>1, <3>1, <3>2, <3>3, ArrivalMoves
  <2>3. QED
    BY <2>1, <2>2
<1>3. Roster!EnterSession(u, f, c \notin Guest)
  BY <1>1, <1>2, OpenIsSeated DEF Roster!EnterSession, EnterSession, SwitchSession
<1>4. (c \notin Guest) \in BOOLEAN
  OBVIOUS
<1>5. QED
  BY <1>1, <1>3, <1>4 DEF Roster!Next

\* The registry, with its sockets, its locks and its races, implements the
\* roster: the accounts only ever see one of its three moves.
THEOREM ImplementsTheRoster == Spec => ImplementsRoster
<1>1. Init => Roster!Init
  <2> SUFFICES ASSUME Init PROVE Roster!Init
    OBVIOUS
  <2>1. \A u \in User : FleetOf(u) = Nil
    BY DEF Init, FleetOf, FleetsOf
  <2>2. Hosts = {}
    BY DEF Init, Hosts
  <2>3. QED
    BY <2>1, <2>2 DEF Init, Roster!Init
<1>2. IInv /\ IInv' /\ [Next]_vars => [Roster!Next]_(Roster!vars)
  <2> SUFFICES ASSUME IInv, IInv', [Next]_vars PROVE [Roster!Next]_(Roster!vars)
    OBVIOUS
  <2>1. ASSUME NEW c \in Conn, CreateSession(c) PROVE Roster!Next
    BY <2>1, CreateRefines
  <2>2. ASSUME NEW c \in Conn, EnterSession(c) \/ SwitchSession(c) PROVE Roster!Next
    BY <2>2, JoinRefines
  <2>3. ASSUME NEW c \in Conn, KickPlayer(c) PROVE [Roster!Next]_(Roster!vars)
    <3>1. task[c].aim \in Conn
      BY <2>3 DEF KickPlayer, Authorised, IInv, TypeOK, Task, Idle, JoinTask, MasterTask, ServerTask
    <3>2. QED
      BY <2>3, <3>1, LeaveRefines DEF KickPlayer
  <2>4. ASSUME NEW c \in Conn, LeaveOnClose(c) PROVE [Roster!Next]_(Roster!vars)
    <3>1. cleanup[c] \in Conn
      BY <2>4 DEF LeaveOnClose, IInv, TypeOK
    <3>2. QED
      BY <2>4, <3>1, LeaveRefines DEF LeaveOnClose
  <2>5. ASSUME NEW c \in Conn,
               RejectMissingSession(c) \/ RefuseDuplicate(c) \/ RejoinOverGhost(c)
        PROVE  UNCHANGED Roster!vars
    BY <2>5, UnmovedStutters DEF RejectMissingSession, RefuseDuplicate, RejoinOverGhost, regVars
  <2>6. ASSUME NEW c \in Conn, NEW f, NEW kind, NEW arg, Connect(c, f) \/ Receive(c, kind, arg)
        PROVE  UNCHANGED Roster!vars
    BY <2>6, UnmovedStutters DEF Connect, Receive, regVars
  <2>7. ASSUME NEW c \in Conn,
               \/ Authorise(c) \/ PromotePlayer(c) \/ DemotePlayer(c)
               \/ PlayerJoinSotServer(c) \/ PlayerLeaveSotServer(c)
        PROVE  UNCHANGED Roster!vars
    BY <2>7, UnmovedStutters DEF Authorise, PromotePlayer, DemotePlayer, PlayerJoinSotServer,
                                 PlayerLeaveSotServer, regVars
  <2>8. ASSUME NEW c \in Conn,
               \/ PeerDrops(c) \/ FallSilent(c) \/ OnClose(c)
               \/ HandlerTimesOut(c) \/ CleanupTimesOut(c)
        PROVE  UNCHANGED Roster!vars
    BY <2>8, UnmovedStutters DEF PeerDrops, FallSilent, OnClose, HandlerTimesOut,
                                 CleanupTimesOut, regVars
  <2>9. CASE UNCHANGED vars
    BY <2>9, UnmovedStutters DEF vars
  <2>10. QED
    BY <2>1, <2>2, <2>3, <2>4, <2>5, <2>6, <2>7, <2>8, <2>9
       DEF Next, Handle, JoinSession, KeepAlive, MasterFrame, JoinServerFrame, LeaveServerFrame
<1>3. QED
  BY <1>1, <1>2, RegistryInvariant, PTL DEF Spec, ImplementsRoster, Roster!Spec
=============================================================================
