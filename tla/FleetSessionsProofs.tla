------------------------ MODULE FleetSessionsProofs ------------------------
(***************************************************************************)
(* Proofs about FleetSessions: type correctness, and the inductive         *)
(* invariant behind one seat per account, one member per socket and no     *)
(* session without a desktop player, for every set of connections,         *)
(* accounts, codes and servers.                                            *)
(***************************************************************************)
EXTENDS FleetSessions, TLAPS

\* Every state of the registry has the declared types.
THEOREM TypeCorrect == Spec => []TypeOK
<1> USE ConstantsAssumption
<1>1. Init => TypeOK
  BY DEF Init, TypeOK, LinkState, NoCrew, Task
<1>2. TypeOK /\ [Next]_vars => TypeOK'
  <2> SUFFICES ASSUME TypeOK, [Next]_vars PROVE TypeOK'
    OBVIOUS
  <2> USE DEF TypeOK
  <2>idle. Idle \in Task
    BY DEF Task
  <2>closing. ASSUME NEW C PROVE Closing(C) \in [Conn -> LinkState]
    BY DEF Closing, LinkState
  <2>fleet. ASSUME NEW u, FleetOf(u) # Nil PROVE FleetOf(u) \in sessions
    BY <2>fleet DEF FleetOf, FleetsOf
  <2>seat. ASSUME NEW f \in Sid, NEW u, SeatsOf(f, u) # {}
           PROVE  SeatOf(f, u) \in members[f]
    BY <2>seat DEF SeatOf, SeatsOf
  <2>holder. ASSUME NEW c PROVE HolderOf(c) \in Conn \cup {Nil}
    BY DEF HolderOf, Holders
  <2>after. ASSUME NEW f \in Sid, NEW p \in Conn, NEW found, NEW heir \in Heirs(f, p)
            PROVE  /\ SessionsAfter(f, p) \in SUBSET sessions
                   /\ MembersAfter(f, p) \in [Sid -> SUBSET Conn]
                   /\ CrewAfter(f, p) \in [Sid -> [Server -> SUBSET Conn]]
                   /\ TrackedAfter(f, p, found) \in [Sid -> SUBSET Server]
                   /\ heir \in SUBSET Conn
    <3>1. SessionsAfter(f, p) \in SUBSET sessions
      BY DEF SessionsAfter
    <3>2. MembersAfter(f, p) \in [Sid -> SUBSET Conn]
      BY DEF MembersAfter, Left
    <3>3. CrewAfter(f, p) \in [Sid -> [Server -> SUBSET Conn]]
      BY DEF CrewAfter, NoCrew
    <3>4. TrackedAfter(f, p, found) \in [Sid -> SUBSET Server]
      BY DEF TrackedAfter
    <3>5. heir \in SUBSET Conn
      BY DEF Heirs, Left
    <3>6. QED
      BY <3>1, <3>2, <3>3, <3>4, <3>5
  <2>leave. ASSUME NEW p \in Conn, LeaveSession(p)
            PROVE  /\ link' \in [Conn -> LinkState]
                   /\ sessions' \in SUBSET sessions
                   /\ members' \in [Sid -> SUBSET Conn]
                   /\ tracked' \in [Sid -> SUBSET Server]
                   /\ crew' \in [Sid -> [Server -> SUBSET Conn]]
                   /\ master' \in SUBSET Conn
    <3> DEFINE f == FleetOf(Account[p])
    <3>1. CASE f = Nil
      BY <2>leave, <2>closing, <3>1 DEF LeaveSession
    <3>2. CASE f # Nil
      BY <2>leave, <2>closing, <2>fleet, <2>after, <3>2 DEF LeaveSession
    <3>3. QED
      BY <3>1, <3>2
  <2>1. ASSUME NEW c \in Conn, NEW f \in used \cup {Nil}, Connect(c, f) PROVE TypeOK'
    <3>1. [Idle EXCEPT !.kind = "connect", !.arg = f] \in JoinTask
      BY DEF JoinTask, Idle
    <3>2. QED
      BY <2>1, <3>1 DEF Connect, regVars, LinkState, Task
  <2>2. ASSUME NEW c \in Conn, KeepAlive(c) PROVE TypeOK'
    BY <2>2 DEF KeepAlive, Receive, regVars
  <2>3. ASSUME NEW c \in Conn, NEW kind \in MasterFrames, NEW u \in User, MasterFrame(c, kind, u)
        PROVE TypeOK'
    <3>1. [kind |-> kind, arg |-> u, who |-> HolderOf(c), aim |-> Nil] \in Task
      BY <2>3, <2>holder DEF MasterFrame, Receive, Task, MasterTask
    <3>2. QED
      BY <2>3, <3>1 DEF MasterFrame, Receive, regVars
  <2>4. ASSUME NEW c \in Conn, NEW s \in Server, JoinServerFrame(c, s) \/ LeaveServerFrame(c, s)
        PROVE TypeOK'
    <3>1. \A kind \in ServerFrames :
            [kind |-> kind, arg |-> s, who |-> HolderOf(c), aim |-> Nil] \in Task
      BY <2>4, <2>holder DEF JoinServerFrame, LeaveServerFrame, Receive, Task, ServerTask
    <3>2. QED
      BY <2>4, <3>1 DEF JoinServerFrame, LeaveServerFrame, Receive, regVars, ServerFrames
  <2>5. ASSUME NEW c \in Conn, CreateSession(c) PROVE TypeOK'
    <3> DEFINE old == FleetOf(Account[c])
               p   == SeatOf(old, Account[c])
    <3>1. old # Nil => old \in Sid /\ p \in Conn
      BY <2>fleet, <2>seat DEF FleetOf, FleetsOf, SeatsOf
    <3>2. PICK f \in Sid \ used :
            used' = used \cup {f} /\ (CreateFirstSession(c, f) \/ CreateNextSession(c, f))
      BY <2>5 DEF CreateSession
    <3>3. CASE CreateFirstSession(c, f)
      BY <2>5, <2>idle, <3>2, <3>3 DEF CreateSession, CreateFirstSession, Done
    <3>4. CASE CreateNextSession(c, f)
      <4>1. PICK found \in FoundServers(p), heir \in Heirs(old, p) :
              tracked' = TrackedAfter(old, p, found) /\ master' = master \cup heir \cup {c}
        BY <3>4 DEF CreateNextSession
      <4>2. old \in Sid /\ p \in Conn
        BY <3>1, <3>4 DEF CreateNextSession
      <4>3. /\ master' \in SUBSET Conn
            /\ tracked' \in [Sid -> SUBSET Server]
            /\ crew' \in [Sid -> [Server -> SUBSET Conn]]
            /\ sessions' \in SUBSET used'
            /\ members' \in [Sid -> SUBSET Conn]
        BY <2>after, <3>2, <3>4, <4>1, <4>2 DEF CreateNextSession
      <4>4. QED
        BY <2>5, <2>idle, <2>closing, <3>2, <3>4, <4>3 DEF CreateSession, CreateNextSession, Done
    <3>5. QED
      BY <3>2, <3>3, <3>4
  <2>6. ASSUME NEW c \in Conn, JoinSession(c) PROVE TypeOK'
    <3>1. CASE RejectMissingSession(c)
      BY <3>1, <2>idle, <2>closing DEF RejectMissingSession, Done, regVars
    <3>2. CASE RefuseDuplicate(c)
      BY <3>2, <2>idle, <2>closing DEF RefuseDuplicate, Done, regVars
    <3>3. CASE RejoinOverGhost(c)
      BY <3>3, <2>idle, <2>closing DEF RejoinOverGhost, Done, regVars
    <3>4. CASE EnterSession(c)
      BY <3>4, <2>idle DEF EnterSession, Done
    <3>5. CASE SwitchSession(c)
      <4>1. FleetOf(Account[c]) \in Sid
        BY <3>5, <2>fleet DEF SwitchSession
      <4>2. QED
        BY <3>5, <4>1, <2>idle, <2>closing, <2>after DEF SwitchSession, Done
    <3>6. QED
      BY <2>6, <3>1, <3>2, <3>3, <3>4, <3>5 DEF JoinSession
  <2>7. ASSUME NEW c \in Conn, Authorise(c) PROVE TypeOK'
    <3> DEFINE f      == FleetOf(Account[task[c].who])
               target == SeatOf(f, task[c].arg)
    <3>1. f # Nil /\ SeatsOf(f, task[c].arg) # {} => target \in Conn
      BY <2>fleet, <2>seat
    <3>2. task[c] \in MasterTask
      BY <2>7 DEF Authorise, Task, Idle, JoinTask, ServerTask, MasterFrames, ServerFrames
    <3>3. target \in Conn => [task[c] EXCEPT !.aim = target] \in Task
      BY <3>2 DEF MasterTask, Task
    <3>4. QED
      BY <2>7, <2>idle, <3>1, <3>3 DEF Authorise, regVars, linkVars
  <2>8. ASSUME NEW c \in Conn, KickPlayer(c) PROVE TypeOK'
    <3>1. task[c].aim \in Conn
      BY <2>8 DEF KickPlayer, Authorised, Task, Idle, JoinTask, MasterTask, ServerTask
    <3>2. QED
      BY <2>8, <2>idle, <2>leave, <3>1 DEF KickPlayer, Done
  <2>9. ASSUME NEW c \in Conn, PromotePlayer(c) \/ DemotePlayer(c) PROVE TypeOK'
    <3>1. task[c].aim \in Conn
      BY <2>9 DEF PromotePlayer, DemotePlayer, Authorised, Task, Idle, JoinTask, MasterTask, ServerTask
    <3>2. QED
      BY <2>9, <2>idle, <3>1 DEF PromotePlayer, DemotePlayer, Done, linkVars
  <2>10. ASSUME NEW c \in Conn, PlayerJoinSotServer(c) \/ PlayerLeaveSotServer(c) PROVE TypeOK'
    <3> DEFINE f == FleetOf(Account[task[c].who])
               s == task[c].arg
               p == task[c].who
    <3>1. task' \in [Conn -> Task]
      BY <2>10, <2>idle DEF PlayerJoinSotServer, PlayerLeaveSotServer, Done
    <3>2. f # Nil => f \in Sid
      BY <2>fleet
    <3>3. CASE PlayerJoinSotServer(c)
      <4>1. s \in Server /\ p \in Conn
        BY <3>3 DEF PlayerJoinSotServer, Task, Idle, JoinTask, MasterTask, ServerTask, MasterFrames
      <4>2. CASE f = Nil
        BY <3>1, <3>3, <4>2 DEF PlayerJoinSotServer, linkVars
      <4>3. CASE f # Nil
        <5>1. crew' = [crew EXCEPT ![f] = [crew[f] EXCEPT ![s] = @ \cup {p}]]
          BY <3>2, <3>3, <4>1, <4>3 DEF PlayerJoinSotServer
        <5>2. [crew[f] EXCEPT ![s] = @ \cup {p}] \in [Server -> SUBSET Conn]
          BY <3>2, <4>1, <4>3
        <5>3. crew' \in [Sid -> [Server -> SUBSET Conn]]
          BY <5>1, <5>2
        <5>4. tracked' \in [Sid -> SUBSET Server]
          <6>1. tracked' = [tracked EXCEPT ![f] = @ \cup {s}]
            BY <3>3, <4>3 DEF PlayerJoinSotServer
          <6>2. QED
            BY <6>1, <3>2, <4>1, <4>3
        <5>5. QED
          BY <3>1, <3>3, <5>3, <5>4 DEF PlayerJoinSotServer, linkVars
      <4>4. QED
        BY <4>2, <4>3
    <3>4. CASE PlayerLeaveSotServer(c)
      <4>1. tracked' \in [Sid -> SUBSET Server]
        BY <3>2, <3>4 DEF PlayerLeaveSotServer, Tracks
      <4>2. crew' \in [Sid -> [Server -> SUBSET Conn]]
        <5>1. CASE ~Tracks(f, s)
          BY <3>4, <5>1 DEF PlayerLeaveSotServer
        <5>2. CASE Tracks(f, s)
          <6>1. crew' = [crew EXCEPT ![f] = [crew[f] EXCEPT ![s] = @ \ {p}]]
            BY <3>2, <3>4, <5>2 DEF PlayerLeaveSotServer, Tracks
          <6>2. [crew[f] EXCEPT ![s] = @ \ {p}] \in [Server -> SUBSET Conn]
            BY <3>2, <5>2 DEF Tracks
          <6>3. QED
            BY <6>1, <6>2
        <5>3. QED
          BY <5>1, <5>2
      <4>3. QED
        BY <3>1, <3>4, <4>1, <4>2 DEF PlayerLeaveSotServer, linkVars
    <3>5. QED
      BY <2>10, <3>3, <3>4
  <2>11. ASSUME NEW c \in Conn,
                PeerDrops(c) \/ FallSilent(c) \/ OnClose(c) \/ HandlerTimesOut(c) \/ CleanupTimesOut(c)
         PROVE TypeOK'
    <3>1. CASE PeerDrops(c) \/ FallSilent(c)
      BY <3>1 DEF PeerDrops, FallSilent, regVars, LinkState
    <3>2. CASE OnClose(c)
      BY <3>2, <2>holder DEF OnClose, regVars, LinkState
    <3>3. CASE HandlerTimesOut(c)
      BY <3>3, <2>idle, <2>closing DEF HandlerTimesOut, Done, regVars
    <3>4. CASE CleanupTimesOut(c)
      BY <3>4 DEF CleanupTimesOut, regVars, linkVars
    <3>5. QED
      BY <2>11, <3>1, <3>2, <3>3, <3>4
  <2>12. ASSUME NEW c \in Conn, LeaveOnClose(c) PROVE TypeOK'
    BY <2>12, <2>leave DEF LeaveOnClose
  <2>13. CASE UNCHANGED vars
    BY <2>13 DEF vars
  <2>14. QED
    BY <2>1, <2>2, <2>3, <2>4, <2>5, <2>6, <2>7, <2>8, <2>9, <2>10, <2>11, <2>12, <2>13
       DEF Next, Handle
<1>3. QED
  BY <1>1, <1>2, PTL DEF Spec

-----------------------------------------------------------------------------
(* One seat per account, one member per socket, no session without a        *)
(* desktop player.  None of the three is inductive: a seat is added for a   *)
(* connection whose CONNECT is being handled, so they rest on NotYetSeated. *)

IInv ==
  /\ TypeOK
  /\ OneSeatPerAccount
  /\ NoOrphanFleet
  /\ OneSeatPerSocket
  /\ NotYetSeated

\* A registry <<S, M>> obtained from the current one by removing seats, where
\* account u has none left.
Vacated(S, M, u) ==
  /\ S \subseteq sessions
  /\ M \in [Sid -> SUBSET Conn]
  /\ \A g \in Sid : M[g] \subseteq members[g]
  /\ \A g \in Sid : \A q \in M[g] : Account[q] # u
  /\ \A g \in Sid : IF g \in S THEN M[g] \ Guest # {} ELSE M[g] = {}

\* FleetOf returns an open fleet that seats the account, if there is one.
LEMMA FleetOfFound ==
  ASSUME TypeOK, NEW u, FleetOf(u) # Nil
  PROVE  /\ FleetOf(u) \in sessions
         /\ FleetOf(u) \in Sid
         /\ \E p \in members[FleetOf(u)] : Account[p] = u
BY DEF FleetOf, FleetsOf, TypeOK

\* An account FleetOf does not find has no seat: the registry is vacated of it.
LEMMA Absent ==
  ASSUME IInv, NEW u, FleetOf(u) = Nil
  PROVE  Vacated(sessions, members, u)
<1>1. FleetsOf(u) = {}
  <2>1. \A f \in sessions : f # Nil
    BY ConstantsAssumption DEF IInv, TypeOK
  <2>2. QED
    BY <2>1 DEF FleetOf, FleetsOf
<1>2. \A g \in Sid : \A q \in members[g] : Account[q] # u
  BY <1>1 DEF FleetsOf, IInv, NoOrphanFleet
<1>3. QED
  BY <1>2 DEF IInv, TypeOK, NoOrphanFleet, Vacated

\* leaveSession(p) takes every seat of p's account, and takes the fleet with
\* them when no desktop player is left in it.
LEMMA Departure ==
  ASSUME IInv, NEW p \in Conn, NEW f, f = FleetOf(Account[p]), f # Nil
  PROVE  Vacated(SessionsAfter(f, p), MembersAfter(f, p), Account[p])
<1> DEFINE S == SessionsAfter(f, p)
           M == MembersAfter(f, p)
<1>1. f \in sessions /\ f \in Sid /\ \E r \in members[f] : Account[r] = Account[p]
  BY FleetOfFound DEF IInv
<1>2. Left(f, p) \subseteq members[f]
  BY DEF Left
<1>3. M \in [Sid -> SUBSET Conn] /\ \A g \in Sid : M[g] \subseteq members[g]
  BY <1>1, <1>2 DEF MembersAfter, IInv, TypeOK
<1>4. \A g \in Sid : \A q \in M[g] : Account[q] # Account[p]
  <2>1. \A q \in M[f] : Account[q] # Account[p]
    BY <1>1 DEF MembersAfter, Left, IInv, TypeOK
  <2>2. \A g \in Sid \ {f} : \A q \in members[g] : Account[q] # Account[p]
    BY <1>1 DEF IInv, OneSeatPerAccount
  <2>3. QED
    BY <1>3, <2>1, <2>2
<1>5. S \subseteq sessions
  BY DEF SessionsAfter
<1>6. \A g \in Sid : IF g \in S THEN M[g] \ Guest # {} ELSE M[g] = {}
  <2>1. CASE Disbands(f, p)
    BY <1>1, <2>1 DEF SessionsAfter, MembersAfter, IInv, TypeOK, NoOrphanFleet
  <2>2. CASE ~Disbands(f, p)
    <3>1. Left(f, p) \ Guest # {}
      BY <2>2 DEF Disbands
    <3>2. QED
      BY <1>1, <2>2, <3>1 DEF SessionsAfter, MembersAfter, IInv, TypeOK, NoOrphanFleet
  <2>3. QED
    BY <2>1, <2>2
<1>7. QED
  BY <1>3, <1>4, <1>5, <1>6 DEF Vacated

\* Removing seats, and closing an account's last one, disturbs neither.
LEMMA VacatedIsSound ==
  ASSUME IInv, NEW u, Vacated(sessions', members', u)
  PROVE  OneSeatPerAccount' /\ NoOrphanFleet'
BY DEF IInv, Vacated, OneSeatPerAccount, NoOrphanFleet

\* A connection takes a seat in a registry vacated of its own account: in a
\* fleet that is already there or, unless it is a guest, in a new one.
LEMMA SeatTaken ==
  ASSUME IInv, NEW c \in Conn, NEW f \in Sid, NEW S, NEW M,
         Vacated(S, M, Account[c]),
         f \in S \/ c \notin Guest,
         sessions' = S \cup {f},
         members' = [M EXCEPT ![f] = @ \cup {c}]
  PROVE  OneSeatPerAccount' /\ NoOrphanFleet'
<1>1. \A g \in Sid : members'[g] = IF g = f THEN M[g] \cup {c} ELSE M[g]
  BY DEF Vacated
<1>2. OneSeatPerAccount'
  <2> SUFFICES ASSUME NEW g \in Sid, NEW h \in Sid,
                      NEW p \in members'[g], NEW q \in members'[h],
                      Account[p] = Account[q]
               PROVE  g = h /\ p = q
    BY DEF OneSeatPerAccount
  <2>1. CASE p \in M[g] /\ q \in M[h]
    BY <2>1 DEF Vacated, IInv, OneSeatPerAccount
  <2>2. CASE p \notin M[g] /\ q \notin M[h]
    BY <1>1, <2>2
  <2>3. CASE p \in M[g] /\ q \notin M[h]
    BY <1>1, <2>3 DEF Vacated
  <2>4. CASE p \notin M[g] /\ q \in M[h]
    BY <1>1, <2>4 DEF Vacated
  <2>5. QED
    BY <2>1, <2>2, <2>3, <2>4
<1>3. NoOrphanFleet'
  BY <1>1 DEF Vacated, NoOrphanFleet
<1>4. QED
  BY <1>2, <1>3

\* Every step but the ghost rejoin leaves the sockets of the objects alone, and
\* the only new member it may seat is a connection whose CONNECT it handles.
LEMMA SocketsKept ==
  ASSUME IInv, NEW A \in SUBSET Conn,
         socket' = socket,
         \A g \in Sid : members'[g] \subseteq members[g] \cup A,
         \A a \in A : Waiting(a) /\ ~Waiting(a)',
         \A d \in Conn : Waiting(d)' => Waiting(d)
  PROVE  /\ OneSeatPerSocket'
         /\ \A d \in Conn : Waiting(d)' =>
              /\ socket'[d] = d
              /\ \A p \in Conn \ {d} : socket'[p] # d
              /\ \A f \in Sid : d \notin members'[f]
<1>1. OneSeatPerSocket'
  <2> SUFFICES ASSUME NEW g \in Sid, NEW h \in Sid,
                      NEW p \in members'[g], NEW q \in members'[h],
                      socket[p] = socket[q]
               PROVE  p = q
    BY DEF OneSeatPerSocket
  <2>1. p \in Conn /\ q \in Conn
    BY DEF IInv, TypeOK
  <2>2. CASE p \in A
    BY <2>1, <2>2 DEF IInv, NotYetSeated
  <2>3. CASE q \in A
    BY <2>1, <2>3 DEF IInv, NotYetSeated
  <2>4. CASE p \notin A /\ q \notin A
    BY <2>4 DEF IInv, OneSeatPerSocket
  <2>5. QED
    BY <2>2, <2>3, <2>4
<1>2. ASSUME NEW d \in Conn, Waiting(d)'
      PROVE  /\ socket'[d] = d
             /\ \A p \in Conn \ {d} : socket'[p] # d
             /\ \A f \in Sid : d \notin members'[f]
  BY <1>2 DEF IInv, NotYetSeated
<1>3. QED
  BY <1>1, <1>2

\* No step makes a connection wait for its CONNECT a second time.
LEMMA Queue ==
  ASSUME IInv, [Next]_vars, NEW d \in Conn
  PROVE  /\ Waiting(d)' => Waiting(d)
         /\ Connecting(d)' => link'[d] # "fresh" /\ (d \in Guest => task'[d].arg # Nil)
<1> USE DEF Waiting, Connecting
<1> DEFINE Goal == /\ Waiting(d)' => Waiting(d)
                   /\ Connecting(d)' => /\ link'[d] # "fresh"
                                        /\ d \in Guest => task'[d].arg # Nil
<1>types. link \in [Conn -> LinkState] /\ task \in [Conn -> Task]
  BY DEF IInv, TypeOK
<1>old. Connecting(d) => link[d] # "fresh" /\ (d \in Guest => task[d].arg # Nil)
  BY DEF IInv, NotYetSeated
<1>closed. ASSUME NEW C, link' = Closing(C) PROVE link'[d] = "fresh" <=> link[d] = "fresh"
  BY <1>closed, <1>types DEF Closing
<1>done. ASSUME NEW c \in Conn, Done(c) PROVE task'[d] = task[d] \/ task'[d] = Idle
  BY <1>done, <1>types DEF Done
<1>leave. ASSUME NEW p, LeaveSession(p) PROVE link'[d] = "fresh" <=> link[d] = "fresh"
  BY <1>leave, <1>closed DEF LeaveSession
<1>1. ASSUME NEW c \in Conn, NEW f \in used \cup {Nil}, Connect(c, f) PROVE Goal
  BY <1>1, <1>types, <1>old DEF Connect, Idle
<1>2. ASSUME NEW c \in Conn, NEW kind, NEW arg, kind # "connect", Receive(c, kind, arg)
      PROVE  Goal
  BY <1>2, <1>types, <1>old DEF Receive, Idle
<1>3. ASSUME NEW c \in Conn, CreateSession(c) PROVE Goal
  <2>1. link'[d] = "fresh" <=> link[d] = "fresh"
    BY <1>3, <1>closed DEF CreateSession, CreateFirstSession, CreateNextSession
  <2>2. QED
    BY <1>3, <1>done, <1>old, <2>1 DEF CreateSession, Idle
<1>4. ASSUME NEW c \in Conn, JoinSession(c) PROVE Goal
  <2>1. Done(c)
    BY <1>4 DEF JoinSession, RejectMissingSession, RefuseDuplicate, RejoinOverGhost,
                EnterSession, SwitchSession
  <2>2. link'[d] = "fresh" <=> link[d] = "fresh"
    BY <1>4, <1>closed DEF JoinSession, RejectMissingSession, RefuseDuplicate, RejoinOverGhost,
                           EnterSession, SwitchSession
  <2>3. QED
    BY <1>done, <1>old, <2>1, <2>2 DEF Idle
<1>5. ASSUME NEW c \in Conn, Authorise(c) PROVE Goal
  <2>1. task'[d].kind = "connect" => task[d].kind = "connect" /\ task'[d] = task[d]
    <3>1. CASE c = d
      BY <1>5, <1>types, <3>1 DEF Authorise, Idle, Task, JoinTask, MasterTask, ServerTask, MasterFrames
    <3>2. CASE c # d
      BY <1>5, <1>types, <3>2 DEF Authorise
    <3>3. QED
      BY <3>1, <3>2
  <2>2. QED
    BY <1>5, <1>old, <2>1 DEF Authorise, linkVars
<1>6. ASSUME NEW c \in Conn, KickPlayer(c) PROVE Goal
  BY <1>6, <1>leave, <1>done, <1>old DEF KickPlayer, Idle
<1>7. ASSUME NEW c \in Conn,
             PromotePlayer(c) \/ DemotePlayer(c) \/ PlayerJoinSotServer(c) \/ PlayerLeaveSotServer(c)
      PROVE  Goal
  BY <1>7, <1>done, <1>old
     DEF PromotePlayer, DemotePlayer, PlayerJoinSotServer, PlayerLeaveSotServer, linkVars, Idle
<1>8. ASSUME NEW c \in Conn, PeerDrops(c) \/ FallSilent(c) \/ OnClose(c) \/ CleanupTimesOut(c)
      PROVE  Goal
  BY <1>8, <1>types, <1>old DEF PeerDrops, FallSilent, OnClose, CleanupTimesOut, IsOpen, linkVars
<1>9. ASSUME NEW c \in Conn, HandlerTimesOut(c) PROVE Goal
  BY <1>9, <1>closed, <1>done, <1>old DEF HandlerTimesOut, Idle
<1>10. ASSUME NEW c \in Conn, LeaveOnClose(c) PROVE Goal
  BY <1>10, <1>leave, <1>old DEF LeaveOnClose
<1>11. CASE UNCHANGED vars
  BY <1>11, <1>old DEF vars
<1>12. QED
  BY <1>1, <1>2, <1>3, <1>4, <1>5, <1>6, <1>7, <1>8, <1>9, <1>10, <1>11
     DEF Next, Handle, KeepAlive, MasterFrame, JoinServerFrame, LeaveServerFrame, MasterFrames

\* What a step does to the registry: it only removes seats (of the account u of
\* a leaver), it seats the connection whose CONNECT it handles, or it moves the
\* seat of a ghost to another socket.
LEMMA RosterStep ==
  ASSUME IInv, [Next]_vars
  PROVE  \/ \E c \in Conn : RejoinOverGhost(c)
         \/ /\ OneSeatPerAccount' /\ NoOrphanFleet'
            /\ socket' = socket
            /\ \/ \A g \in Sid : members'[g] \subseteq members[g]
               \/ \E c \in Conn : /\ Waiting(c) /\ ~Waiting(c)'
                                 /\ \A g \in Sid : members'[g] \subseteq members[g] \cup {c}
<1> DEFINE Shrinks == \A g \in Sid : members'[g] \subseteq members[g]
           Seats(c) == /\ Waiting(c) /\ ~Waiting(c)'
                       /\ \A g \in Sid : members'[g] \subseteq members[g] \cup {c}
           Goal == /\ OneSeatPerAccount' /\ NoOrphanFleet'
                   /\ socket' = socket
                   /\ Shrinks \/ \E c \in Conn : Seats(c)
<1>same. ASSUME UNCHANGED <<sessions, members, socket>> PROVE Goal
  BY <1>same DEF IInv, OneSeatPerAccount, NoOrphanFleet
<1>leave. ASSUME NEW p \in Conn, LeaveSession(p), UNCHANGED socket PROVE Goal
  <2> DEFINE f == FleetOf(Account[p])
  <2>1. CASE f = Nil
    BY <1>leave, <1>same, <2>1 DEF LeaveSession
  <2>2. CASE f # Nil
    <3>1. sessions' = SessionsAfter(f, p) /\ members' = MembersAfter(f, p)
      BY <1>leave, <2>2 DEF LeaveSession
    <3>2. Vacated(sessions', members', Account[p])
      BY <2>2, <3>1, Departure
    <3>3. Shrinks
      BY <3>2 DEF Vacated
    <3>4. QED
      BY <1>leave, <3>2, <3>3, VacatedIsSound
  <2>3. QED
    BY <2>1, <2>2
<1>served. ASSUME NEW c \in Conn, Connecting(c), Done(c), link'[c] = "fresh" => link[c] = "fresh"
           PROVE  Waiting(c) /\ ~Waiting(c)'
  BY <1>served DEF Waiting, Connecting, Done, IInv, TypeOK, NotYetSeated, Idle
<1>seats. ASSUME NEW c \in Conn, NEW f \in Sid, NEW S, NEW M,
                 Vacated(S, M, Account[c]),
                 f \in S \/ c \notin Guest,
                 sessions' = S \cup {f},
                 members' = [M EXCEPT ![f] = @ \cup {c}],
                 Connecting(c), Done(c), link'[c] = "fresh" => link[c] = "fresh",
                 UNCHANGED socket
          PROVE  Goal
  <2>1. OneSeatPerAccount' /\ NoOrphanFleet'
    BY <1>seats, SeatTaken
  <2>2. \A g \in Sid : members'[g] \subseteq members[g] \cup {c}
    BY <1>seats DEF Vacated
  <2>3. QED
    BY <1>seats, <1>served, <2>1, <2>2
<1>1. ASSUME NEW c \in Conn, CreateSession(c) PROVE Goal
  <2> DEFINE old == FleetOf(Account[c])
             p   == SeatOf(old, Account[c])
  <2>1. PICK f \in Sid \ used : CreateFirstSession(c, f) \/ CreateNextSession(c, f)
    BY <1>1 DEF CreateSession
  <2>2. c \notin Guest
    BY <1>1 DEF CreateSession, IInv, NotYetSeated
  <2>3. f \notin sessions
    BY DEF IInv, TypeOK
  <2>4. link'[c] = "fresh" => link[c] = "fresh"
    BY <2>1 DEF CreateFirstSession, CreateNextSession, Closing, IInv, TypeOK
  <2>5. CASE CreateFirstSession(c, f)
    <3>1. Vacated(sessions, members, Account[c])
      BY <2>5, Absent DEF CreateFirstSession
    <3>2. members[f] = {}
      BY <2>3 DEF IInv, NoOrphanFleet
    <3>3. sessions' = sessions \cup {f} /\ members' = [members EXCEPT ![f] = @ \cup {c}]
      BY <2>5, <3>2 DEF CreateFirstSession
    <3>4. QED
      BY <1>1, <1>seats, <2>2, <2>4, <3>1, <3>3 DEF CreateSession
  <2>6. CASE CreateNextSession(c, f)
    <3> DEFINE S == SessionsAfter(old, p)
               M == MembersAfter(old, p)
    <3>1. old # Nil
      BY <2>6 DEF CreateNextSession
    <3>2. p \in Conn /\ Account[p] = Account[c]
      BY <3>1, FleetOfFound DEF SeatOf, SeatsOf, IInv, TypeOK
    <3>3. Vacated(S, M, Account[c])
      BY <3>1, <3>2, Departure
    <3>4. M[f] = {}
      BY <2>3, <3>3 DEF Vacated
    <3>5. sessions' = S \cup {f} /\ members' = [M EXCEPT ![f] = @ \cup {c}]
      BY <2>6, <3>4 DEF CreateNextSession
    <3>6. QED
      BY <1>1, <1>seats, <2>2, <2>4, <3>3, <3>5 DEF CreateSession
  <2>7. QED
    BY <2>1, <2>5, <2>6
<1>2. ASSUME NEW c \in Conn, EnterSession(c) PROVE Goal
  <2> DEFINE f == task[c].arg
  <2>1. f \in sessions /\ f \in Sid
    BY <1>2 DEF EnterSession, IInv, TypeOK
  <2>2. Vacated(sessions, members, Account[c])
    BY <1>2, Absent DEF EnterSession
  <2>3. sessions' = sessions \cup {f} /\ members' = [members EXCEPT ![f] = @ \cup {c}]
    BY <1>2, <2>1 DEF EnterSession
  <2>4. QED
    BY <1>2, <1>seats, <2>1, <2>2, <2>3 DEF EnterSession
<1>3. ASSUME NEW c \in Conn, SwitchSession(c) PROVE Goal
  <2> DEFINE f   == task[c].arg
             old == FleetOf(Account[c])
             S   == SessionsAfter(old, c)
             M   == MembersAfter(old, c)
  <2>1. f \in sessions /\ f \in Sid /\ old # Nil /\ old # f
    BY <1>3 DEF SwitchSession, IInv, TypeOK
  <2>2. Vacated(S, M, Account[c])
    BY <2>1, Departure
  <2>3. f \in S
    BY <2>1 DEF SessionsAfter
  <2>4. sessions' = S \cup {f} /\ members' = [M EXCEPT ![f] = @ \cup {c}]
    BY <1>3, <2>3 DEF SwitchSession
  <2>5. link'[c] = "fresh" => link[c] = "fresh"
    BY <1>3 DEF SwitchSession, Closing, IInv, TypeOK
  <2>6. QED
    BY <1>3, <1>seats, <2>1, <2>2, <2>3, <2>4, <2>5 DEF SwitchSession
<1>4. ASSUME NEW c \in Conn, RejectMissingSession(c) \/ RefuseDuplicate(c) PROVE Goal
  BY <1>4, <1>same DEF RejectMissingSession, RefuseDuplicate, regVars
<1>5. ASSUME NEW c \in Conn, KickPlayer(c) PROVE Goal
  <2>1. task[c].aim \in Conn
    BY <1>5 DEF KickPlayer, Authorised, IInv, TypeOK, Task, Idle, JoinTask, MasterTask, ServerTask
  <2>2. QED
    BY <1>5, <1>leave, <2>1 DEF KickPlayer
<1>6. ASSUME NEW c \in Conn, LeaveOnClose(c) PROVE Goal
  <2>1. cleanup[c] \in Conn
    BY <1>6 DEF LeaveOnClose, IInv, TypeOK
  <2>2. QED
    BY <1>6, <1>leave, <2>1 DEF LeaveOnClose
<1>7. ASSUME NEW c \in Conn, NEW f, NEW kind, NEW arg, Connect(c, f) \/ Receive(c, kind, arg)
      PROVE  Goal
  BY <1>7, <1>same DEF Connect, Receive, regVars
<1>8. ASSUME NEW c \in Conn,
             \/ Authorise(c) \/ PromotePlayer(c) \/ DemotePlayer(c)
             \/ PlayerJoinSotServer(c) \/ PlayerLeaveSotServer(c)
      PROVE  Goal
  BY <1>8, <1>same DEF Authorise, PromotePlayer, DemotePlayer, PlayerJoinSotServer,
                       PlayerLeaveSotServer, regVars, linkVars
<1>9. ASSUME NEW c \in Conn,
             \/ PeerDrops(c) \/ FallSilent(c) \/ OnClose(c)
             \/ HandlerTimesOut(c) \/ CleanupTimesOut(c)
      PROVE  Goal
  BY <1>9, <1>same DEF PeerDrops, FallSilent, OnClose, HandlerTimesOut, CleanupTimesOut,
                       regVars, linkVars
<1>10. CASE UNCHANGED vars
  BY <1>10, <1>same DEF vars
<1>11. QED
  BY <1>1, <1>2, <1>3, <1>4, <1>5, <1>6, <1>7, <1>8, <1>9, <1>10
     DEF Next, Handle, JoinSession, KeepAlive, MasterFrame, JoinServerFrame, LeaveServerFrame

\* A ghost rejoin moves a seat to the socket of a connection that, until then,
\* was nobody's transport.
LEMMA RejoinStep ==
  ASSUME IInv, NEW c \in Conn, RejoinOverGhost(c)
  PROVE  /\ OneSeatPerAccount' /\ NoOrphanFleet' /\ OneSeatPerSocket'
         /\ \A d \in Conn : Waiting(d)' =>
              /\ socket'[d] = d
              /\ \A p \in Conn \ {d} : socket'[p] # d
              /\ \A f \in Sid : d \notin members'[f]
<1> DEFINE f == task[c].arg
           p == SeatOf(f, Account[c])
<1>1. UNCHANGED <<sessions, members>> /\ socket' = [socket EXCEPT ![p] = c]
  BY DEF RejoinOverGhost, regVars
<1>2. p \in Conn /\ f \in Sid /\ p \in members[f]
  <2>1. FleetOf(Account[c]) # Nil /\ FleetOf(Account[c]) = f
    BY DEF RejoinOverGhost
  <2>2. f \in Sid /\ \E q \in members[f] : Account[q] = Account[c]
    BY <2>1, FleetOfFound DEF IInv
  <2>3. QED
    BY <2>2 DEF SeatOf, SeatsOf, IInv, TypeOK
<1>3. Waiting(c) /\ ~Waiting(c)'
  BY DEF RejoinOverGhost, Waiting, Connecting, Done, Closing, Idle, IInv, TypeOK, NotYetSeated
<1>4. \A d \in Conn : Waiting(d)' => Waiting(d)
  BY Queue DEF Next, Handle, JoinSession
<1>5. OneSeatPerAccount' /\ NoOrphanFleet'
  BY <1>1 DEF IInv, OneSeatPerAccount, NoOrphanFleet
<1>6. OneSeatPerSocket'
  <2> SUFFICES ASSUME NEW g \in Sid, NEW h \in Sid,
                      NEW q \in members[g], NEW r \in members[h],
                      socket'[q] = socket'[r]
               PROVE  q = r
    BY <1>1 DEF OneSeatPerSocket
  <2>1. q \in Conn /\ r \in Conn /\ q # c /\ r # c
    BY <1>3 DEF IInv, TypeOK, NotYetSeated
  <2>2. socket[q] # c /\ socket[r] # c
    BY <1>3, <2>1 DEF IInv, NotYetSeated
  <2>3. QED
    BY <1>1, <1>2, <2>1, <2>2 DEF IInv, TypeOK, OneSeatPerSocket
<1>7. ASSUME NEW d \in Conn, Waiting(d)'
      PROVE  /\ socket'[d] = d
             /\ \A q \in Conn \ {d} : socket'[q] # d
             /\ \A g \in Sid : d \notin members'[g]
  <2>1. Waiting(d) /\ d # c
    BY <1>3, <1>4, <1>7
  <2>2. d # p
    BY <1>2, <2>1 DEF IInv, NotYetSeated
  <2>3. QED
    BY <1>1, <1>2, <2>1, <2>2 DEF IInv, TypeOK, NotYetSeated
<1>8. QED
  BY <1>5, <1>6, <1>7

\* IInv is inductive.
THEOREM RegistryInvariant == Spec => []IInv
<1>1. Init => IInv
  <2> SUFFICES ASSUME Init PROVE IInv
    OBVIOUS
  <2>1. TypeOK
    BY ConstantsAssumption DEF Init, TypeOK, LinkState, NoCrew, Task
  <2>2. OneSeatPerAccount /\ NoOrphanFleet /\ OneSeatPerSocket
    BY DEF Init, OneSeatPerAccount, NoOrphanFleet, OneSeatPerSocket
  <2>3. NotYetSeated
    BY DEF Init, NotYetSeated, Connecting, Idle
  <2>4. QED
    BY <2>1, <2>2, <2>3 DEF IInv
<1>2. IInv /\ TypeOK' /\ [Next]_vars => IInv'
  <2> SUFFICES ASSUME IInv, TypeOK', [Next]_vars PROVE IInv'
    OBVIOUS
  <2> DEFINE SocketsSound == \A d \in Conn : Waiting(d) =>
                               /\ socket[d] = d
                               /\ \A p \in Conn \ {d} : socket[p] # d
                               /\ \A f \in Sid : d \notin members[f]
  <2>1. OneSeatPerAccount' /\ NoOrphanFleet' /\ OneSeatPerSocket' /\ SocketsSound'
    <3>1. CASE \E c \in Conn : RejoinOverGhost(c)
      BY <3>1, RejoinStep
    <3>2. CASE ~ \E c \in Conn : RejoinOverGhost(c)
      <4> DEFINE Seats(A) == /\ \A a \in A : Waiting(a) /\ ~Waiting(a)'
                             /\ \A g \in Sid : members'[g] \subseteq members[g] \cup A
      <4>1. /\ OneSeatPerAccount' /\ NoOrphanFleet' /\ socket' = socket
            /\ Seats({}) \/ \E c \in Conn : Seats({c})
        BY <3>2, RosterStep
      <4>2. PICK A \in SUBSET Conn : Seats(A)
        <5> HIDE DEF Seats
        <5>1. {} \in SUBSET Conn /\ \A c \in Conn : {c} \in SUBSET Conn
          OBVIOUS
        <5>2. QED
          BY <4>1, <5>1
      <4>3. QED
        BY <4>1, <4>2, Queue, SocketsKept
    <3>3. QED
      BY <3>1, <3>2
  <2>2. NotYetSeated'
    BY <2>1, Queue DEF NotYetSeated
  <2>3. QED
    BY <2>1, <2>2 DEF IInv
<1>3. QED
  BY <1>1, <1>2, TypeCorrect, PTL DEF Spec

\* Whatever is created, joined, kicked, closed or resumed, in any order, an
\* account never has two seats.
THEOREM AccountsAreSeatedOnce == Spec => []OneSeatPerAccount
<1>1. IInv => OneSeatPerAccount
  BY DEF IInv
<1>2. QED
  BY <1>1, RegistryInvariant, PTL

\* No interleaving publishes, or leaves behind, a session without a desktop
\* player, and no seat survives its session.
THEOREM SessionsHaveAHost == Spec => []NoOrphanFleet
<1>1. IInv => NoOrphanFleet
  BY DEF IInv
<1>2. QED
  BY <1>1, RegistryInvariant, PTL

\* A frame has one possible sender, whatever sockets were moved between seats.
THEOREM SocketsSpeakForOneMember == Spec => []OneSeatPerSocket
<1>1. IInv => OneSeatPerSocket
  BY DEF IInv
<1>2. QED
  BY <1>1, RegistryInvariant, PTL

\* No join costs the account its seat, however joinSession ends: the code is
\* unknown, the seat is alive or a ghost, the account moves to another fleet.
THEOREM JoinsKeepASeat == Spec => JoinNeverLosesSeat
<1> DEFINE Kept == \A c \in Conn : JoinSession(c) /\ FleetOf(Account[c]) # Nil
                                    => (FleetOf(Account[c]))' # Nil
<1>1. IInv /\ TypeOK' /\ [Next]_vars => [Kept]_vars
  <2> SUFFICES ASSUME IInv, TypeOK', NEW c \in Conn, JoinSession(c), FleetOf(Account[c]) # Nil
               PROVE  (FleetOf(Account[c]))' # Nil
    OBVIOUS
  <2> DEFINE u == Account[c]
  <2>found. ASSUME NEW f \in sessions', NEW p \in members'[f], Account[p] = u
            PROVE  (FleetOf(u))' # Nil
    <3>1. f \in (FleetsOf(u))'
      BY <2>found DEF FleetsOf
    <3>2. Nil \notin sessions'
      BY ConstantsAssumption DEF TypeOK
    <3>3. QED
      BY <3>1, <3>2 DEF FleetOf, FleetsOf
  <2>1. FleetOf(u) \in sessions /\ \E p \in members[FleetOf(u)] : Account[p] = u
    BY FleetOfFound DEF IInv
  <2>2. CASE RejectMissingSession(c) \/ RefuseDuplicate(c) \/ RejoinOverGhost(c)
    <3>1. UNCHANGED <<sessions, members>>
      BY <2>2 DEF RejectMissingSession, RefuseDuplicate, RejoinOverGhost, regVars
    <3>2. QED
      BY <2>1, <2>found, <3>1
  <2>3. CASE EnterSession(c)
    BY <2>3 DEF EnterSession
  <2>4. CASE SwitchSession(c)
    <3> DEFINE f   == task[c].arg
               old == FleetOf(u)
    <3>1. f \in sessions /\ f \in Sid /\ old # f
      BY <2>4 DEF SwitchSession, IInv, TypeOK
    <3>2. f \in sessions'
      BY <2>4, <3>1 DEF SwitchSession, SessionsAfter
    <3>3. c \in members'[f]
      <4>1. Vacated(SessionsAfter(old, c), MembersAfter(old, c), u)
        BY Departure
      <4>2. QED
        BY <2>4, <3>1, <4>1 DEF SwitchSession, Vacated
    <3>4. QED
      BY <2>found, <3>2, <3>3
  <2>5. QED
    BY <2>2, <2>3, <2>4 DEF JoinSession
<1>2. QED
  BY <1>1, RegistryInvariant, TypeCorrect, PTL DEF Spec, JoinNeverLosesSeat
-----------------------------------------------------------------------------
(* Crews and the lists of servers *)

\* A departure takes its object from the crews of its fleet; the server it drops
\* is one that has nobody else, and every server goes with a fleet that disbands.
LEMMA CrewsAfterDeparture ==
  ASSUME TypeOK, CrewIsTracked, NEW f \in sessions, NEW p \in Conn, NEW found,
         SessionsAfter(f, p) \subseteq sessions',
         crew' = CrewAfter(f, p),
         tracked' = TrackedAfter(f, p, found)
  PROVE  CrewIsTracked'
<1> SUFFICES ASSUME NEW g \in Sid, NEW s \in Server, crew'[g][s] # {}
             PROVE  g \in sessions' /\ s \in tracked'[g]
  BY DEF CrewIsTracked
<1>1. f \in Sid
  BY DEF TypeOK
<1>2. CASE g # f
  BY <1>1, <1>2 DEF CrewAfter, TrackedAfter, SessionsAfter, CrewIsTracked, TypeOK
<1>3. CASE g = f /\ Disbands(f, p)
  BY <1>1, <1>3 DEF CrewAfter, NoCrew, TypeOK
<1>4. CASE g = f /\ ~Disbands(f, p)
  <2>1. crew'[f][s] = crew[f][s] \ {p}
    BY <1>1, <1>4 DEF CrewAfter, TypeOK
  <2>2. f \in sessions /\ s \in tracked[f]
    BY <1>1, <1>4, <2>1 DEF CrewIsTracked
  <2>3. QED
    BY <1>1, <1>4, <2>1, <2>2 DEF TrackedAfter, SessionsAfter, TypeOK
<1>5. QED
  BY <1>2, <1>3, <1>4

\* Nobody is lost under a server that a fleet no longer lists, whichever object a
\* server report resolved and whoever left in between.
THEOREM CrewsAreTracked == Spec => []CrewIsTracked
<1>1. Init => CrewIsTracked
  BY DEF Init, CrewIsTracked, NoCrew
<1>2. TypeOK /\ CrewIsTracked /\ [Next]_vars => CrewIsTracked'
  <2> SUFFICES ASSUME TypeOK, CrewIsTracked, [Next]_vars PROVE CrewIsTracked'
    OBVIOUS
  <2>fleet. ASSUME NEW u, FleetOf(u) # Nil PROVE FleetOf(u) \in sessions /\ FleetOf(u) \in Sid
    BY <2>fleet, FleetOfFound
  <2>same. ASSUME sessions \subseteq sessions', UNCHANGED <<tracked, crew>> PROVE CrewIsTracked'
    BY <2>same DEF CrewIsTracked
  <2>leave. ASSUME NEW p \in Conn, LeaveSession(p) PROVE CrewIsTracked'
    <3>1. CASE FleetOf(Account[p]) = Nil
      BY <2>leave, <2>same, <3>1 DEF LeaveSession
    <3>2. CASE FleetOf(Account[p]) # Nil
      BY <2>leave, <2>fleet, <3>2, CrewsAfterDeparture DEF LeaveSession
    <3>3. QED
      BY <3>1, <3>2
  <2>1. ASSUME NEW c \in Conn, CreateSession(c) PROVE CrewIsTracked'
    <3> DEFINE old == FleetOf(Account[c])
               p   == SeatOf(old, Account[c])
    <3>1. PICK f \in Sid \ used : CreateFirstSession(c, f) \/ CreateNextSession(c, f)
      BY <2>1 DEF CreateSession
    <3>2. CASE CreateFirstSession(c, f)
      BY <2>same, <3>2 DEF CreateFirstSession
    <3>3. CASE CreateNextSession(c, f)
      <4>1. old \in sessions /\ p \in Conn
        BY <3>3, <2>fleet, FleetOfFound DEF CreateNextSession, SeatOf, SeatsOf, TypeOK
      <4>2. PICK found : tracked' = TrackedAfter(old, p, found)
        BY <3>3 DEF CreateNextSession
      <4>3. SessionsAfter(old, p) \subseteq sessions' /\ crew' = CrewAfter(old, p)
        BY <3>3 DEF CreateNextSession
      <4>4. QED
        BY <4>1, <4>2, <4>3, CrewsAfterDeparture
    <3>4. QED
      BY <3>1, <3>2, <3>3
  <2>2. ASSUME NEW c \in Conn, SwitchSession(c) PROVE CrewIsTracked'
    <3> DEFINE old == FleetOf(Account[c])
    <3>1. old \in sessions
      BY <2>2, <2>fleet DEF SwitchSession
    <3>2. PICK found : tracked' = TrackedAfter(old, c, found)
      BY <2>2 DEF SwitchSession
    <3>3. SessionsAfter(old, c) \subseteq sessions' /\ crew' = CrewAfter(old, c)
      BY <2>2 DEF SwitchSession
    <3>4. QED
      BY <3>1, <3>2, <3>3, CrewsAfterDeparture
  <2>3. ASSUME NEW c \in Conn, KickPlayer(c) PROVE CrewIsTracked'
    <3>1. task[c].aim \in Conn
      BY <2>3 DEF KickPlayer, Authorised, TypeOK, Task, Idle, JoinTask, MasterTask, ServerTask
    <3>2. QED
      BY <2>3, <2>leave, <3>1 DEF KickPlayer
  <2>4. ASSUME NEW c \in Conn, LeaveOnClose(c) PROVE CrewIsTracked'
    <3>1. cleanup[c] \in Conn
      BY <2>4 DEF LeaveOnClose, TypeOK
    <3>2. QED
      BY <2>4, <2>leave, <3>1 DEF LeaveOnClose
  <2>5. ASSUME NEW c \in Conn, PlayerJoinSotServer(c) PROVE CrewIsTracked'
    <3> DEFINE p == task[c].who
               s == task[c].arg
               f == FleetOf(Account[p])
    <3>1. s \in Server
      BY <2>5 DEF PlayerJoinSotServer, TypeOK, Task, Idle, JoinTask, MasterTask, ServerTask, MasterFrames
    <3>2. CASE f = Nil
      BY <2>5, <2>same, <3>2 DEF PlayerJoinSotServer
    <3>3. CASE f # Nil
      <4>1. f \in sessions /\ f \in Sid
        BY <2>fleet, <3>3
      <4>2. sessions' = sessions /\ tracked' = [tracked EXCEPT ![f] = @ \cup {s}]
        BY <2>5, <3>3 DEF PlayerJoinSotServer
      <4>3. crew' = [crew EXCEPT ![f] = [crew[f] EXCEPT ![s] = @ \cup {p}]]
        BY <2>5, <3>1, <3>3, <4>1 DEF PlayerJoinSotServer, TypeOK
      <4>4. ASSUME NEW g \in Sid, NEW r \in Server, crew'[g][r] # {}, g # f \/ r # s
            PROVE  g \in sessions' /\ r \in tracked'[g]
        <5>1. crew'[g][r] = crew[g][r]
          BY <4>1, <4>3, <4>4 DEF TypeOK
        <5>2. g \in sessions /\ r \in tracked[g]
          BY <4>4, <5>1 DEF CrewIsTracked
        <5>3. tracked[g] \subseteq tracked'[g]
          BY <4>1, <4>2 DEF TypeOK
        <5>4. QED
          BY <4>2, <5>2, <5>3
      <4>5. f \in sessions' /\ s \in tracked'[f]
        BY <4>1, <4>2 DEF TypeOK
      <4>6. QED
        BY <4>4, <4>5 DEF CrewIsTracked
    <3>4. QED
      BY <3>2, <3>3
  <2>6. ASSUME NEW c \in Conn, PlayerLeaveSotServer(c) PROVE CrewIsTracked'
    <3> DEFINE p == task[c].who
               s == task[c].arg
               f == FleetOf(Account[p])
    <3>1. CASE ~Tracks(f, s)
      BY <2>6, <2>same, <3>1 DEF PlayerLeaveSotServer
    <3>2. CASE Tracks(f, s)
      <4>1. f \in sessions /\ f \in Sid /\ s \in Server
        BY <2>fleet, <3>2 DEF Tracks, TypeOK
      <4>2. /\ sessions' = sessions
            /\ tracked' = [tracked EXCEPT ![f] = IF crew[f][s] \ {p} = {} THEN @ \ {s} ELSE @]
        BY <2>6, <3>2 DEF PlayerLeaveSotServer
      <4>3. crew' = [crew EXCEPT ![f] = [crew[f] EXCEPT ![s] = @ \ {p}]]
        BY <2>6, <3>2, <4>1 DEF PlayerLeaveSotServer, TypeOK
      <4>4. ASSUME NEW g \in Sid, NEW r \in Server, crew'[g][r] # {}
            PROVE  g \in sessions' /\ r \in tracked'[g]
        <5>1. crew'[g][r] = IF g = f /\ r = s THEN crew[f][s] \ {p} ELSE crew[g][r]
          BY <4>1, <4>3 DEF TypeOK
        <5>2. g \in sessions /\ r \in tracked[g]
          BY <4>4, <5>1 DEF CrewIsTracked
        <5>3. tracked'[g] = IF g = f /\ crew[f][s] \ {p} = {} THEN tracked[g] \ {s} ELSE tracked[g]
          BY <4>1, <4>2 DEF TypeOK
        <5>4. QED
          BY <4>2, <4>4, <5>1, <5>2, <5>3
      <4>5. QED
        BY <4>4 DEF CrewIsTracked
    <3>3. QED
      BY <3>1, <3>2
  <2>7. ASSUME NEW c \in Conn, UNCHANGED <<sessions, tracked, crew>> PROVE CrewIsTracked'
    BY <2>7, <2>same
  <2>8. ASSUME NEW c \in Conn,
               \/ RejectMissingSession(c) \/ RefuseDuplicate(c) \/ RejoinOverGhost(c)
               \/ EnterSession(c) \/ Authorise(c) \/ PromotePlayer(c) \/ DemotePlayer(c)
        PROVE  CrewIsTracked'
    BY <2>8, <2>7 DEF RejectMissingSession, RefuseDuplicate, RejoinOverGhost, EnterSession,
                      Authorise, PromotePlayer, DemotePlayer, regVars
  <2>9. ASSUME NEW c \in Conn, NEW f, NEW kind, NEW arg, Connect(c, f) \/ Receive(c, kind, arg)
        PROVE  CrewIsTracked'
    BY <2>9, <2>7 DEF Connect, Receive, regVars
  <2>10. ASSUME NEW c \in Conn,
               \/ PeerDrops(c) \/ FallSilent(c) \/ OnClose(c)
               \/ HandlerTimesOut(c) \/ CleanupTimesOut(c)
         PROVE CrewIsTracked'
    BY <2>10, <2>7 DEF PeerDrops, FallSilent, OnClose, HandlerTimesOut, CleanupTimesOut, regVars
  <2>11. CASE UNCHANGED vars
    BY <2>11, <2>same DEF vars
  <2>12. QED
    BY <2>1, <2>2, <2>3, <2>4, <2>5, <2>6, <2>8, <2>9, <2>10, <2>11
       DEF Next, Handle, JoinSession, KeepAlive, MasterFrame, JoinServerFrame, LeaveServerFrame
<1>3. QED
  BY <1>1, <1>2, TypeCorrect, PTL DEF Spec
=============================================================================
