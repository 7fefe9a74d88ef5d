---------------------------- MODULE FleetSessions ----------------------------
(***************************************************************************)
(* The session registry of the BetterFleet backend: SessionManager.java    *)
(* (the @Lock-ed bean that owns every fleet) as it is driven by the        *)
(* WebSocket endpoint SessionSocket.java.                                  *)
(*                                                                         *)
(* A client opens a connection, sends one CONNECT, and becomes a member of *)
(* a fleet it creates or joins.  The CONNECT deserializes a Player object; *)
(* a connection's single-use token makes that at most one object per       *)
(* connection, so an element of Conn names both a WebSocket session and    *)
(* the Player object built on it.  The code compares Player objects by     *)
(* identity (Player has no equals) in some places and by username in       *)
(* others, and the socket of an object can be replaced: what object, what  *)
(* account and what socket a step talks about are three different things,  *)
(* and the module keeps them apart.                                        *)
(*                                                                         *)
(* Every SessionManager method holds the write lock, so it is one action.  *)
(* A handler of SessionSocket is not: it resolves objects under one lock   *)
(* acquisition, and uses them under a later one.  Each acquisition is an   *)
(* action, and task[c] / cleanup[c] hold what was resolved in between.     *)
(*                                                                         *)
(* Usernames compare case-insensitively everywhere in the code: User is a  *)
(* set of case-folded names.                                               *)
(*                                                                         *)
(* Operators named X_Y and commented (fault) are not part of the model:    *)
(* each is X with the mistake Y, kept to show which property notices it.   *)
(***************************************************************************)
EXTENDS FiniteSets

CONSTANTS
  Conn,          \* WebSocket connections, and the Player objects they carry
  User,          \* accounts (usernames)
  Sid,           \* session codes
  Server,        \* Sea of Thieves servers, by hash
  Nil,
  Account,       \* [Conn -> User]: the username in the connection's CONNECT
  Guest,         \* the connections opened with a web-console guest token
  Frames,        \* the kinds of frame the clients of this instance send
  LockTimeouts   \* whether a lock acquisition may exceed its 200 ms budget

MasterFrames == {"kick", "promote", "demote"}
ServerFrames == {"joinServer", "leaveServer"}
AllFrames    == MasterFrames \cup ServerFrames \cup {"keepAlive"}

ASSUME ConstantsAssumption ==
  /\ Account \in [Conn -> User]
  /\ Guest \subseteq Conn
  /\ Frames \subseteq AllFrames
  /\ LockTimeouts \in BOOLEAN
  /\ Nil \notin Conn \cup User \cup Sid \cup Server

VARIABLES
  link,      \* link[c]: the state of the WebSocket session c
  socket,    \* socket[p]: the session Player object p currently writes to
  master,    \* the Player objects whose isMaster flag is set
  silent,    \* the Player objects that sent nothing for GHOST_AFTER_MILLIS
  reported,  \* reported[c]: the server the client behind c believes it is on
  sessions,  \* keys of SessionManager.sessions
  used,      \* every code handed out so far (codes are random UUID prefixes)
  members,   \* members[f]: Fleet.players
  tracked,   \* tracked[f]: keys of Fleet.servers
  crew,      \* crew[f][s]: SotServer.connectedPlayers in fleet f
  task,      \* task[c]: the message handler running for connection c
  cleanup    \* cleanup[c]: the object resolved by the onClose handler of c

regVars  == <<sessions, used, members, tracked, crew, master>>
linkVars == <<link, socket, silent, reported>>
vars     == <<link, socket, master, silent, reported, sessions, used, members,
              tracked, crew, task, cleanup>>

-----------------------------------------------------------------------------
(* Types *)

\* "dropped": the peer went away, "closed": the backend closed the session
\* itself; in both onClose is still to be delivered, after it the link is "gone".
LinkState == {"fresh", "open", "closed", "dropped", "gone"}

\* who: the sender the handler resolved; aim: the member it acts on;
\* arg: the payload (a code, an account or a server).
Idle       == [kind |-> "idle", arg |-> Nil, who |-> Nil, aim |-> Nil]
JoinTask   == [kind : {"connect"}, arg : Sid \cup {Nil}, who : {Nil}, aim : {Nil}]
MasterTask == [kind : MasterFrames, arg : User, who : Conn, aim : Conn \cup {Nil}]
ServerTask == [kind : ServerFrames, arg : Server, who : Conn, aim : {Nil}]
Task       == {Idle} \cup JoinTask \cup MasterTask \cup ServerTask

NoCrew == [s \in Server |-> {}]

TypeOK ==
  /\ link \in [Conn -> LinkState]
  /\ socket \in [Conn -> Conn]
  /\ master \in SUBSET Conn
  /\ silent \in SUBSET Conn
  /\ reported \in [Conn -> Server \cup {Nil}]
  /\ used \in SUBSET Sid
  /\ sessions \in SUBSET used
  /\ members \in [Sid -> SUBSET Conn]
  /\ tracked \in [Sid -> SUBSET Server]
  /\ crew \in [Sid -> [Server -> SUBSET Conn]]
  /\ task \in [Conn -> Task]
  /\ cleanup \in [Conn -> Conn \cup {Nil}]

-----------------------------------------------------------------------------
(* Lookups *)

IsOpen(c) == link[c] = "open"

\* The fleets an account has a seat in; getFleetByPlayerName returns the first.
FleetsOf(u) == {f \in sessions : \E p \in members[f] : Account[p] = u}
FleetOf(u)  == IF FleetsOf(u) = {} THEN Nil ELSE CHOOSE f \in FleetsOf(u) : TRUE

SeatsOf(f, u) == {p \in members[f] : Account[p] = u}
SeatOf(f, u)  == IF SeatsOf(f, u) = {} THEN Nil ELSE CHOOSE p \in SeatsOf(f, u) : TRUE

\* The members whose current socket is c.
Holders(c)  == {p \in Conn : socket[p] = c /\ \E f \in sessions : p \in members[f]}
HolderOf(c) == IF Holders(c) = {} THEN Nil ELSE CHOOSE p \in Holders(c) : TRUE

\* The servers that list Player object p, in any fleet: the map's iteration
\* order decides which one getSotServerFromPlayer returns.
ServersHolding(p) == {s \in Server : \E f \in sessions : s \in tracked[f] /\ p \in crew[f][s]}
FoundServers(p)   == IF ServersHolding(p) = {} THEN {Nil} ELSE ServersHolding(p)

-----------------------------------------------------------------------------
(* What leaveSession(p) does to the fleet f of p's account.  Everything is  *)
(* an operator on the current state because createSession and joinSession   *)
(* call leaveSession inside their own locked section.                       *)

Left(f, p)     == {q \in members[f] : Account[q] # Account[p]}

\* (fault) guests keep a fleet alive, as before #682
Disbands_WhenEmpty(f, p) == Left(f, p) = {}

Disbands(f, p) == Left(f, p) \subseteq Guest

SessionsAfter(f, p) == IF Disbands(f, p) THEN sessions \ {f} ELSE sessions

MembersAfter(f, p) ==
  [members EXCEPT ![f] = IF Disbands(f, p) THEN {} ELSE Left(f, p)]

CrewAfter(f, p) ==
  [crew EXCEPT ![f] = IF Disbands(f, p) THEN NoCrew
                      ELSE [s \in Server |-> crew[f][s] \ {p}]]

\* (fault) the server the leaver was on is dropped with its other players
TrackedAfter_DropsCrew(f, p, found) ==
  [tracked EXCEPT ![f] = IF Disbands(f, p) THEN {} ELSE @ \ {found}]

\* (fault) the server found is put back unless it is empty, and so is a null
TrackedAfter_PutsBack(f, p, found) ==
  [tracked EXCEPT ![f] =
     IF Disbands(f, p) THEN {}
     ELSE IF found \in Server /\ crew[f][found] \ {p} = {} THEN @ \ {found}
     ELSE @ \cup {found}]

\* Only the server getSotServerFromPlayer found is dropped once it is empty.
TrackedAfter(f, p, found) ==
  [tracked EXCEPT ![f] =
     IF Disbands(f, p) THEN {}
     ELSE @ \ {s \in {found} \cap Server : crew[f][s] \ {p} = {}}]

\* The first app player inherits, if there is one; the list order is abstracted to
\* a choice.
Heirs(f, p) ==
  LET able == Left(f, p) \ Guest IN
  IF p \in master /\ able # {} THEN {{q} : q \in able} ELSE {{}}

\* The sockets leaveSession closes: p's own and, on a disband, the guests'.
ClosedBy(f, p) ==
  {socket[p]} \cup (IF Disbands(f, p) THEN {socket[q] : q \in Left(f, p)} ELSE {})

\* Session.close() on every socket of C: a no-op on one that is not open.
Closing(C) ==
  [c \in Conn |-> IF c \in C /\ link[c] = "open" THEN "closed" ELSE link[c]]

LeaveSession(p) ==
  LET f == FleetOf(Account[p]) IN
  \/ /\ f = Nil
     /\ link' = Closing({socket[p]})
     /\ UNCHANGED <<sessions, members, tracked, crew, master>>
  \/ /\ f # Nil
     /\ \E found \in FoundServers(p), heir \in Heirs(f, p) :
          /\ tracked' = TrackedAfter(f, p, found)
          /\ master'  = master \cup heir
     /\ link'     = Closing(ClosedBy(f, p))
     /\ sessions' = SessionsAfter(f, p)
     /\ members'  = MembersAfter(f, p)
     /\ crew'     = CrewAfter(f, p)

-----------------------------------------------------------------------------
Init ==
  /\ link = [c \in Conn |-> "fresh"]
  /\ socket = [c \in Conn |-> c]
  /\ master = {}
  /\ silent = {}
  /\ reported = [c \in Conn |-> Nil]
  /\ sessions = {}
  /\ used = {}
  /\ members = [f \in Sid |-> {}]
  /\ tracked = [f \in Sid |-> {}]
  /\ crew = [f \in Sid |-> NoCrew]
  /\ task = [c \in Conn |-> Idle]
  /\ cleanup = [c \in Conn |-> Nil]

-----------------------------------------------------------------------------
(* CONNECT *)

\* A CONNECT that passed the token and version gates: f is the code in the
\* socket path, Nil to create.  A guest token is bound to a code.
Connect(c, f) ==
  /\ link[c] = "fresh"
  /\ c \in Guest => f # Nil
  /\ link' = [link EXCEPT ![c] = "open"]
  /\ task' = [task EXCEPT ![c] = [Idle EXCEPT !.kind = "connect", !.arg = f]]
  /\ UNCHANGED <<regVars, socket, silent, reported, cleanup>>

Connecting(c) == task[c].kind = "connect"
Done(c)       == task' = [task EXCEPT ![c] = Idle]

\* (fault) the creator keeps the seat it had in another fleet (#876)
CreateFirstSession_KeepsOld(c, f) ==
  /\ master' = master \cup {c}
  /\ sessions' = sessions \cup {f}
  /\ members' = [members EXCEPT ![f] = {c}]
  /\ UNCHANGED <<link, tracked, crew>>

\* createSession publishes a fleet that already carries its creator.
CreateFirstSession(c, f) ==
  /\ FleetOf(Account[c]) = Nil
  /\ master' = master \cup {c}
  /\ sessions' = sessions \cup {f}
  /\ members' = [members EXCEPT ![f] = {c}]
  /\ UNCHANGED <<link, tracked, crew>>

\* Opening a session is leaving the previous one, and the departure is made by
\* the PREVIOUS membership: its socket is the one that gets closed.
CreateNextSession(c, f) ==
  LET old == FleetOf(Account[c])
      p   == SeatOf(old, Account[c])
  IN
  /\ old # Nil
  /\ \E found \in FoundServers(p), heir \in Heirs(old, p) :
       /\ tracked' = TrackedAfter(old, p, found)
       /\ master'  = master \cup heir \cup {c}
  /\ link' = Closing(ClosedBy(old, p))
  /\ sessions' = SessionsAfter(old, p) \cup {f}
  /\ members' = [MembersAfter(old, p) EXCEPT ![f] = {c}]
  /\ crew' = CrewAfter(old, p)

CreateSession(c) ==
  /\ Connecting(c)
  /\ task[c].arg = Nil
  /\ \E f \in Sid \ used :
       /\ used' = used \cup {f}
       /\ CreateFirstSession(c, f) \/ CreateNextSession(c, f)
  /\ silent' = silent \ {c}
  /\ Done(c)
  /\ UNCHANGED <<socket, reported, cleanup>>

\* (fault) the account is evicted before its target is validated (#733)
RejectMissingSession_LeavesFirst(c) ==
  LET f == task[c].arg IN
  /\ Connecting(c)
  /\ f # Nil
  /\ f \notin sessions
  /\ LeaveSession(c)
  /\ Done(c)
  /\ UNCHANGED <<used, socket, silent, reported, cleanup>>

\* joinSession, target code unknown: SESSION_NOT_FOUND, then close.  The target
\* is looked up before the current fleet is left.
RejectMissingSession(c) ==
  LET f == task[c].arg IN
  /\ Connecting(c)
  /\ f # Nil
  /\ f \notin sessions
  /\ link' = Closing({c})
  /\ Done(c)
  /\ UNCHANGED <<regVars, socket, silent, reported, cleanup>>

\* A seat is alive when its socket is open and it spoke recently.
Alive(p) == IsOpen(socket[p]) /\ p \notin silent

\* joinSession on the fleet the account is already in, over a live seat.
RefuseDuplicate(c) ==
  LET f == task[c].arg IN
  /\ Connecting(c)
  /\ f # Nil
  /\ FleetOf(Account[c]) = f
  /\ Alive(SeatOf(f, Account[c]))
  /\ link' = Closing({c})
  /\ Done(c)
  /\ UNCHANGED <<regVars, socket, silent, reported, cleanup>>

\* (fault) every ghost of the fleet is moved to the new socket, not just its owner
RejoinOverGhost_EveryGhost(c) ==
  LET f == task[c].arg
      p == SeatOf(f, Account[c])
  IN
  /\ Connecting(c)
  /\ f # Nil
  /\ FleetOf(Account[c]) = f
  /\ ~Alive(p)
  /\ link' = Closing({socket[p]})
  /\ socket' = [q \in Conn |-> IF q \in members[f] /\ ~Alive(q) THEN c ELSE socket[q]]
  /\ silent' = silent \ {p}
  /\ Done(c)
  /\ UNCHANGED <<regVars, reported, cleanup>>

\* joinSession over a ghost: the seat stays, only its socket is replaced.
RejoinOverGhost(c) ==
  LET f == task[c].arg
      p == SeatOf(f, Account[c])
  IN
  /\ Connecting(c)
  /\ f # Nil
  /\ FleetOf(Account[c]) = f
  /\ ~Alive(p)
  /\ link' = Closing({socket[p]})
  /\ socket' = [socket EXCEPT ![p] = c]
  /\ silent' = silent \ {p}
  /\ Done(c)
  /\ UNCHANGED <<regVars, reported, cleanup>>

\* (fault) the account's seat in another fleet is forgotten
EnterSession_KeepsOld(c) ==
  LET f == task[c].arg IN
  /\ Connecting(c)
  /\ f \in sessions
  /\ members' = [members EXCEPT ![f] = @ \cup {c}]
  /\ silent' = silent \ {c}
  /\ Done(c)
  /\ UNCHANGED <<sessions, used, tracked, crew, master, link, socket, reported, cleanup>>

\* joinSession by an account with no seat anywhere.
EnterSession(c) ==
  LET f == task[c].arg IN
  /\ Connecting(c)
  /\ f \in sessions
  /\ FleetOf(Account[c]) = Nil
  /\ members' = [members EXCEPT ![f] = @ \cup {c}]
  /\ silent' = silent \ {c}
  /\ Done(c)
  /\ UNCHANGED <<sessions, used, tracked, crew, master, link, socket, reported, cleanup>>

\* joinSession by an account seated in another fleet.  leaveSession is handed
\* the INCOMING object, whose socket is the new connection.
SwitchSession(c) ==
  LET f   == task[c].arg
      old == FleetOf(Account[c])
  IN
  /\ Connecting(c)
  /\ f \in sessions
  /\ old \notin {Nil, f}
  /\ \E found \in FoundServers(c), heir \in Heirs(old, c) :
       /\ tracked' = TrackedAfter(old, c, found)
       /\ master'  = master \cup heir
  /\ link' = Closing(ClosedBy(old, c))
  /\ sessions' = SessionsAfter(old, c)
  /\ members' = [MembersAfter(old, c) EXCEPT ![f] = @ \cup {c}]
  /\ crew' = CrewAfter(old, c)
  /\ silent' = silent \ {c}
  /\ Done(c)
  /\ UNCHANGED <<used, socket, reported, cleanup>>

-----------------------------------------------------------------------------
(* The frames of a member *)

\* onMessage: any inbound frame is a sign of life for the seat behind it, and
\* each handler starts by resolving its sender from the socket.
Receive(c, kind, arg) ==
  LET p == HolderOf(c) IN
  /\ IsOpen(c)
  /\ task[c] = Idle
  /\ kind \in Frames
  /\ p # Nil
  /\ silent' = silent \ {p}
  /\ task' = IF kind = "keepAlive" THEN task
             ELSE [task EXCEPT ![c] = [kind |-> kind, arg |-> arg, who |-> p, aim |-> Nil]]
  /\ UNCHANGED <<regVars, link, socket, cleanup>>

KeepAlive(c) == Receive(c, "keepAlive", Nil) /\ UNCHANGED reported

MasterFrame(c, kind, u) == Receive(c, kind, u) /\ UNCHANGED reported

\* A client reports a server when it believes to be on none, and leaves the one
\* it reported: GameSync never sends another order.  Guests detect no server.
JoinServerFrame(c, s) ==
  /\ c \notin Guest
  /\ reported[c] = Nil
  /\ Receive(c, "joinServer", s)
  /\ reported' = [reported EXCEPT ![c] = s]

LeaveServerFrame(c, s) ==
  /\ reported[c] = s
  /\ Receive(c, "leaveServer", s)
  /\ reported' = [reported EXCEPT ![c] = Nil]

\* handleKick / handlePromote: the sender's fleet by name, the sender's own
\* master flag, the target among the fleet's members.
Authorise(c) ==
  LET t      == task[c]
      f      == FleetOf(Account[t.who])
      target == SeatOf(f, t.arg)
  IN
  /\ t.kind \in MasterFrames
  /\ t.aim = Nil
  /\ task' = [task EXCEPT ![c] =
       IF f # Nil /\ t.who \in master /\ SeatsOf(f, t.arg) # {}
         THEN [t EXCEPT !.aim = target]
         ELSE Idle]
  /\ UNCHANGED <<regVars, linkVars, cleanup>>

Authorised(c, kind) == task[c].kind = kind /\ task[c].aim # Nil

KickPlayer(c) ==
  /\ Authorised(c, "kick")
  /\ LeaveSession(task[c].aim)
  /\ Done(c)
  /\ UNCHANGED <<used, socket, silent, reported, cleanup>>

\* setMaster runs outside the lock, on whatever object was resolved.
PromotePlayer(c) ==
  /\ Authorised(c, "promote")
  /\ master' = master \cup {task[c].aim}
  /\ Done(c)
  /\ UNCHANGED <<sessions, used, members, tracked, crew, linkVars, cleanup>>

DemotePlayer(c) ==
  /\ Authorised(c, "demote")
  /\ master' = master \ {task[c].aim}
  /\ Done(c)
  /\ UNCHANGED <<sessions, used, members, tracked, crew, linkVars, cleanup>>

\* playerJoinSotServer: the fleet is looked up by the object's username, the
\* object itself is what joins the crew.
PlayerJoinSotServer(c) ==
  LET p == task[c].who
      s == task[c].arg
      f == FleetOf(Account[p])
  IN
  /\ task[c].kind = "joinServer"
  /\ \/ /\ f = Nil
        /\ UNCHANGED <<tracked, crew>>
     \/ /\ f # Nil
        /\ tracked' = [tracked EXCEPT ![f] = @ \cup {s}]
        /\ crew' = [crew EXCEPT ![f][s] = @ \cup {p}]
  /\ Done(c)
  /\ UNCHANGED <<sessions, used, members, master, linkVars, cleanup>>

Tracks(f, s) == f # Nil /\ s \in tracked[f]

\* playerLeaveSotServer: detach, and drop the server once nobody is on it.
PlayerLeaveSotServer(c) ==
  LET p == task[c].who
      s == task[c].arg
      f == FleetOf(Account[p])
  IN
  /\ task[c].kind = "leaveServer"
  /\ \/ /\ ~Tracks(f, s)
        /\ UNCHANGED <<tracked, crew>>
     \/ /\ Tracks(f, s)
        /\ crew' = [crew EXCEPT ![f][s] = @ \ {p}]
        /\ tracked' = [tracked EXCEPT ![f] = IF crew[f][s] \ {p} = {} THEN @ \ {s} ELSE @]
  /\ Done(c)
  /\ UNCHANGED <<sessions, used, members, master, linkVars, cleanup>>

-----------------------------------------------------------------------------
(* The end of a connection *)

\* The peer closes, or the network or the container's idle timeout does.
PeerDrops(c) ==
  /\ IsOpen(c)
  /\ link' = [link EXCEPT ![c] = "dropped"]
  /\ UNCHANGED <<regVars, socket, silent, reported, task, cleanup>>

\* A half-open connection: the socket still looks open, nothing arrives on it.
FallSilent(p) ==
  /\ Alive(p)
  /\ task[socket[p]] = Idle
  /\ \E f \in sessions : p \in members[f]
  /\ silent' = silent \cup {p}
  /\ UNCHANGED <<regVars, link, socket, reported, task, cleanup>>

\* (fault) whoever closed a socket on our side is trusted to have removed its member
OnClose_PeerOnly(c) ==
  /\ \/ link[c] = "closed"
     \/ link[c] = "dropped" /\ task[c] = Idle
  /\ link' = [link EXCEPT ![c] = "gone"]
  /\ cleanup' = [cleanup EXCEPT ![c] = IF link[c] = "dropped" THEN HolderOf(c) ELSE Nil]
  /\ UNCHANGED <<regVars, socket, silent, reported, task>>

\* onClose, first half: who is behind this socket?  A peer's close is delivered
\* on the connection's own event loop, so behind a running handler; a close by
\* the backend is delivered on whatever thread performed it.
OnClose(c) ==
  /\ \/ link[c] = "closed"
     \/ link[c] = "dropped" /\ task[c] = Idle
  /\ link' = [link EXCEPT ![c] = "gone"]
  /\ cleanup' = [cleanup EXCEPT ![c] = HolderOf(c)]
  /\ UNCHANGED <<regVars, socket, silent, reported, task>>

\* onClose, second half: leaveSession on the object resolved above.
LeaveOnClose(c) ==
  /\ cleanup[c] # Nil
  /\ LeaveSession(cleanup[c])
  /\ cleanup' = [cleanup EXCEPT ![c] = Nil]
  /\ UNCHANGED <<used, socket, silent, reported, task>>

\* A LockException in a message handler reaches onError, which closes the socket.
HandlerTimesOut(c) ==
  /\ LockTimeouts
  /\ task[c] # Idle
  /\ ~(Authorised(c, "promote") \/ Authorised(c, "demote"))   \* no lock there
  /\ link' = Closing({c})
  /\ Done(c)
  /\ UNCHANGED <<regVars, socket, silent, reported, cleanup>>

\* A LockException in the cleanup itself is logged and swallowed.
CleanupTimesOut(c) ==
  /\ LockTimeouts
  /\ cleanup[c] # Nil
  /\ cleanup' = [cleanup EXCEPT ![c] = Nil]
  /\ UNCHANGED <<regVars, linkVars, task>>

-----------------------------------------------------------------------------
JoinSession(c) ==
  \/ RejectMissingSession(c)
  \/ RefuseDuplicate(c)
  \/ RejoinOverGhost(c)
  \/ EnterSession(c)
  \/ SwitchSession(c)

Handle(c) ==
  \/ CreateSession(c)
  \/ JoinSession(c)
  \/ Authorise(c)
  \/ KickPlayer(c)
  \/ PromotePlayer(c)
  \/ DemotePlayer(c)
  \/ PlayerJoinSotServer(c)
  \/ PlayerLeaveSotServer(c)

Next ==
  \E c \in Conn :
    \/ \E f \in used \cup {Nil} : Connect(c, f)
    \/ KeepAlive(c)
    \/ \E kind \in MasterFrames, u \in User : MasterFrame(c, kind, u)
    \/ \E s \in Server : JoinServerFrame(c, s) \/ LeaveServerFrame(c, s)
    \/ Handle(c)
    \/ PeerDrops(c)
    \/ FallSilent(c)
    \/ OnClose(c)
    \/ LeaveOnClose(c)
    \/ HandlerTimesOut(c)
    \/ CleanupTimesOut(c)

Spec == Init /\ [][Next]_vars

\* A handler that started is run to its end by its thread, and a socket that
\* closed has its onClose delivered.
Fairness ==
  \A c \in Conn : WF_vars(Handle(c)) /\ WF_vars(OnClose(c)) /\ WF_vars(LeaveOnClose(c))

FairSpec == Spec /\ Fairness

-----------------------------------------------------------------------------
(* Properties *)

Seated(p) == \E f \in sessions : p \in members[f]

\* An account has one seat, in one fleet: joining or opening a session is also
\* leaving the previous one (SessionManager.joinSession, createSession).
OneSeatPerAccount ==
  \A f, g \in Sid : \A p \in members[f], q \in members[g] :
    Account[p] = Account[q] => f = g /\ p = q

\* A published session carries a desktop player: there is no instant at which
\* an empty or guests-only session is visible (#876, #682).
NoOrphanFleet ==
  \A f \in Sid : IF f \in sessions THEN members[f] \ Guest # {} ELSE members[f] = {}

\* A WebSocket session speaks for one member, so resolving the sender of a frame
\* (getPlayerFromSessionId) never depends on iteration order.
OneSeatPerSocket ==
  \A f, g \in Sid : \A p \in members[f], q \in members[g] :
    socket[p] = socket[q] => p = q

\* Nobody is lost with a server: one that still lists a player stays in the list
\* of a fleet that is still open, whichever object or fleet a report resolved.
CrewIsTracked ==
  \A f \in Sid, s \in Server : crew[f][s] # {} => f \in sessions /\ s \in tracked[f]

\* What the seat invariants rest on: until its CONNECT is handled, the object of a
\* connection is nobody's seat and its socket nobody else's transport; and a
\* CONNECT made with a guest token never opens a session.
Waiting(c) == Connecting(c) \/ link[c] = "fresh"

NotYetSeated ==
  \A c \in Conn :
    /\ Connecting(c) => link[c] # "fresh" /\ (c \in Guest => task[c].arg # Nil)
    /\ Waiting(c) => /\ socket[c] = c
                     /\ \A p \in Conn \ {c} : socket[p] # c
                     /\ \A f \in Sid : c \notin members[f]

\* A join never costs an account the seat it had: not over a code that leads
\* nowhere (#733), not over a duplicate connection (#436).
JoinNeverLosesSeat ==
  [][\A c \in Conn : JoinSession(c) /\ FleetOf(Account[c]) # Nil
                       => (FleetOf(Account[c]))' # Nil]_vars

\* A member whose socket is closed for good leaves: no ghost is left behind
\* (SessionSocketTest.playerDisconnect_removedFromTheFleet_noGhostLeftBehind).
NoGhostLeftBehind ==
  \A p \in Conn : Seated(p) /\ link[socket[p]] # "open"
                    ~> ~Seated(p) \/ link[socket[p]] = "open"

-----------------------------------------------------------------------------
(* What the registry promises: SessionRoster, over the seats of the accounts. *)

Hosts == {u \in User : \E f \in sessions : \E p \in members[f] \ Guest : Account[p] = u}

Roster == INSTANCE SessionRoster WITH
  seat   <- [u \in User |-> FleetOf(u)],
  hosts  <- Hosts,
  issued <- used

\* Every step of the endpoint and of the registry is one move of one account,
\* or leaves the accounts where they are.
ImplementsRoster == Roster!Spec

-----------------------------------------------------------------------------
(* What comments and tests claim and the code does not keep: the runs that  *)
(* check these find a counterexample.                                       *)

\* "If the player is already in another session, they are removed from the old
\* session before joining the new one" (joinSession): a join that seats a
\* connection leaves that connection open.
JoinKeepsItsSocket ==
  [][\A c \in Conn : JoinSession(c) /\ Seated(c)' /\ IsOpen(c) => IsOpen(c)']_vars

\* "the member keeps their seat [...] and only the transport is replaced"
\* (joinSession over a ghost): the onClose of a socket evicts nobody whose
\* socket is another one, still open, unless the fleet goes with it.
CloseEvictsOnlyItsOwn ==
  [][\A c \in Conn, f \in Sid : LeaveOnClose(c) /\ f \in sessions' =>
       \A p \in members[f] \ members'[f] : socket[p] = c \/ ~IsOpen(socket[p])]_vars
=============================================================================
