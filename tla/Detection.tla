------------------------------ MODULE Detection ------------------------------
(***************************************************************************)
(* The server detector of the desktop app (fetch_informations.rs): the     *)
(* state machine DetectionState and the loop that feeds it and publishes   *)
(* what it decides through Api.                                            *)
(*                                                                         *)
(* A capture window is a number of packets per flow.  The busy flow of the *)
(* game socket is the host and says that the player is in a game; a sparse *)
(* flow on another socket, recognised by accumulating windows, is the      *)
(* identity of the server.  A flow is a local port and a remote endpoint;  *)
(* only flows in the game's port range that go both ways are modelled.     *)
(* Bytes, which only break ties, are abstracted to a choice, and so is the *)
(* host's address, which only labels the log.                              *)
(*                                                                         *)
(* Time is counted in capture cycles: every cycle but a suspended one      *)
(* takes one tick or more.                                                 *)
(*                                                                         *)
(* Operators named X_Y and commented (fault) are not part of the model:    *)
(* each is X with the mistake Y, kept to show which property notices it.   *)
(***************************************************************************)
EXTENDS Naturals

CONSTANTS
  LocalPort,     \* the game's UDP sockets
  Remote,        \* remote endpoints, address and port
  Flow,          \* the flows that can occur
  Port,          \* [Flow -> LocalPort]
  Endpoint,      \* [Flow -> Remote]
  Nil,
  Window,        \* the capture windows: packets per flow
  Floor,         \* MIN_SERVER_PACKETS
  SessionFloor,  \* MIN_SESSION_PACKETS
  Gap,           \* ticks between two cycles
  Grace,         \* SERVER_LOST_GRACE_SECS, in ticks
  Probation,     \* IDENTITY_PROBATION_SECS, in ticks
  Ttl,           \* QUARANTINE_TTL_SECS, in ticks
  MaxPackets     \* [Flow -> Nat]: bounds of the packets accumulated for a game

ASSUME ConstantsAssumption ==
  /\ Port \in [Flow -> LocalPort]
  /\ Endpoint \in [Flow -> Remote]
  /\ Nil \notin LocalPort \cup Remote \cup Flow
  /\ Window \subseteq [Flow -> Nat]
  /\ Floor \in Nat \ {0}
  /\ SessionFloor \in Nat \ {0}
  /\ Gap \subseteq Nat \ {0}
  /\ Grace \in Nat
  /\ Probation \in Nat
  /\ Ttl \in Nat
  /\ Probation <= Ttl
  /\ MaxPackets \in [Flow -> Nat]

\* A socket change takes two windows, and two windows outlast the probation.
ASSUME TwoWindowsAssumption == \A d, e \in Gap : d + e >= Probation

VARIABLES
  status,      \* Api.game_status
  server,      \* Api.server_ip and server_port, Nil while unresolved
  socket,      \* connection: the local port of the game's host flow
  flows,       \* the packets accumulated for the current game, per flow
  locked,      \* locked_session: the flow taken for the server's identity
  quarantine,  \* the previous game's flows, ignored
  probation,   \* identity_probation: the one released when it goes on talking
  since,       \* ticks since quarantine_born, up to Ttl + 1 (which is None)
  silence,     \* ticks since last_traffic, up to Grace + 1
  fallenBack,  \* fallen_back: the menu is shown, the identity held
  pending,     \* pending_socket: the port that may be a new game's
  ended        \* ended[f]: ticks since a switch ended the game of identity f,
               \* up to Probation (history: the code does not keep it)

gameVars  == <<socket, flows, locked, pending, fallenBack>>
barVars   == <<quarantine, probation>>
clockVars == <<since, silence, ended>>
vars      == <<status, server, gameVars, barVars, clockVars>>

Status      == {"Unknown", "Closed", "Started", "MainMenu", "InGame"}
NoPackets   == [f \in Flow |-> 0]
LongAgo     == [f \in Flow |-> Probation]

TypeOK ==
  /\ status \in Status
  /\ server \in Remote \cup {Nil}
  /\ socket \in LocalPort \cup {Nil}
  /\ flows \in [Flow -> Nat]
  /\ locked \in Flow \cup {Nil}
  /\ quarantine \in SUBSET Flow
  /\ probation \in Flow \cup {Nil}
  /\ since \in 0..(Ttl + 1)
  /\ silence \in 0..(Grace + 1)
  /\ fallenBack \in BOOLEAN
  /\ pending \in LocalPort \cup {Nil}
  /\ ended \in [Flow -> 0..Probation]

Init ==
  /\ status = "Unknown"
  /\ server = Nil
  /\ socket = Nil
  /\ flows = NoPackets
  /\ locked = Nil
  /\ quarantine = {}
  /\ probation = Nil
  /\ since = Ttl + 1
  /\ silence = 0
  /\ fallenBack = FALSE
  /\ pending = Nil
  /\ ended = LongAgo

-----------------------------------------------------------------------------
(* Time: d ticks since the last cycle *)

Until(n, bound) == IF n <= bound THEN n ELSE bound

Since(d) == Until(since + d, Ttl + 1)
Quiet(d) == IF socket = Nil THEN 0 ELSE Until(silence + d, Grace + 1)
Aged(d)  == [f \in Flow |-> Until(ended[f] + d, Probation)]
Pass(d)  == since' = Since(d) /\ ended' = Aged(d)

\* (fault) the silence is never long enough to leave a game
Expired_Never(quiet) == quiet > Grace + 1

Expired(quiet) == quiet > Grace

-----------------------------------------------------------------------------
(* The quarantine, as a window finds it *)

Lifted(d) == Since(d) > Ttl

\* (fault) the teardown's stragglers are a proof of life
Proven_AtOnce(w, d) == probation # Nil /\ w[probation] > 0

\* The previous identity still talks after the teardown would be over.
Proven(w, d) == probation # Nil /\ Since(d) >= Probation /\ w[probation] > 0

Barred(w, d) ==
  IF Lifted(d) THEN {} ELSE IF Proven(w, d) THEN quarantine \ {probation} ELSE quarantine

Suspect(w, d) == IF Lifted(d) \/ Proven(w, d) THEN Nil ELSE probation

Without(w, S) == [f \in Flow |-> IF f \in S THEN 0 ELSE w[f]]

-----------------------------------------------------------------------------
(* The game socket: pick_game_socket, on a window w without its barred flows *)

Loudest(S, w) == {f \in S : \A g \in S : w[g] <= w[f]}

\* The socket of the locked identity is never a candidate.
IdentityPort == IF locked = Nil \/ Port[locked] = socket THEN Nil ELSE Port[locked]

Busy(w) == {f \in Flow : w[f] >= Floor /\ Port[f] # IdentityPort}

Mine(w) == {f \in Busy(w) : Port[f] = socket}

\* Any packet on the game's socket proves the game alive.
Alive(w) == \E f \in Flow : Port[f] = socket /\ w[f] > 0

-----------------------------------------------------------------------------
(* The identity: accumulate, update_session_lock *)

Sum(acc, w) == [f \in Flow |-> acc[f] + w[f]]

\* (fault) the game's own socket is not barred, so that a migrated host qualifies (#832)
Sparse_AnySocket(acc, port) ==
  {f \in Flow : acc[f] >= SessionFloor /\ \E h \in Flow : 4 * acc[f] <= acc[h]}

\* pick_session_flow_excluding: sparse beside the host, and not on the game's socket.
Sparse(acc, port) ==
  {f \in Flow : /\ acc[f] >= SessionFloor
                /\ Port[f] # port
                /\ \E h \in Flow : 4 * acc[f] <= acc[h]}

\* (fault) the lock is not sticky: the best of every window takes it
Outweighs_Anyhow(acc, f, g) == acc[f] >= acc[g]

Outweighs(acc, f, g) == acc[g] = 0 \/ acc[f] >= 2 * acc[g]

\* The windows so far are acc, the lock so far is old, the game is on port.
Accumulate(acc, old, port) ==
  /\ \A f \in Flow : acc[f] <= MaxPackets[f]
  /\ flows' = acc
  /\ \/ /\ Sparse(acc, port) = {}
        /\ locked' = old
     \/ \E best \in Loudest(Sparse(acc, port), acc) :
          locked' = IF old = Nil \/ Outweighs(acc, best, old) THEN best ELSE old

-----------------------------------------------------------------------------
(* on_window, one action per verdict *)

\* A host flow was found: the player is in a game, and an unresolved identity is
\* published as no server.
InGame ==
  /\ pending' = Nil
  /\ fallenBack' = FALSE
  /\ silence' = 0
  /\ status' = "InGame"
  /\ server' = IF locked' = Nil THEN Nil ELSE Endpoint[locked']

\* The first socket since the launch is adopted on sight.
Enter(w) ==
  /\ socket = Nil
  /\ \E host \in Loudest(Busy(w), w) : socket' = Port[host]
  /\ Accumulate(Sum(flows, w), locked, socket')
  /\ InGame

\* The game's socket clears the floor: steady, migrated, or resumed.
Stay(w) ==
  /\ socket # Nil
  /\ Mine(w) # {}
  /\ Accumulate(Sum(flows, w), locked, socket)
  /\ InGame
  /\ UNCHANGED socket

\* Another socket clears the floor and the game's own does not.
Challenged(w) == socket # Nil /\ Mine(w) = {} /\ Busy(w) # {}

\* (fault) the remote endpoint is remembered instead of the socket
Pend_Endpoint(w, d) ==
  /\ Challenged(w)
  /\ \E host \in Loudest(Busy(w), w) :
       /\ pending # Port[host]
       /\ pending' = Endpoint[host]
  /\ silence' = IF Alive(w) THEN 0 ELSE Quiet(d)
  /\ UNCHANGED <<status, server, socket, flows, locked, fallenBack>>

\* One window of that is not a socket change (#892).
Pend(w, d) ==
  /\ Challenged(w)
  /\ \E host \in Loudest(Busy(w), w) :
       /\ pending # Port[host]
       /\ pending' = Port[host]
  /\ silence' = IF Alive(w) THEN 0 ELSE Quiet(d)
  /\ UNCHANGED <<status, server, socket, flows, locked, fallenBack>>

\* The dangerous flows of the game that ends (#873).
Teardown ==
  {f \in Flow : Port[f] = socket /\ flows[f] > 0}
    \cup (IF locked = Nil THEN {} ELSE {locked})

\* The second window in a row is: a new game, which forgets the old one.
Switch(w) ==
  /\ Challenged(w)
  /\ \E host \in Loudest(Busy(w), w) : pending = Port[host] /\ socket' = Port[host]

\* (fault) the switch window is accumulated through the old filter (#873)
Restart_OldFilter(w) == Accumulate(w, Nil, socket')

\* The fresh accumulator starts without the flows that are quarantined now.
Restart(w) == Accumulate(Without(w, Teardown), Nil, socket')

NewGame(raw, w, d) ==
  /\ Switch(w)
  /\ Restart(w)
  /\ InGame
  /\ quarantine' = Teardown
  /\ probation' = IF locked = Nil THEN Suspect(raw, d) ELSE locked
  /\ since' = 0
  /\ ended' = [f \in Flow |-> IF f = locked THEN 0 ELSE Aged(d)[f]]

\* No host, but the connection is within its grace: the packets count.
Hold(w, d) ==
  /\ socket # Nil
  /\ ~fallenBack
  /\ Busy(w) = {}
  /\ Alive(w) \/ ~Expired(Quiet(d))
  /\ silence' = IF Alive(w) THEN 0 ELSE Quiet(d)
  /\ pending' = Nil
  /\ Accumulate(Sum(flows, w), locked, socket)
  /\ server' = IF status = "InGame" /\ server = Nil /\ locked' # Nil
               THEN Endpoint[locked'] ELSE server
  /\ UNCHANGED <<status, socket, fallenBack>>

\* The grace expired: the menu is shown, the identity kept.
Demote ==
  /\ fallenBack' = TRUE
  /\ status' = "MainMenu"
  /\ server' = Nil

FallBack(w, d) ==
  /\ socket # Nil
  /\ ~fallenBack
  /\ Busy(w) = {}
  /\ ~Alive(w)
  /\ Expired(Quiet(d))
  /\ Demote
  /\ silence' = Quiet(d)
  /\ pending' = Nil
  /\ UNCHANGED <<socket, flows, locked>>

\* Nothing to hold: the main menu.
Menu(w, d) ==
  /\ socket = Nil \/ fallenBack
  /\ Busy(w) = {}
  /\ status' = "MainMenu"
  /\ silence' = Quiet(d)
  /\ pending' = Nil
  /\ UNCHANGED <<server, socket, flows, locked, fallenBack>>

\* The window as the rest of the machine sees it.
Clean(raw, d) == Without(raw, Barred(raw, d))

\* A window that does not switch games leaves the quarantine as it reviewed it.
Review(raw, d) ==
  /\ quarantine' = Barred(raw, d)
  /\ probation' = Suspect(raw, d)
  /\ Pass(d)

OnWindow(raw, d) ==
  LET w == Clean(raw, d) IN
  \/ NewGame(raw, w, d)
  \/ /\ Review(raw, d)
     /\ \/ Enter(w)
        \/ Stay(w)
        \/ Pend(w, d)
        \/ Hold(w, d)
        \/ FallBack(w, d)
        \/ Menu(w, d)

-----------------------------------------------------------------------------
(* The cycles without a window *)

\* The game runs and enumerates no socket, before its first connection.
Launch(d) ==
  /\ socket = Nil
  /\ status' = "Started"
  /\ silence' = Quiet(d)
  /\ Pass(d)
  /\ UNCHANGED <<server, gameVars, barVars>>

\* The game runs and enumerates no socket, after it.
Socketless(d) ==
  /\ socket # Nil
  /\ silence' = Quiet(d)
  /\ Pass(d)
  /\ \/ /\ ~fallenBack /\ Expired(Quiet(d))
        /\ Demote
     \/ /\ fallenBack \/ ~Expired(Quiet(d))
        /\ UNCHANGED <<status, server, fallenBack>>
  /\ UNCHANGED <<socket, flows, locked, pending, barVars>>

\* A diagnostic owns the capture: suspension is not silence.  Such a cycle is short.
Suspend(d) ==
  /\ silence' = 0
  /\ Pass(d)
  /\ UNCHANGED <<status, server, gameVars, barVars>>

\* The game's process is gone, the one exit that is certain.
CloseGame ==
  /\ status # "Closed"
  /\ status' = "Closed"
  /\ server' = Nil
  /\ socket' = Nil
  /\ flows' = NoPackets
  /\ locked' = Nil
  /\ quarantine' = {}
  /\ probation' = Nil
  /\ since' = Ttl + 1
  /\ silence' = 0
  /\ fallenBack' = FALSE
  /\ pending' = Nil
  /\ ended' = LongAgo

Next ==
  \/ \E d \in Gap :
       \/ \E raw \in Window : OnWindow(raw, d)
       \/ Launch(d)
       \/ Socketless(d)
  \/ \E d \in Gap \cup {0} : Suspend(d)
  \/ CloseGame

Spec == Init /\ [][Next]_vars

-----------------------------------------------------------------------------
(* Properties *)

\* The frontend is told InGame exactly while there is a game that has not fallen
\* back, and a server only then and only while an identity is held (init).
ShowsWhatItHolds ==
  /\ status = "InGame" <=> socket # Nil /\ ~fallenBack
  /\ server # Nil => status = "InGame" /\ locked # Nil

\* No flow on the game's socket is ever the identity (#832): the per-client host
\* would group players by accident.
IdentityIsNotTheHost == locked # Nil => Port[locked] # socket

\* The quarantined flows of the previous game never count for the current one,
\* whichever window switched games (#873).
TeardownNeverCounts == \A f \in quarantine : flows[f] = 0

\* The identity of a game that a switch ended is not taken for the next game's
\* while its stragglers may last, two switches in a row included (#906).
NoEchoRelock == locked # Nil => ended[locked] >= Probation

\* A game is shown no longer than its socket has been silent for the grace,
\* unless a socket change is under way (#832).
ShownGameIsAlive == status = "InGame" => silence <= Grace \/ pending # Nil

\* An identity, once held, is given up only with its game or for a rival with
\* twice its packets, however the host comes and goes (#832); so a card that
\* becomes unresolved while in a game is a new game's (GameSync.ts relies on it).
IdentityIsHeld ==
  [][/\ locked # Nil /\ locked' # locked =>
          socket' # socket \/ (locked' # Nil /\ flows'[locked'] >= 2 * flows'[locked])
     /\ status = "InGame" /\ status' = "InGame" /\ server # Nil /\ server' = Nil =>
          socket' # socket]_vars
=============================================================================
