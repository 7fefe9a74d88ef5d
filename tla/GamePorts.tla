------------------------------ MODULE GamePorts ------------------------------
(***************************************************************************)
(* Which UDP ports to capture (fetch_informations.rs): the game's          *)
(* processes, on Linux the wineserver that holds some of their sockets,    *)
(* and the ports they own.  The process list, the process tree and the     *)
(* socket table are read one after the other, and processes start, exit    *)
(* and open and close sockets in between.                                  *)
(*                                                                         *)
(* A process table is arbitrary when a scan begins, and forgotten when it  *)
(* is over.                                                                *)
(*                                                                         *)
(* Operators named X_Y and commented (fault) are not part of the model.    *)
(***************************************************************************)
EXTENDS Platform, Naturals, Sequences, FiniteSets

CONSTANTS
  Pid,        \* process ids, ordered
  Port,
  Nil,
  Kinds,      \* what the processes can be: subset of [Pid -> Kind]
  Parents,    \* the process trees: subset of [Pid -> Pid \cup {0}], 0 for none
  Owners,     \* who owns the sockets: subset of [Port -> SUBSET Pid]
  MaxChurn,   \* bound: what changes during a scan
  MaxCycles   \* bound: cap of no_udp_cycles

Kind == {"game", "wineserver", "other"}

ASSUME PortsAssumption ==
  /\ Pid \subseteq Nat \ {0} /\ IsFiniteSet(Pid)
  /\ Nil \notin Pid
  /\ Kinds \subseteq [Pid -> Kind]
  /\ Parents \subseteq [Pid -> Pid \cup {0}]
  /\ Owners \subseteq [Port -> SUBSET Pid]
  /\ MaxChurn \in Nat /\ MaxCycles \in Nat

VARIABLES
  step,      \* "idle", "pids", "wineserver", "sockets", "done"
  kind, parent, alive,   \* the process table
  owner,     \* the socket table
  churn,     \* how much has changed since the scan began
  pids,      \* find_game_pids
  first,     \* game_pids.first()
  targets,   \* the processes whose sockets are still to be looked up
  found,     \* game_udp_candidate_ports
  failed,    \* a socket table could not be read
  steady,    \* <<p, q>>: p of pids has owned q since they were found (history)
  noUdp      \* no_udp_cycles

tableVars == <<kind, parent, alive, owner, churn>>
scanVars  == <<pids, first, targets, found, failed>>
portsVars == <<step, tableVars, scanVars, steady, noUdp>>

NoKind   == [p \in Pid |-> "other"]
NoParent == [p \in Pid |-> 0]
NoOwner  == [q \in Port |-> {}]

PortsTypeOK ==
  /\ step \in {"idle", "pids", "wineserver", "sockets", "done"}
  /\ kind \in [Pid -> Kind]
  /\ parent \in [Pid -> Pid \cup {0}]
  /\ alive \subseteq Pid
  /\ owner \in [Port -> SUBSET Pid]
  /\ churn \in 0..MaxChurn
  /\ pids \subseteq Pid
  /\ first \in Pid \cup {Nil}
  /\ targets \subseteq Pid
  /\ found \subseteq Port
  /\ failed \in BOOLEAN
  /\ steady \subseteq Pid \X Port
  /\ noUdp \in 0..MaxCycles

NothingScanned ==
  /\ kind = NoKind /\ parent = NoParent /\ alive = {} /\ owner = NoOwner
  /\ churn = 0
  /\ pids = {} /\ first = Nil /\ targets = {} /\ found = {}
  /\ failed = FALSE /\ steady = {}

PortsInit == step = "idle" /\ noUdp = 0 /\ NothingScanned

-----------------------------------------------------------------------------
(* The wineserver of a game process *)

Least(S) == CHOOSE p \in S : \A q \in S : p <= q

Wineservers == {p \in alive : kind[p] = "wineserver"}

\* What the process map answers: a process that is gone has no parent in it.
ParentOf(p) == IF p \in alive THEN parent[p] ELSE 0

\* ancestor_chain: p, its parent, and so on, up to the root or to a cycle
Chain(p) ==
  LET last(s) == s[Len(s)]
      chain[n \in 0..Cardinality(Pid)] ==
        IF n = 0 THEN <<p>>
        ELSE LET s == chain[n - 1]
                 q == ParentOf(last(s))
             IN IF q = 0 \/ \E i \in DOMAIN s : s[i] = q THEN s ELSE Append(s, q)
  IN chain[Cardinality(Pid)]

\* The places of p's chain that are also in g's, and how far from g.
Common(g, p) == {i \in DOMAIN Chain(p) :
                   \E j \in DOMAIN Chain(g) : Chain(g)[j] = Chain(p)[i]}
Depth(g, p) ==
  LET i == Least(Common(g, p))
  IN CHOOSE j \in DOMAIN Chain(g) : Chain(g)[j] = Chain(p)[i]

Siblings(g) == {w \in Wineservers : ParentOf(g) # 0 /\ parent[w] = ParentOf(g)}

Related(g) == {w \in Wineservers : Common(g, w) # {}}

\* (fault) the ancestor nearest to the wineserver decides
Resolve_Near(g) ==
  IF Siblings(g) # {} THEN Least(Siblings(g))
  ELSE IF Related(g) = {} THEN Nil
  ELSE LET near == Least({Least(Common(g, w)) : w \in Related(g)})
       IN Least({w \in Related(g) : Least(Common(g, w)) = near})

\* resolve_wineserver: a sibling, else the one whose common ancestor with the
\* game is the closest to the game; the lowest pid of several
Resolve(g) ==
  IF Siblings(g) # {} THEN Least(Siblings(g))
  ELSE IF Related(g) = {} THEN Nil
  ELSE LET nearest == Least({Depth(g, w) : w \in Related(g)})
       IN Least({w \in Related(g) : Depth(g, w) = nearest})

-----------------------------------------------------------------------------
(* What changes during a scan *)

\* A port is steady while one process of the game owns it all along.
Hold(own) == steady' = {h \in steady : h[1] \in own[h[2]]}

Churning ==
  /\ step \in {"wineserver", "sockets"} /\ churn < MaxChurn
  /\ churn' = churn + 1

\* A process exits: its sockets go with it, its children to its parent.
Exits(p) ==
  /\ Churning /\ p \in alive
  /\ alive' = alive \ {p}
  /\ parent' = [c \in Pid |-> IF parent[c] = p THEN parent[p] ELSE parent[c]]
  /\ owner' = [q \in Port |-> owner[q] \ {p}]
  /\ Hold(owner')
  /\ UNCHANGED <<step, kind, scanVars, noUdp>>

\* A process closes or opens a socket on the port q.
Closes(p, q) ==
  /\ Churning /\ p \in owner[q]
  /\ owner' = [owner EXCEPT ![q] = @ \ {p}]
  /\ Hold(owner')
  /\ UNCHANGED <<step, kind, parent, alive, scanVars, noUdp>>

Opens(p, q) ==
  /\ Churning /\ p \in alive \ owner[q]
  /\ owner' = [owner EXCEPT ![q] = @ \cup {p}]
  /\ Hold(owner')
  /\ UNCHANGED <<step, kind, parent, alive, scanVars, noUdp>>

-----------------------------------------------------------------------------
(* The scan *)

BeginScan ==
  /\ step = "idle"
  /\ kind' \in Kinds /\ parent' \in Parents /\ alive' = Pid
  /\ owner' \in Owners
  /\ step' = "pids"
  /\ UNCHANGED <<churn, scanVars, steady, noUdp>>

Games == {p \in alive : kind[p] = "game"}

\* (fault) one process of the game is as good as all
FindPids_First ==
  /\ step = "pids" /\ Games # {}
  /\ pids' = Games
  /\ \E p \in Games : first' = p /\ targets' = {p}
  /\ steady' = {h \in Games \X Port : h[1] \in owner[h[2]]}
  /\ step' = IF Linux THEN "wineserver" ELSE "sockets"
  /\ UNCHANGED <<tableVars, found, failed, noUdp>>

\* find_game_pids, in no particular order
FindPids ==
  /\ step = "pids" /\ Games # {}
  /\ pids' = Games /\ targets' = Games
  /\ first' \in Games
  /\ steady' = {h \in Games \X Port : h[1] \in owner[h[2]]}
  /\ step' = IF Linux THEN "wineserver" ELSE "sockets"
  /\ UNCHANGED <<tableVars, found, failed, noUdp>>

\* track_no_udp_cycles in a scan of the loop; a diagnostic's leaves the counter alone.
Count(n) == noUdp' \in {n, noUdp}

\* No process of the game: the cycle is over, and the counter starts again.
FindNoPids ==
  /\ step = "pids" /\ Games = {}
  /\ step' = "done" /\ Count(0)
  /\ UNCHANGED <<tableVars, scanVars, steady>>

\* (fault) no wineserver is a target too
AddWineserver_Nil ==
  /\ step = "wineserver"
  /\ targets' = targets \cup {Resolve(first)}
  /\ step' = "sockets"
  /\ UNCHANGED <<tableVars, pids, first, found, failed, steady, noUdp>>

AddWineserver ==
  /\ step = "wineserver"
  /\ targets' = targets \cup ({Resolve(first)} \ {Nil})
  /\ step' = "sockets"
  /\ UNCHANGED <<tableVars, pids, first, found, failed, steady, noUdp>>

OwnedBy(S) == {q \in Port : owner[q] \cap S # {}}

Look(S) == found' = found \cup OwnedBy(S)

\* One table for all the processes on Linux, one for each on Windows; a table
\* that cannot be read has no ports.
ReadSockets ==
  /\ step = "sockets" /\ targets # {}
  /\ \E S \in SUBSET targets :
       /\ IF Linux THEN S = targets ELSE Cardinality(S) = 1
       /\ targets' = targets \ S
       /\ \/ Look(S) /\ UNCHANGED failed
          \/ failed' = TRUE /\ UNCHANGED found
  /\ UNCHANGED <<step, tableVars, pids, first, steady, noUdp>>

\* The game is there, with a port or without.
EndScan ==
  /\ step = "sockets" /\ targets = {}
  /\ step' = "done"
  /\ Count(IF found # {} THEN 0 ELSE IF noUdp < MaxCycles THEN noUdp + 1 ELSE noUdp)
  /\ UNCHANGED <<tableVars, scanVars, steady>>

PortsStep ==
  \/ BeginScan \/ FindPids \/ FindNoPids \/ AddWineserver \/ ReadSockets \/ EndScan
  \/ \E p \in Pid : Exits(p) \/ \E q \in Port : Opens(p, q) \/ Closes(p, q)

-----------------------------------------------------------------------------
(* Properties *)

SteadyPorts == {h[2] : h \in steady}

\* A port that a process of the game has owned since the process list was read
\* is a candidate, whatever else came and went, unless a table was unreadable
\* (the flapping candidate set of issue #725, fetch_informations.rs:878-880).
SteadyPortsAreFound == step = "done" => SteadyPorts \subseteq found \/ failed

Ancestors(p) == {Chain(p)[i] : i \in DOMAIN Chain(p)}

\* The wineserver chosen is a sibling of the game when there is one, and else shares
\* all of the game's ancestry that any other shares; there is one whenever some
\* wineserver shares any.  So it is in a malformed table too, where parents form a
\* cycle (the docs of resolve_wineserver and ancestor_chain,
\* fetch_informations.rs:974-983, 1024-1026).
WineserverIsTheClosest ==
  step = "wineserver" =>
    LET w == Resolve(first)
        shared(v) == Ancestors(first) \cap Ancestors(v)
    IN /\ w = Nil <=> \A v \in Wineservers : shared(v) = {}
       /\ w # Nil =>
            /\ w \in Wineservers /\ shared(w) # {}
            /\ IF \E v \in Wineservers : parent[v] = ParentOf(first) /\ parent[v] # 0
                 THEN parent[w] = ParentOf(first)
                 ELSE \A v \in Wineservers : shared(v) \subseteq shared(w)
==============================================================================
