---------------------------- MODULE SessionRoster ----------------------------
(***************************************************************************)
(* What the session registry promises, without sockets, Player objects or  *)
(* locks: an account sits in one session at most, a session exists as long *)
(* as a host (a desktop player) sits in it, and a code, once handed out,   *)
(* is never handed out again.  FleetSessions implements this.              *)
(***************************************************************************)
CONSTANTS User, Sid, Nil

VARIABLES
  seat,    \* seat[u]: the session u sits in, or Nil
  hosts,   \* the seated accounts that can keep a session open
  issued   \* the codes handed out so far

vars == <<seat, hosts, issued>>

TypeOK ==
  /\ seat \in [User -> Sid \cup {Nil}]
  /\ hosts \in SUBSET User
  /\ issued \in SUBSET Sid

Open == {seat[u] : u \in User} \ {Nil}

Init ==
  /\ seat = [u \in User |-> Nil]
  /\ hosts = {}
  /\ issued = {}

\* Account u moves to seat f, as a host or not; a session whose last host is
\* gone closes with everybody in it.
Move(u, f, asHost) ==
  LET moved == [seat EXCEPT ![u] = f]
      kept  == IF asHost THEN hosts \cup {u} ELSE hosts \ {u}
  IN
  /\ hosts' = kept
  /\ seat' = [v \in User |-> IF \E h \in kept : moved[h] = moved[v] THEN moved[v] ELSE Nil]

\* Opening or entering a session is also leaving the previous one.
OpenSession(u, f) ==
  /\ f \notin issued
  /\ issued' = issued \cup {f}
  /\ Move(u, f, TRUE)

EnterSession(u, f, asHost) ==
  /\ f \in Open \ {seat[u]}
  /\ Move(u, f, asHost)
  /\ UNCHANGED issued

Leave(u) ==
  /\ seat[u] # Nil
  /\ Move(u, Nil, FALSE)
  /\ UNCHANGED issued

Next ==
  \E u \in User :
    \/ Leave(u)
    \/ \E f \in Sid :
         \/ OpenSession(u, f)
         \/ \E asHost \in BOOLEAN : EnterSession(u, f, asHost)

Spec == Init /\ [][Next]_vars
=============================================================================
