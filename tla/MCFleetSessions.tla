--------------------------- MODULE MCFleetSessions ---------------------------
(* A small registry: one name with two connections (a reconnection, or the  *)
(* player's phone) and a second account; in one run one of them is a guest. *)
EXTENDS FleetSessions, TLC

CONSTANTS c1, c2, c3, zel, bob

Crew3    == {c1, c2, c3}
Account3 == c1 :> zel @@ c2 :> zel @@ c3 :> bob
NoGuest  == {}
\* A web guest types a name, here the one of a desktop player (the token is bound
\* to a session code, not to an account).
Phone    == {c2}

\* The two connections of one account are interchangeable, and so are the codes
\* and the servers.  Every CHOOSE of FleetSessions is over a set that the seat
\* invariants keep to one element, so no step tells them apart.
Interchangeable ==
  Permutations({c1, c2}) \cup Permutations(Sid) \cup Permutations(Server)
=============================================================================
