----------------------------- MODULE MCDetection -----------------------------
(* Two game sockets, each with its host, and the coordinator's socket, which *)
(* outlives games, with two servers' session endpoints.                      *)
EXTENDS Detection, FiniteSets, TLC

CONSTANTS g1, g2, co, h1, h2, s1, s2, host1, host2, ses1, ses2

Ports     == host1 :> g1 @@ host2 :> g2 @@ ses1 :> co @@ ses2 :> co
Endpoints == host1 :> h1 @@ host2 :> h2 @@ ses1 :> s1 @@ ses2 :> s2
Bounds    == host1 :> 8 @@ host2 :> 8 @@ ses1 :> 5 @@ ses2 :> 5

\* A flow is silent, drips one packet or clears the floor.  Two talk at most, only
\* hosts both loudly, and a coordinator joins them in a window that straddles a switch.
Talking(w) == {f \in Flow : w[f] > 0}
Loud(w)    == {f \in Flow : w[f] = Floor}
Windows ==
  {w \in [Flow -> {0, 1, Floor}] :
     \/ /\ Cardinality(Talking(w)) <= 2
        /\ Cardinality(Loud(w)) = 2 => Loud(w) = {host1, host2}
        /\ w[ses1] > 0 => w[ses2] = 0
     \/ /\ Cardinality(Talking(w)) = 3
        /\ Loud(w) = {host1, host2}}

\* The two games are interchangeable, and so are the two servers.
SwapGames   == g1 :> g2 @@ g2 :> g1 @@ h1 :> h2 @@ h2 :> h1 @@ host1 :> host2 @@ host2 :> host1
SwapServers == s1 :> s2 @@ s2 :> s1 @@ ses1 :> ses2 @@ ses2 :> ses1
Interchangeable == {SwapGames, SwapServers, SwapGames @@ SwapServers}
=============================================================================
