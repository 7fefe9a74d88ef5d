--------------------------- MODULE MCCaptureCycle ---------------------------
(* Small instances of CaptureCycle. *)
EXTENDS CaptureCycle, TLC

\* Four processes, the second the game's if the game runs; trees of all depths, some with a cycle.
MCKinds   == {k \in [1..4 -> Kind] : k[1] # "game" /\ k[2] = "game"}
               \cup {[p \in 1..4 |-> "other"]}
MCParents == {[p \in 1..4 |-> CASE p = 1 -> 0 [] p = 2 -> a [] p = 3 -> b [] OTHER -> c]
                : a \in {1, 3}, b \in {1, 2, 4}, c \in {1, 3}}
MCOwners  == {[q \in {7, 8} |-> IF q = 7 THEN a ELSE b] : a \in {{2}, {2, 3}}, b \in {{3}, {4}}}

MCPacket == {[on |-> "eth", from |-> <<"srv", 9>>, to |-> <<"me", 7>>],
             [on |-> "eth", from |-> <<"me", 8>>, to |-> <<"srv", 9>>],
             [on |-> "eth", from |-> <<"me", 5>>, to |-> <<"srv", 9>>],
             [on |-> "vpn", from |-> <<"me", 7>>, to |-> <<"srv", 9>>]}
==============================================================================
