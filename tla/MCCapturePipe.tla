---------------------------- MODULE MCCapturePipe ----------------------------
(* Small instances of CapturePipe. *)
EXTENDS CapturePipe, TLC

CONSTANTS gui, probe, svc, console

Good(n) == [frame |-> "ok", version |-> 1, ports |-> <<7>>, window |-> n]

\* gui asks what the app asks; probe also what a client that is not the app may.
MCAsks     == gui :> {Good(1)} @@ probe :> {Good(2), Good(4)}
MCBudget   == gui :> 2 @@ probe :> 3
==============================================================================
