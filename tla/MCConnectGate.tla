---------------------------- MODULE MCConnectGate ----------------------------
(* Three clients at the gate; nothing but the order of arrival tells them     *)
(* apart.                                                                     *)
EXTENDS ConnectGate, TLC

CONSTANTS c1, c2, c3

Clients         == {c1, c2, c3}
Interchangeable == Permutations(Clients)
=============================================================================
